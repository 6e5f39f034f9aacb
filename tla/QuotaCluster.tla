---------------------------- MODULE QuotaCluster ----------------------------
(***************************************************************************)
(* The quota protocol of a fleet for one capped server: every node's       *)
(* NodeCoordinator (crates/pgprox-cluster/src/coordinator.rs) behind its   *)
(* GossipCoordinator (service.rs), the gossip sockets between them         *)
(* (bin/pgprox/src/gossip.rs), and the part of the node's ticker that      *)
(* drives them (bin/pgprox/src/run.rs).                                    *)
(*                                                                         *)
(* Every step that takes the coordinator's mutex is one action.  What is   *)
(* not the program is the environment: the clock, the network, crashes.    *)
(***************************************************************************)
EXTENDS LeaseLedger

CONSTANTS
  MaxWant,      \* bound on what one request asks for
  Busy,         \* the nodes whose clients may need more than the share
  Topologies,   \* the sets of links the network may be in
  Dwell,        \* how long the network stays in one topology at least
  BeatEvery,    \* how long a running ticker takes between two heartbeats at most
  HearEvery,    \* how long two nodes that can reach each other go between digests at most
  PeerTimeout,  \* PEER_TIMEOUT: how long an asker waits for its answer
  MayCrash,     \* the nodes that may crash and restart
  MayDrain,     \* the nodes that may be drained and undrained
  LateRequests  \* whether a request may reach the leader after its asker gave up

ASSUME EnvironmentAssumption ==
  /\ MaxWant \in Nat /\ Dwell \in Nat /\ BeatEvery \in Nat /\ HearEvery \in Nat /\ PeerTimeout \in Nat
  /\ Topologies \subseteq SUBSET (Node \X Node)
  /\ \A net \in Topologies, n, m \in Node : <<n, m>> \in net => <<m, n>> \in net
  /\ Busy \subseteq Node /\ MayCrash \subseteq Node /\ MayDrain \subseteq Node /\ LateRequests \in BOOLEAN

VARIABLES
  now,        \* the clock every Instant is read from
  links,      \* who can reach whom
  changedAt,  \* when the topology last changed
  up,         \* which processes run
  bootedAt,   \* when each of them started
  mode,       \* the mode each node reports
  phase,      \* where each node's ticker is in its tick
  peers,      \* Membership::peers, per node
  office,     \* LeaseLedger::took_office, per node
  grants,     \* LeaseLedger::grants, per node
  held,       \* NodeCoordinator::held, per node
  ask,        \* the request a node's ticker is awaiting, if any
  late        \* requests whose asker gave up, still in the leader's socket

env == <<now, links, changedAt>>
vars == <<now, links, changedAt, up, bootedAt, mode, phase, peers, office, grants, held, ask, late>>

\* Between ticks; past the heartbeat; past its quota request; in `Drain::run`.
Phase == {"idle", "quota", "done", "settling"}

NotAsking == [to |-> Never, want |-> 0, sent |-> 0, answer |-> 0]

\* `answer` is 0 until the leader has granted; a refusal ends the request.
Ask == {NotAsking} \cup [to : Node, want : 1..MaxWant, sent : Nat, answer : 0..FreePool]

Late == [to : Node, from : Node, want : 1..MaxWant]

TypeOK ==
  /\ now \in Nat /\ changedAt \in Nat /\ links \in Topologies
  /\ up \in [Node -> BOOLEAN] /\ bootedAt \in [Node -> Nat]
  /\ mode \in [Node -> Mode] /\ phase \in [Node -> Phase]
  /\ peers \in [Node -> [Node -> Contact]]
  /\ office \in [Node -> Instant]
  /\ grants \in [Node -> [Node -> Grant]]
  /\ held \in [Node -> Grant]
  /\ ask \in [Node -> Ask]
  /\ late \subseteq Late

Init ==
  /\ now = 0 /\ changedAt = 0 /\ links \in Topologies
  /\ up = [n \in Node |-> TRUE] /\ bootedAt = [n \in Node |-> 0]
  /\ mode = [n \in Node |-> "active"] /\ phase = [n \in Node |-> "idle"]
  /\ peers = [n \in Node |-> NoPeers]
  /\ office = [n \in Node |-> Never]
  /\ grants = [n \in Node |-> NoGrants]
  /\ held = [n \in Node |-> NoGrant]
  /\ ask = [n \in Node |-> NotAsking]
  /\ late = {}

-----------------------------------------------------------------------------
(* What a node reads off its own state.                                    *)

Linked(n, m) == n # m /\ <<n, m>> \in links /\ up[n] /\ up[m]

\* Mistake: a majority of the nodes still known, not of the fleet.
HasQuorumOfView(row, t) == 2 * Cardinality(AliveMembers(row, t)) > Cardinality(View(row, t))

HasQuorum(row, t) == 2 * Cardinality(AliveMembers(row, t)) > FleetSize

\* `split_for` divides by the larger of the configured size and what is seen.
Guaranteed(n) == GuaranteedPerNode(Max2(FleetSize, Cardinality(View(peers[n], now))))

Leased(n) == LiveCount(held[n], now)

\* `allowance`: what node n may open right now.
Allowance(n) == Guaranteed(n) + Leased(n)

\* `request` past both of its guards: quorum, and an office whose wait is served.
MayGrant(m) == HasQuorum(peers[m], now) /\ CanGrant(office[m], now)

\* `apply_quota` asks only when demand has reached the allowance, so a
\* request always asks for more than is leased (`wants_more_quota`).
Wants(n) == {w \in 1..MaxWant : n \in Busy /\ w > Leased(n)}

\* The ticker is sequential: nothing else of it runs inside an await.
TickerAt(n, phases) == up[n] /\ ask[n] = NotAsking /\ phase[n] \in phases

-----------------------------------------------------------------------------
(* The program.                                                            *)

\* `NodeCoordinator::observe` of node n, whose contacts have become `row`.
Observe(n, row) ==
  LET leading == IsLeader(row, n, now) /\ HasQuorum(row, now)
  IN  /\ office' = [office EXCEPT ![n] = ObserveOffice(@, leading, now)]
      /\ grants' = [grants EXCEPT ![n] = ObserveGrants(@, office[n], leading, now)]
      /\ peers' = [peers EXCEPT ![n] = ReapPeers(row, now)]

\* `GossipCoordinator::tick`, from the ticker.
Beat(n) ==
  /\ TickerAt(n, {"idle", "quota", "done"})
  /\ Observe(n, Heard(peers[n], n, mode[n], now))
  /\ phase' = [phase EXCEPT ![n] = "quota"]
  /\ UNCHANGED <<env, up, bootedAt, mode, held, ask, late>>

\* `GossipCoordinator::gossip` of node m's digest at node n, either as the
\* push `answer` receives or as the reply `speak` reads.
Hear(n, m) ==
  /\ Linked(n, m)
  /\ Observe(n, Heard(peers[n], m, mode[m], now))
  /\ UNCHANGED <<env, up, bootedAt, mode, phase, held, ask, late>>

\* `request_quota` that the local ledger grants, with its `accept`.
RequestLocal(n, want) ==
  /\ TickerAt(n, {"quota"}) /\ MayGrant(n) /\ AvailableTo(grants[n], n, now) > 0
  /\ phase' = [phase EXCEPT ![n] = "done"]
  /\ grants' = [grants EXCEPT ![n] = GrantTo(@, n, want, now)]
  /\ held' = [held EXCEPT ![n] = grants'[n][n]]
  /\ UNCHANGED <<env, up, bootedAt, mode, peers, office, ask, late>>

\* `request_quota` that goes to the leader of the node's view.  A local
\* refusal other than NoLeader is final, so an exhausted ledger does not ask.
SendRequest(n, want) ==
  /\ TickerAt(n, {"quota"}) /\ ~MayGrant(n)
  /\ phase' = [phase EXCEPT ![n] = "done"]
  /\ \E m \in Node \ {n} :
       /\ IsLeader(peers[n], m, now)
       /\ ask' = [ask EXCEPT ![n] = [to |-> m, want |-> want, sent |-> now, answer |-> 0]]
  /\ UNCHANGED <<env, up, bootedAt, mode, peers, office, grants, held, late>>

\* `serve_request` at the leader, for a request that is being awaited.
Serve(n) ==
  LET m == ask[n].to
  IN  /\ ask[n] # NotAsking /\ ask[n].answer = 0
      /\ Linked(n, m) /\ bootedAt[m] <= ask[n].sent
      /\ MayGrant(m) /\ AvailableTo(grants[m], n, now) > 0
      /\ grants' = [grants EXCEPT ![m] = GrantTo(@, n, ask[n].want, now)]
      /\ ask' = [ask EXCEPT ![n].answer = grants'[m][n].count]
      /\ UNCHANGED <<env, up, bootedAt, mode, phase, peers, office, held, late>>

\* Mistake: the lease's life counted from when the answer arrives.
AcceptFromArrival(n) ==
  /\ up[n] /\ ask[n].answer > 0
  /\ held' = [held EXCEPT ![n] = [count |-> ask[n].answer, expires |-> now + TTL]]
  /\ ask' = [ask EXCEPT ![n] = NotAsking]
  /\ UNCHANGED <<env, up, bootedAt, mode, phase, peers, office, grants, late>>

\* The answer arrives: `request_over` takes the round trip off the lease's
\* lifetime, and `request_quota` accepts it over whatever was held.
Accept(n) ==
  /\ up[n] /\ ask[n].answer > 0
  /\ held' = [held EXCEPT ![n] = [count |-> ask[n].answer, expires |-> Max2(now, ask[n].sent + TTL)]]
  /\ ask' = [ask EXCEPT ![n] = NotAsking]
  /\ UNCHANGED <<env, up, bootedAt, mode, phase, peers, office, grants, late>>

\* The asker stops waiting: a refusal, a lost message or PEER_TIMEOUT.  Its
\* socket is dropped, but what it wrote may already be in the leader's.
GiveUp(n) ==
  /\ up[n] /\ ask[n] # NotAsking
  /\ ask' = [ask EXCEPT ![n] = NotAsking]
  /\ \/ late' = late
     \/ /\ LateRequests /\ ask[n].answer = 0
        /\ up[ask[n].to] /\ bootedAt[ask[n].to] <= ask[n].sent
        /\ late' = late \cup {[to |-> ask[n].to, from |-> n, want |-> ask[n].want]}
  /\ UNCHANGED <<env, up, bootedAt, mode, phase, peers, office, grants, held>>

\* `serve_request` for a request nobody is waiting for any more.  Refused or
\* granted, it is gone; the answer is written to a closed socket.
ServeLate(r) ==
  /\ up[r.to]
  /\ late' = late \ {r}
  /\ grants' = IF MayGrant(r.to) /\ AvailableTo(grants[r.to], r.from, now) > 0
                 THEN [grants EXCEPT ![r.to] = GrantTo(@, r.from, r.want, now)]
                 ELSE grants
  /\ UNCHANGED <<env, up, bootedAt, mode, phase, peers, office, held, ask>>

\* `follow_drain`, Start, at the end of a tick: the mode is announced and the
\* ticker sits in `Drain::run` until it settles.
StartDrain(n) ==
  /\ n \in MayDrain /\ TickerAt(n, {"quota", "done"}) /\ mode[n] = "active"
  /\ mode' = [mode EXCEPT ![n] = "draining"]
  /\ phase' = [phase EXCEPT ![n] = "settling"]
  /\ UNCHANGED <<env, up, bootedAt, peers, office, grants, held, ask, late>>

\* Every client has left, or the grace has run out.
Settled(n) ==
  /\ TickerAt(n, {"settling"})
  /\ phase' = [phase EXCEPT ![n] = "idle"]
  /\ UNCHANGED <<env, up, bootedAt, mode, peers, office, grants, held, ask, late>>

\* `follow_drain`, Reverse, at the end of a tick: `undrain`.
Undrain(n) ==
  /\ TickerAt(n, {"quota", "done"}) /\ mode[n] = "draining"
  /\ mode' = [mode EXCEPT ![n] = "active"]
  /\ phase' = [phase EXCEPT ![n] = "idle"]
  /\ UNCHANGED <<env, up, bootedAt, peers, office, grants, held, ask, late>>

-----------------------------------------------------------------------------
(* The environment.                                                        *)

\* The process dies and takes all of its state with it: nothing is persisted.
Crash(n) ==
  /\ n \in MayCrash /\ up[n]
  /\ up' = [up EXCEPT ![n] = FALSE]
  /\ mode' = [mode EXCEPT ![n] = "active"]
  /\ phase' = [phase EXCEPT ![n] = "idle"]
  /\ peers' = [peers EXCEPT ![n] = NoPeers]
  /\ office' = [office EXCEPT ![n] = Never]
  /\ grants' = [grants EXCEPT ![n] = NoGrants]
  /\ held' = [held EXCEPT ![n] = NoGrant]
  /\ ask' = [ask EXCEPT ![n] = NotAsking]
  /\ late' = {r \in late : r.to # n}
  /\ UNCHANGED <<env, bootedAt>>

Restart(n) ==
  /\ ~up[n]
  /\ up' = [up EXCEPT ![n] = TRUE]
  /\ bootedAt' = [bootedAt EXCEPT ![n] = now]
  /\ UNCHANGED <<env, mode, phase, peers, office, grants, held, ask, late>>

\* A link fails or heals.
Rewire(net) ==
  /\ net # links /\ now >= changedAt + Dwell
  /\ links' = net /\ changedAt' = now
  /\ UNCHANGED <<now, up, bootedAt, mode, phase, peers, office, grants, held, ask, late>>

\* The scheduling the timings assume.  A ticker that is not inside a drain
\* beats every BeatEvery, a node that can reach another hears from it every
\* HearEvery, and no asker outwaits PEER_TIMEOUT.
BeatsInTime(n) ==
  up[n] /\ phase[n] # "settling" => now < Max2(peers[n][n].at, bootedAt[n]) + BeatEvery

HearsInTime(n, m) ==
  Linked(n, m) =>
    \/ now < peers[n][m].at + HearEvery
    \/ now < Max2(changedAt, Max2(bootedAt[n], bootedAt[m])) + HearEvery

AnswersInTime(n) == ask[n] # NotAsking => now < ask[n].sent + PeerTimeout

Advance ==
  /\ \A n \in Node : BeatsInTime(n) /\ AnswersInTime(n)
  /\ \A n, m \in Node : HearsInTime(n, m)
  /\ now' = now + 1
  /\ UNCHANGED <<links, changedAt, up, bootedAt, mode, phase, peers, office, grants, held, ask, late>>

-----------------------------------------------------------------------------
Next ==
  \/ \E n \in Node :
       \/ Beat(n)
       \/ \E m \in Node : Hear(n, m)
       \/ \E w \in Wants(n) : RequestLocal(n, w) \/ SendRequest(n, w)
       \/ Serve(n) \/ Accept(n) \/ GiveUp(n)
       \/ StartDrain(n) \/ Settled(n) \/ Undrain(n)
       \/ Crash(n) \/ Restart(n)
  \/ \E r \in late : ServeLate(r)
  \/ \E net \in Topologies : Rewire(net)
  \/ Advance

Spec == Init /\ [][Next]_vars

-----------------------------------------------------------------------------
(* Properties.                                                             *)

\* The connections the running nodes may open, each as a unit <<n, i>>.
AllowedUnits == {u \in Node \X (1..Cap) : up[u[1]] /\ u[2] <= Allowance(u[1])}

\* The sum of what every running node believes it may open (`allowance`)
\* never exceeds the server's cap: what coordinator.rs says its property
\* test asserts after every step.
CapRespected == Cardinality(AllowedUnits) <= Cap

\* At most one ledger is ever handing out leases: what coordinator.rs says
\* the quorum rule and the takeover wait achieve together.
AtMostOneGrantor == \A m, k \in Node : MayGrant(m) /\ MayGrant(k) => m = k

\* A ledger that may grant has on record every lease that is still live on
\* any node, at no less than its size and its remaining life.  This is what
\* the takeover wait is for (lease.rs: a predecessor's leases are renewed
\* through the new leader, and so known, or gone), and what taking the round
\* trip off a granted lease keeps true across the network.
Covers(grant, lease) == grant.count >= lease.count /\ grant.expires >= lease.expires

GrantorKnowsEveryLease ==
  \A m, n \in Node : MayGrant(m) /\ Leased(n) > 0 => Covers(grants[m][n], held[n])

\* No ledger has more of the free pool out than there is, whatever mix of
\* grants, renewals, expiries and holder restarts it has seen (lease.rs).
LedgerWithinPool == \A m \in Node : Outstanding(grants[m], now) <= FreePool
=============================================================================
