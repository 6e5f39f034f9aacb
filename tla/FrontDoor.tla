------------------------------ MODULE FrontDoor ------------------------------
(***************************************************************************)
(* The life of a node's clients and of the node itself: the accept loop,   *)
(* the gate and the relay's wait (bin/pgprox/src/serve.rs), the registry   *)
(* (sessions.rs), the ticker with its shed, idle and drain passes (run.rs, *)
(* drain.rs) and the drain overlay (pgprox-config/src/drain.rs).           *)
(*                                                                         *)
(* Sessions and the ticker are tasks on different threads, so every step   *)
(* of one interleaves with every step of the others.  What a statement     *)
(* does upstream is the business of SessionRelay and ExtendedQuery: here a *)
(* statement only takes a connection, and gives it back or keeps it.       *)
(***************************************************************************)
EXTENDS Integers, FiniteSets

CONSTANTS
  Visitors,          \* client connections, one after another under each name
  Documents,         \* configuration documents: [drain, max_client_conns]
  DrainTtl,          \* how long an overlay of the admin API lasts
  Grace,             \* Config::drain_grace
  IdleThreshold,     \* ShedConfig::idle_threshold
  IdleTimeout,       \* Config::client_idle_timeout
  MaxSheds,          \* ShedConfig::max_per_tenant_per_minute
  MayStop            \* whether a SIGTERM arrives

ASSUME FrontAssumption ==
  /\ IsFiniteSet(Visitors)
  /\ DrainTtl \in Nat \ {0} /\ Grace \in Nat
  /\ IdleThreshold \in Nat /\ IdleTimeout \in Nat /\ IdleThreshold <= IdleTimeout
  /\ MaxSheds \in Nat /\ MayStop \in BOOLEAN
  /\ Documents \subseteq [drain : BOOLEAN, ceiling : Nat]

VARIABLES
  visitor,   \* each client's task
  registry,  \* Sessions::live: what the ticker knows of each client
  sheds,     \* Sessions::recent: sheds of the last minute
  gate,      \* Gate: [live, ceiling]
  signal,    \* the three Shutdown channels: draining, closing and stop
  document,  \* what the configuration watch holds
  overlay,   \* how long DrainState's overlay still lives, 0 for none
  mode,      \* the mode gossip announces for this node
  ticker     \* the ticker task: see TickerPlace

frontVars == <<visitor, registry, sheds, gate, signal, document, overlay, mode, ticker>>
node == <<document, overlay, mode, ticker>>

\* away: no task.  cleared: past the draining check.  login: admitted, up to
\* the grant.  waiting: at the relay's select.  serving: from the header it read to the
\* end of the answer.  leaving: `relay` has returned.  left: admission given
\* back, registration not yet dropped.
VisitorPlace == {"away", "cleared", "login", "waiting", "serving", "leaving", "left"}

\* asleep: at the interval.  gossiping: up to the end of its own round of
\* gossip.  shedding, closing: walking the views of the shed
\* and of the idle pass.  announcing: in the drain's round.  settling: polling the
\* registry.  clearing: half way through `undrain`.  stopped: returned.
TickerPlace == {"asleep", "gossiping", "shedding", "closing", "announcing", "settling", "clearing", "stopped"}

\* What may end a session's wait, other than its client.
Reasons == {"draining", "closing", "close"}

NoEntry == [state |-> "none"]
Entries == [state : {"Idle", "Active"}, since : 0..IdleTimeout, pinned : BOOLEAN, close : BOOLEAN]
Away == [at |-> "away", held |-> FALSE, woken |-> {}, cut |-> "no"]

Registered(v) == registry[v] # NoEntry

FrontTypeOK ==
  /\ visitor \in [Visitors -> [at : VisitorPlace, held : BOOLEAN, woken : SUBSET Reasons, cut : Reasons \cup {"no"}]]
  /\ registry \in [Visitors -> Entries \cup {NoEntry}]
  /\ sheds \in 0..MaxSheds
  /\ gate \in [live : 0..Cardinality(Visitors), ceiling : Nat]
  /\ signal \in [draining : BOOLEAN, closing : BOOLEAN, stop : BOOLEAN]
  /\ document \in Documents /\ overlay \in 0..DrainTtl /\ mode \in {"Active", "Draining"}
  /\ ticker \in [at : TickerPlace, todo : SUBSET Visitors, due : BOOLEAN, grace : 0..Grace]

\* A node starts on a document that does not drain it.
FrontInit ==
  /\ visitor = [v \in Visitors |-> Away] /\ registry = [v \in Visitors |-> NoEntry]
  /\ sheds = 0
  /\ document \in {d \in Documents : ~d.drain}
  /\ gate = [live |-> 0, ceiling |-> document.ceiling]
  /\ signal = [draining |-> FALSE, closing |-> FALSE, stop |-> FALSE]
  /\ overlay = 0 /\ mode = "Active"
  /\ ticker = [at |-> "asleep", todo |-> {}, due |-> FALSE, grace |-> 0]

\* `DrainState::is_draining`: the document drains, or a live overlay does.
IsDraining == document.drain \/ overlay > 0

-----------------------------------------------------------------------------
(* `Shutdown`: a watch channel.  Sending a value, true or false, wakes     *)
(* every task already waiting; a task that starts waiting looks at the     *)
(* value first.                                                            *)

\* The waiting tasks once the signal s has been sent anything.
Sent(s) == [v \in Visitors |-> IF visitor[v].at = "waiting"
                               THEN [visitor[v] EXCEPT !.woken = @ \cup {s}] ELSE visitor[v]]

\* What a session finds already fired when it starts to wait with this entry.
AlreadyFired(entry) ==
  {s \in {"draining", "closing"} : signal[s]} \cup (IF entry.close THEN {"close"} ELSE {})

\* `fire` and `clear` on one of the node's two drain signals.
Send(s, value) == signal' = [signal EXCEPT ![s] = value] /\ visitor' = Sent(s)

-----------------------------------------------------------------------------
(* The accept loop and the login.                                          *)

\* A connection is accepted, and the first thing its task does is look at the
\* drain signal: past it, or `refuse_draining`.
Accept(v) ==
  /\ visitor[v].at = "away" /\ ~signal.stop /\ ~signal.draining
  /\ visitor' = [visitor EXCEPT ![v].at = "cleared"]
  /\ UNCHANGED <<registry, sheds, gate, signal, node>>

\* `Gate::admit`: a place under the ceiling, or `refuse_full`.
Admit(v) ==
  /\ visitor[v].at = "cleared"
  /\ IF gate.live < gate.ceiling
     THEN visitor' = [visitor EXCEPT ![v].at = "login"] /\ gate' = [gate EXCEPT !.live = @ + 1]
     ELSE visitor' = [visitor EXCEPT ![v].at = "away"] /\ UNCHANGED gate
  /\ UNCHANGED <<registry, sheds, signal, node>>

\* `Admitted::drop`.
GivenBack == [gate EXCEPT !.live = @ - 1]

\* Mutant: a login that fails keeps its place.
LoginEndsKeepingPlace(v) ==
  /\ visitor[v].at = "login"
  /\ visitor' = [visitor EXCEPT ![v].at = "away"]
  /\ UNCHANGED <<registry, sheds, gate, signal, node>>

\* A login that ends without a session: refused, past its deadline, gone, a
\* cancel request, which is delivered and answered by closing, or an operator,
\* whose console gives its admission back before it is served.
LoginEnds(v) ==
  /\ visitor[v].at = "login"
  /\ visitor' = [visitor EXCEPT ![v].at = "away"] /\ gate' = GivenBack
  /\ UNCHANGED <<registry, sheds, signal, node>>

\* A tenant's session registers and starts its first wait.  Startup settings
\* may pin it already.
RegisterSession(v, pinned) ==
  /\ visitor[v].at = "login"
  /\ LET entry == [state |-> "Idle", since |-> 0, pinned |-> pinned, close |-> FALSE]
     IN  /\ registry' = [registry EXCEPT ![v] = entry]
         /\ visitor' = [visitor EXCEPT ![v].at = "waiting", ![v].woken = AlreadyFired(entry)]
  /\ UNCHANGED <<sheds, gate, signal, node>>

-----------------------------------------------------------------------------
(* The relay loop.                                                         *)

\* Back to the select, holding a connection or not.
WaitsAgain(v, held, entry) ==
  visitor' = [visitor EXCEPT ![v].at = "waiting", ![v].held = held, ![v].woken = AlreadyFired(entry)]

\* The header of a statement that needs a connection.  `borrow` marks the
\* client as no longer idle before it waits for one; Waiting and Active are one
\* here, since the passes only ask whether a client is Idle.
Reads(v) ==
  /\ visitor[v].at = "waiting"
  /\ visitor' = [visitor EXCEPT ![v].at = "serving", ![v].held = TRUE, ![v].woken = {}]
  /\ registry' = [registry EXCEPT ![v] = IF @.state = "Active" THEN @ ELSE [@ EXCEPT !.state = "Active", !.since = 0]]
  /\ UNCHANGED <<sheds, gate, signal, node>>

\* A statement answered without a connection: a cache hit, or a routing hint.
\* The registry is not told.
AnswersItself(v) ==
  /\ visitor[v].at = "waiting" /\ ~visitor[v].held
  /\ WaitsAgain(v, FALSE, registry[v])
  /\ UNCHANGED <<registry, sheds, gate, signal, node>>

\* The answer ends at a boundary and the connection goes back: `release`.
Releases(v) ==
  /\ visitor[v].at = "serving" /\ ~registry[v].pinned
  /\ LET entry == [registry[v] EXCEPT !.state = "Idle", !.since = 0]
     IN  registry' = [registry EXCEPT ![v] = entry] /\ WaitsAgain(v, FALSE, entry)
  /\ UNCHANGED <<sheds, gate, signal, node>>

\* It ends inside a transaction, or pins the session: the connection stays.
Keeps(v, pins) ==
  /\ visitor[v].at = "serving"
  /\ LET entry == [registry[v] EXCEPT !.pinned = @ \/ pins]
     IN  registry' = [registry EXCEPT ![v] = entry] /\ WaitsAgain(v, TRUE, entry)
  /\ UNCHANGED <<sheds, gate, signal, node>>

\* The client hangs up, or its session fails for a reason of its own.
Vanishes(v) ==
  /\ visitor[v].at \in {"waiting", "serving"}
  /\ visitor' = [visitor EXCEPT ![v].at = "leaving", ![v].woken = {}, ![v].held = FALSE]
  /\ UNCHANGED <<registry, sheds, gate, signal, node>>

\* Mutant: a drain or a close is heard inside a transaction too.
HeardAnyTime(v) == visitor[v].woken

\* What the select may answer: a drain or a close only when no connection is
\* held, the end of the grace always.
Heard(v) ==
  {s \in visitor[v].woken : s = "closing" \/ ~visitor[v].held}

\* The client is told why and the session ends, transaction or not.
SendsAway(v, s) ==
  /\ visitor[v].at = "waiting" /\ s \in Heard(v)
  /\ visitor' = [visitor EXCEPT ![v].at = "leaving", ![v].woken = {}, ![v].held = FALSE,
                               ![v].cut = IF visitor[v].held THEN s ELSE "no"]
  /\ UNCHANGED <<registry, sheds, gate, signal, node>>

\* `drop(admitted)`, then `Registration::drop`.
GivesBackAdmission(v) ==
  /\ visitor[v].at = "leaving"
  /\ visitor' = [visitor EXCEPT ![v].at = "left"] /\ gate' = GivenBack
  /\ UNCHANGED <<registry, sheds, signal, node>>

Deregisters(v) ==
  /\ visitor[v].at = "left"
  /\ visitor' = [visitor EXCEPT ![v] = Away] /\ registry' = [registry EXCEPT ![v] = NoEntry]
  /\ UNCHANGED <<sheds, gate, signal, node>>

-----------------------------------------------------------------------------
(* What reaches the node from outside.                                     *)

\* `FileSource::poll` publishes a document that parsed and differs; a bad one
\* changes nothing that is in force.
Publish(d) ==
  /\ d # document /\ document' = d
  /\ UNCHANGED <<visitor, registry, sheds, gate, signal, overlay, mode, ticker>>

\* POST /v1/drain, and its reverse, which the document's drain refuses.
PostDrain ==
  /\ overlay' = DrainTtl
  /\ UNCHANGED <<visitor, registry, sheds, gate, signal, document, mode, ticker>>

PostUndrain ==
  /\ ~document.drain /\ overlay' = 0
  /\ UNCHANGED <<visitor, registry, sheds, gate, signal, document, mode, ticker>>

\* SIGTERM: `terminated` fires the process shutdown.
Terminate ==
  /\ MayStop /\ ~signal.stop /\ signal' = [signal EXCEPT !.stop = TRUE]
  /\ UNCHANGED <<visitor, registry, sheds, gate, node>>

Sooner(n) == IF n = 0 THEN 0 ELSE n - 1
Older(n, cap) == IF n = cap THEN cap ELSE n + 1

\* One unit of time.  The ticker's own steps take none: the clock waits for it
\* except where it awaits the interval, a round of gossip (the quota request
\* before it included) or the grace.  The sheds of the last minute are forgotten at some such step.
Clock ==
  /\ \/ ticker.at = "asleep" /\ ~ticker.due
     \/ ticker.at \in {"gossiping", "announcing", "stopped"}
     \/ ticker.at = "settling" /\ ticker.grace > 0
  /\ ticker' = [ticker EXCEPT !.due = TRUE, !.grace = Sooner(@)]
  /\ overlay' = Sooner(overlay) /\ sheds' \in {0, sheds}
  /\ registry' = [v \in Visitors |-> IF Registered(v) THEN [registry[v] EXCEPT !.since = Older(@, IdleTimeout)] ELSE NoEntry]
  /\ UNCHANGED <<visitor, gate, signal, document, mode>>

-----------------------------------------------------------------------------
(* The ticker.                                                             *)

\* The clients a view allows to shed: `decide`'s guards on the client itself.
MaySend(v) ==
  Registered(v) /\ registry[v].state = "Idle" /\ ~registry[v].pinned /\ registry[v].since >= IdleThreshold

\* A tick begins: the ceiling of the document in force, and
\* what QuotaCluster models.
TickStarts ==
  /\ ticker.at = "asleep" /\ ticker.due
  /\ ticker' = [ticker EXCEPT !.at = "gossiping", !.due = FALSE]
  /\ gate' = [gate EXCEPT !.ceiling = document.ceiling]
  /\ UNCHANGED <<visitor, registry, sheds, signal, document, overlay, mode>>

\* The views of `shed_pass`, unless the node is draining.
TakesShedViews ==
  /\ ticker.at = "gossiping"
  /\ ticker' = [ticker EXCEPT !.at = "shedding", !.todo = IF IsDraining THEN {} ELSE {v \in Visitors : MaySend(v)}]
  /\ UNCHANGED <<visitor, registry, sheds, gate, signal, document, overlay, mode>>

\* The rest of `decide`: the tenant's home is elsewhere, has room, is not
\* draining, has been settled long enough, and the tenant is under its rate.
HomePlacements == [onHomeNode : BOOLEAN, headroom : BOOLEAN, homeDraining : BOOLEAN, settled : BOOLEAN]

ShedsTo(p) == ~p.onHomeNode /\ ~p.homeDraining /\ p.headroom /\ p.settled /\ sheds < MaxSheds

\* `Sessions::shed` and `Sessions::close_idle` on a client that may be gone:
\* its entry, and its close signal, if it has one.
Fires(v) ==
  IF Registered(v)
  THEN /\ registry' = [registry EXCEPT ![v].close = TRUE]
       /\ visitor' = IF visitor[v].at = "waiting" THEN [visitor EXCEPT ![v].woken = @ \cup {"close"}] ELSE visitor
  ELSE UNCHANGED <<registry, visitor>>

\* Whether it sheds this client is the placement's affair.
Sheds(v, decision) ==
  /\ ticker.at = "shedding" /\ v \in ticker.todo
  /\ IF decision
     THEN Fires(v) /\ sheds' = IF Registered(v) THEN sheds + 1 ELSE sheds
     ELSE UNCHANGED <<registry, visitor, sheds>>
  /\ ticker' = [ticker EXCEPT !.todo = @ \ {v}]
  /\ UNCHANGED <<gate, signal, document, overlay, mode>>

\* `idle_timeout_pass` takes views of its own.
TakesIdleViews ==
  /\ ticker.at = "shedding" /\ ticker.todo = {}
  /\ ticker' = [ticker EXCEPT !.at = "closing",
       !.todo = {v \in Visitors : Registered(v) /\ registry[v].state = "Idle" /\ registry[v].since >= IdleTimeout}]
  /\ UNCHANGED <<visitor, registry, sheds, gate, signal, document, overlay, mode>>

ClosesIdle(v) ==
  /\ ticker.at = "closing" /\ v \in ticker.todo
  /\ Fires(v) /\ ticker' = [ticker EXCEPT !.todo = @ \ {v}]
  /\ UNCHANGED <<sheds, gate, signal, document, overlay, mode>>

PassesDone == ticker.at = "closing" /\ ticker.todo = {}

\* Mutant: the drain starts without telling the cluster.
StartsDrainQuietly ==
  /\ PassesDone /\ IsDraining /\ ~signal.draining
  /\ ticker' = [ticker EXCEPT !.at = "announcing"]
  /\ UNCHANGED <<visitor, registry, sheds, gate, signal, document, overlay, mode>>

\* `follow_drain`: the node was told to drain and has not, so gossip says it
\* is draining before any client hears of it.
StartsDrain ==
  /\ PassesDone /\ IsDraining /\ ~signal.draining
  /\ mode' = "Draining" /\ ticker' = [ticker EXCEPT !.at = "announcing"]
  /\ UNCHANGED <<visitor, registry, sheds, gate, signal, document, overlay>>

\* It has, and no longer should: `undrain`, one signal after the other.
StartsUndrain ==
  /\ PassesDone /\ ~IsDraining /\ signal.draining
  /\ Send("draining", FALSE) /\ ticker' = [ticker EXCEPT !.at = "clearing"]
  /\ UNCHANGED <<registry, sheds, gate, document, overlay, mode>>

\* Mutant: the closing signal is left fired.
EndsUndrainHalfway ==
  /\ ticker.at = "clearing"
  /\ mode' = "Active" /\ ticker' = [ticker EXCEPT !.at = "asleep"]
  /\ UNCHANGED <<visitor, registry, sheds, gate, signal, document, overlay>>

EndsUndrain ==
  /\ ticker.at = "clearing"
  /\ Send("closing", FALSE) /\ mode' = "Active" /\ ticker' = [ticker EXCEPT !.at = "asleep"]
  /\ UNCHANGED <<registry, sheds, gate, document, overlay>>

NothingToFollow ==
  /\ PassesDone /\ IsDraining = signal.draining
  /\ ticker' = [ticker EXCEPT !.at = "asleep"]
  /\ UNCHANGED <<visitor, registry, sheds, gate, signal, document, overlay, mode>>

\* The round has ended: the clients are told, and the grace begins.
Announced ==
  /\ ticker.at = "announcing"
  /\ Send("draining", TRUE) /\ ticker' = [ticker EXCEPT !.at = "settling", !.grace = Grace]
  /\ UNCHANGED <<registry, sheds, gate, document, overlay, mode>>

\* The registry is empty at a poll, or it is not when the grace is over.
Settled ==
  /\ ticker.at = "settling" /\ \A v \in Visitors : ~Registered(v)
  /\ ticker' = [ticker EXCEPT !.at = "asleep", !.grace = 0]
  /\ UNCHANGED <<visitor, registry, sheds, gate, signal, document, overlay, mode>>

\* Mutant: the grace ends and nobody is told.
ForcedQuietly ==
  /\ ticker.at = "settling" /\ ticker.grace = 0 /\ \E v \in Visitors : Registered(v)
  /\ ticker' = [ticker EXCEPT !.at = "asleep"]
  /\ UNCHANGED <<visitor, registry, sheds, gate, signal, document, overlay, mode>>

Forced ==
  /\ ticker.at = "settling" /\ ticker.grace = 0 /\ \E v \in Visitors : Registered(v)
  /\ Send("closing", TRUE) /\ ticker' = [ticker EXCEPT !.at = "asleep"]
  /\ UNCHANGED <<registry, sheds, gate, document, overlay, mode>>

\* The ticker sees the process shutdown only at the interval, and what runs
\* after it closes every client.
Stops ==
  /\ ticker.at = "asleep" /\ signal.stop
  /\ Send("closing", TRUE) /\ ticker' = [ticker EXCEPT !.at = "stopped"]
  /\ UNCHANGED <<registry, sheds, gate, document, overlay, mode>>

TickerStep ==
  \/ TickStarts \/ TakesShedViews \/ TakesIdleViews \/ StartsDrain \/ StartsUndrain \/ EndsUndrain
  \/ NothingToFollow \/ Announced \/ Settled \/ Forced \/ Stops
  \/ \E v \in Visitors : ClosesIdle(v) \/ \E decision \in {ShedsTo(p) : p \in HomePlacements} : Sheds(v, decision)

Outside == PostDrain \/ PostUndrain \/ Terminate \/ \E d \in Documents : Publish(d)

SessionStep(v) ==
  \/ Accept(v) \/ Admit(v) \/ LoginEnds(v)
  \/ Reads(v) \/ AnswersItself(v) \/ Releases(v) \/ Vanishes(v) \/ GivesBackAdmission(v) \/ Deregisters(v)
  \/ \E p \in BOOLEAN : RegisterSession(v, p) \/ Keeps(v, p)
  \/ \E s \in Reasons : SendsAway(v, s)

FrontNext == TickerStep \/ Outside \/ Clock \/ \E v \in Visitors : SessionStep(v)

FrontSpec == FrontInit /\ [][FrontNext]_frontVars

\* The ticker and the clock run; a statement that was sent is answered; a
\* session that has to leave does; and select! polls its branches in random
\* order, so a signal that keeps being there is not passed over for ever.
Answered(v) == Releases(v) \/ Keeps(v, FALSE)
Leaves(v) == GivesBackAdmission(v) \/ Deregisters(v)
IsToldToGo(v) == \E s \in Reasons : SendsAway(v, s)

FrontFairness ==
  /\ WF_frontVars(TickerStep) /\ WF_frontVars(Clock)
  /\ \A v \in Visitors : WF_frontVars(Answered(v)) /\ WF_frontVars(Leaves(v)) /\ SF_frontVars(IsToldToGo(v))

FrontFairSpec == FrontSpec /\ FrontFairness

-----------------------------------------------------------------------------

\* The gate counts exactly the tasks that may still hold a session, whatever
\* order their admissions and registrations are dropped in, and the registry
\* lists exactly the sessions the ticker may still have to close.
GateCountsTheAdmitted ==
  /\ gate.live = Cardinality({v \in Visitors : visitor[v].at \in {"login", "waiting", "serving", "leaving"}})
  /\ \A v \in Visitors : Registered(v) <=> visitor[v].at \in {"waiting", "serving", "leaving", "left"}

\* A session that holds a connection is never closed by a shed, by the idle
\* timeout or by the first half of a drain, however old the view that chose it
\* is: only the end of the grace may cut a transaction.
OnlyTheGraceCuts ==
  \A v \in Visitors : visitor[v].cut \in {"no", "closing"}

\* Peers are told before clients are: while either drain signal stands, gossip
\* announces this node as draining, undrains and expired overlays included.
PeersHearFirst ==
  ~signal.stop /\ (signal.draining \/ signal.closing) => mode = "Draining"

\* However often a drain is ordered, cancelled or left to expire, the signals
\* and the announced mode end where the mode ends: a node told to drain does,
\* and one taken back serves again, unless the process is told to stop.
SignalsFollowTheMode ==
  /\ <>[](IsDraining /\ ~signal.stop) => <>[](signal.draining /\ mode = "Draining")
  /\ <>[](~IsDraining /\ ~signal.stop) => <>[](~signal.draining /\ ~signal.closing /\ mode = "Active")

\* Every client the drain waits for leaves, whatever transaction it sits in,
\* unless the drain is taken back; and so does every client of a node that
\* was told to stop, one still logging in at the time included.
EveryoneLeavesADrain ==
  \A v \in Visitors :
    /\ (ticker.at = "settling" /\ Registered(v)) ~> (~Registered(v) \/ ~signal.draining)
    /\ (ticker.at = "stopped" /\ Registered(v)) ~> ~Registered(v)
=============================================================================
