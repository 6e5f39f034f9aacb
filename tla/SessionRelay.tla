---------------------------- MODULE SessionRelay ----------------------------
(***************************************************************************)
(* Transaction pooling: client sessions share upstream connections, and    *)
(* each of them should not be able to tell.  A session borrows a           *)
(* connection for the frame in hand, keeps it while a transaction, an      *)
(* extended sequence or a pin needs it, and gives it back at an idle       *)
(* ReadyForQuery.                                                          *)
(*                                                                         *)
(* Modelled: the relay loop and its helpers (bin/pgprox/src/serve.rs), the *)
(* per-session decision machine (pgprox-session relay.rs), the protocol    *)
(* state that gates the release (pgprox-proto session.rs), the router and  *)
(* its rule (pgprox-route router.rs, pgprox-core route.rs), the replica    *)
(* positions the poller publishes (replica.rs, poller.rs), the replay of   *)
(* session parameters (params.rs, resume.rs), the position probe           *)
(* (probe.rs) and the cancel registry (cancel.rs, sessions.rs).            *)
(*                                                                         *)
(* The database servers are external: a connection carries the transaction,*)
(* the parameter and the session-bound state a Postgres backend would.     *)
(* "direct" is the same backend as it would be had the client dialled it   *)
(* itself; it is compared with, and never read by an action of the proxy.  *)
(***************************************************************************)
EXTENDS Integers

CONSTANTS
    Sessions,     \* client sessions of one tenant: they share pool keys
    Conns,        \* upstream connections that may be open at once
    Replicas,     \* indexes of the grant's replicas, from 1
    Vals,         \* values of the one replayable parameter
    Dedicated,    \* sessions whose grant pools by session
    Queried,      \* what each client sends as a simple Query
    Parsed,       \* what each client sends as Parse, Bind, Execute, Sync
    SettingsOutsideTransactions, \* clients SET and pin only when idle
    MaxLsn        \* bound on the primary's WAL position


VARIABLES
    ses,      \* what the proxy knows of each session (Live, Relay, router)
    conn,     \* the upstream connections, as their servers see them
    cancels,  \* the registry a CancelRequest is routed by
    lsn,      \* the primary's WAL position
    replayed, \* how far each replica has really replayed
    seen,     \* how far the poller last saw it, or Unheard
    direct,   \* each client's backend had it not been pooled
    written   \* the position of each client's last committed write

vars == <<ses, conn, cancels, lsn, replayed, seen, direct, written>>

Primary == 0
NoTarget == -1
Unheard == -1
NoConn == "no connection"
Default == "default"

Targets == {Primary} \union Replicas

Op(name) == [op |-> name, val |-> Default]
Set(v) == [op |-> "set", val |-> v]
None == Op("none")

AllStatements == [op : {"none", "read", "write", "call", "begin", "begin_ro",
                        "late_begin", "commit", "rollback", "set", "reset",
                        "pin", "route_replica"},
                  val : Vals \union {Default}]

ASSUME RelayAssumption ==
    /\ Replicas \subseteq Nat \ {0}
    /\ Dedicated \subseteq Sessions
    /\ Queried \in [Sessions -> SUBSET AllStatements]
    /\ Parsed \in [Sessions -> SUBSET AllStatements]
    /\ SettingsOutsideTransactions \in BOOLEAN
    /\ MaxLsn \in Nat
    /\ NoConn \notin Conns /\ {"idle", "closed"} \cap Sessions = {}

(***************************************************************************)
(* What the proxy reads off a statement.                                   *)
(***************************************************************************)

\* classify: the leading word decides.  "call" is any statement that writes
\* and is neither a read nor on the list of write words (CALL, DO, COPY).
Class(q) ==
    CASE q.op = "read" -> "read"
      [] q.op = "write" -> "write"
      [] OTHER -> "unknown"

BeginsReadOnly(q) == q.op = "begin_ro"

\* Only a leading BEGIN or START; "late_begin" is `SELECT 1; BEGIN`.
BeginsTransaction(q) == q.op \in {"begin", "begin_ro"}

\* Statements whose effect outlives the transaction on one backend.
Pins(q) == q.op = "pin"

\* SessionParams::observe_statement; Default is a parameter not recorded.
Recorded(params, q) ==
    CASE q.op = "set" -> q.val
      [] q.op = "reset" -> Default
      [] OTHER -> params

(***************************************************************************)
(* Routing.                                                                *)
(***************************************************************************)

FirstOf(S) == CHOOSE i \in S : \A j \in S : i <= j

\* A replica may serve a session whose writes it has been seen to replay.
CanServe(r, floor) == seen[r] # Unheard /\ seen[r] >= floor

\* Mutant: a pin does not fix the primary.
DecideIgnoringPin(x, class) ==
    LET eligible == IF x.hint = "replica" THEN class # "write"
                                          ELSE class = "read"
        fit == {r \in Replicas : CanServe(r, x.watermark)}
    IN  IF x.wrote \/ ~eligible \/ fit = {} THEN Primary ELSE FirstOf(fit)

\* decide: everything that is not provably safe on a replica is not.
Decide(x, class) ==
    LET eligible == IF x.hint = "replica" THEN class # "write"
                                          ELSE class = "read"
        fit == {r \in Replicas : CanServe(r, x.watermark)}
    IN  IF x.pinned \/ x.wrote \/ ~eligible \/ fit = {}
        THEN Primary
        ELSE FirstOf(fit)

\* SessionRouter::route, as the session after it and the target it named.
Route(x, q) ==
    IF x.fixed # NoTarget
    THEN [x EXCEPT !.wrote = @ \/ (~x.readOnly /\ Class(q) = "write"),
                   !.target = x.fixed]
    ELSE LET readOnly == x.readOnly \/ BeginsReadOnly(q)
             class == IF readOnly THEN "read" ELSE Class(q)
             target == Decide(x, class)
         IN  [x EXCEPT !.readOnly = readOnly,
                       !.wrote = @ \/ class = "write",
                       !.target = target,
                       !.fixed = IF x.tx = "T" \/ BeginsTransaction(q)
                                 THEN target ELSE NoTarget]

(***************************************************************************)
(* The relay's decision for one client frame.                              *)
(***************************************************************************)

Frame(kind, q) == [kind |-> kind, sql |-> q]
NoFrame == Frame("none", None)

\* Relay::on_client for a frame that carries SQL: the sequence opens, the pin
\* is observed before the route is decided, the session records its SETs.
OnStatement(x, f) ==
    Route([x EXCEPT !.inSequence = @ \/ f.kind = "Parse",
                    !.pinned = @ \/ Pins(f.sql),
                    !.params = Recorded(@, f.sql)],
          f.sql)

\* Relay::forward_without_routing, for Bind, Execute and Sync.
ForwardWithoutRouting(x, f) ==
    [x EXCEPT !.inSequence = @ \/ f.kind # "Sync", !.target = Primary]

OnClient(x, f) ==
    IF f.kind \in {"Query", "Parse"} THEN OnStatement(x, f)
                                     ELSE ForwardWithoutRouting(x, f)

\* Which of the frames make the loop read an answer (awaits_more is false).
AsksForAnswer(f) == f.kind \in {"Query", "Sync"}

\* Mutant: only an open transaction holds, not a failed one.
ReleasableWhenFailed(x) == x.tx # "T" /\ ~x.inSequence

\* SessionState::is_releasable: an idle status and no open sequence.
Releasable(x) == x.tx = "I" /\ ~x.inSequence

\* Mutant: a pin does not keep the connection.
ReleaseAtReadyPinned(x) == x.held # NoTarget /\ Releasable(x)

\* What Relay::on_server answers to a ReadyForQuery.
ReleaseAtReady(x) == x.held # NoTarget /\ Releasable(x) /\ ~x.pinned

(***************************************************************************)
(* The servers.                                                            *)
(***************************************************************************)

Closed ==
    [by |-> "closed", to |-> NoTarget, tx |-> "I", dirty |-> FALSE,
     param |-> Default, saved |-> Default, bound |-> {}, unread |-> "no",
     todo |-> None]

Opened(s, t) == [Closed EXCEPT !.by = s, !.to = t]

Writes(q) == q.op \in {"write", "call"}

\* Whether the statement can succeed there: a replica and a read-only
\* transaction refuse writes, and only reads and writes fail by chance.
Outcomes(cn, q) ==
    IF Writes(q) /\ (cn.to # Primary \/ cn.tx = "R") THEN {FALSE}
    ELSE IF q.op \in {"read", "write", "call"} THEN BOOLEAN ELSE {TRUE}

EndTx(cn, p) ==
    [cn EXCEPT !.tx = "I", !.dirty = FALSE, !.param = p, !.saved = Default]

OpenTx(cn, tx) ==
    IF cn.tx = "I" THEN [cn EXCEPT !.tx = tx, !.saved = cn.param] ELSE cn

\* One statement of session s on a backend; tx "R" is a read-only "T".
Run(cn, s, q, ok) ==
    IF cn.tx = "E" /\ q.op \notin {"commit", "rollback"} THEN cn
    ELSE IF ~ok THEN [cn EXCEPT !.tx = IF @ = "I" THEN "I" ELSE "E"]
    ELSE CASE q.op = "begin_ro" -> OpenTx(cn, "R")
           [] q.op \in {"begin", "late_begin"} -> OpenTx(cn, "T")
           [] q.op = "commit" ->
                EndTx(cn, IF cn.tx = "E" THEN cn.saved ELSE cn.param)
           [] q.op = "rollback" ->
                EndTx(cn, IF cn.tx = "I" THEN cn.param ELSE cn.saved)
           [] q.op = "set" -> [cn EXCEPT !.param = q.val]
           [] q.op = "reset" -> [cn EXCEPT !.param = Default]
           [] q.op = "pin" -> [cn EXCEPT !.bound = @ \union {s}]
           [] Writes(q) -> [cn EXCEPT !.dirty = cn.tx = "T"]
           [] OTHER -> cn

Commits(cn, q, ok) ==
    \/ ok /\ cn.tx = "I" /\ Writes(q)
    \/ cn.tx = "T" /\ cn.dirty /\ q.op = "commit"

Status(cn) == IF cn.tx = "R" THEN "T" ELSE cn.tx

(***************************************************************************)
(* The relay loop.                                                         *)
(***************************************************************************)

NewSession ==
    [pc |-> "idle", frame |-> NoFrame, tx |-> "I", inSequence |-> FALSE,
     pinned |-> FALSE, hint |-> "auto", fixed |-> NoTarget,
     readOnly |-> FALSE, wrote |-> FALSE, watermark |-> 0, held |-> NoTarget,
     target |-> NoTarget, conn |-> NoConn, params |-> Default,
     parsed |-> None]

Init ==
    /\ ses = [s \in Sessions |-> NewSession]
    /\ conn = [c \in Conns |-> Closed]
    /\ cancels = [s \in Sessions |-> NoConn]
    /\ lsn = 0
    /\ replayed = [r \in Replicas |-> 0]
    /\ seen = [r \in Replicas |-> Unheard]
    /\ direct = [s \in Sessions |-> Opened(s, Primary)]
    /\ written = [s \in Sessions |-> 0]

\* Clients speak the protocol: a parsed statement is executed, then synced.
ClientFrames(s) ==
    IF ses[s].parsed = None
    THEN {Frame("Query", q) : q \in Queried[s]}
           \union {Frame("Parse", q) : q \in Parsed[s]}
    ELSE {IF ses[s].frame.kind = "Parse" THEN Frame("Execute", ses[s].parsed)
                                         ELSE Frame("Sync", None)}

Wellbehaved(s, f) ==
    SettingsOutsideTransactions /\ f.sql.op \in {"set", "reset", "pin"}
        => direct[s].tx = "I"

\* send_upstream, onto the connection the session holds: a statement to run
\* reaches the server, and the session waits if the frame asks for an answer.
Forwarded(x) ==
    LET f == x.frame IN
    [x EXCEPT !.pc = IF AsksForAnswer(f) THEN "sent" ELSE "idle",
              !.target = NoTarget,
              !.frame = IF AsksForAnswer(f) THEN NoFrame ELSE f,
              !.parsed = IF f.kind = "Parse" THEN f.sql ELSE @]

Delivered(x, cs) ==
    IF x.frame.kind \in {"Query", "Execute"}
    THEN [cs EXCEPT ![x.conn] = [@ EXCEPT !.todo = x.frame.sql]]
    ELSE cs

Forward(s, x, cs) ==
    /\ ses' = [ses EXCEPT ![s] = Forwarded(x)]
    /\ conn' = Delivered(x, cs)

\* One frame from the client, decided; a connection held for another target
\* is replaced, and none held is borrowed.
ClientSends(s, f) ==
    /\ ses[s].pc = "idle" /\ Wellbehaved(s, f)
    /\ f.sql.op # "route_replica"
    /\ LET x == [OnClient(ses[s], f) EXCEPT !.frame = f] IN
       IF x.held # x.target
       THEN /\ ses' = [ses EXCEPT ![s] = [x EXCEPT !.pc = "acquiring"]]
            /\ UNCHANGED conn
       ELSE Forward(s, x, conn)
    /\ UNCHANGED <<cancels, lsn, replayed, seen, direct, written>>

\* SET pgprox.route is answered by the proxy and reaches no server.
ClientHints(s) ==
    /\ ses[s].pc = "idle" /\ ses[s].parsed = None
    /\ Op("route_replica") \in Queried[s]
    /\ ses' = [ses EXCEPT ![s].hint = "replica"]
    /\ UNCHANGED <<conn, cancels, lsn, replayed, seen, direct, written>>

\* Mutant: an idle connection is taken as it is.
FitUnchecked(cn) == TRUE

\* fit_connection: an idle connection that has something to say is closed
\* and another is taken.  What is already in the proxy's own buffer is not
\* seen by the poll of the socket.
Fit(cn) == cn.unread # "socket"

\* Mutant: a connection that was used before is not replayed onto.
ResumeOnlyFresh(cn, x) ==
    [cn EXCEPT !.param = IF x.params = Default \/ @ # Default
                         THEN @ ELSE x.params]

\* resume: replay_onto is called with an empty connection memory, so what
\* the session recorded is SET and nothing is ever RESET.
Resume(cn, x) ==
    [cn EXCEPT !.param = IF x.params = Default THEN @ ELSE x.params]

\* borrow, resume and the assignment that drops the connection held before:
\* a guard dropped without release_clean closes its connection.
Install(s, c, cn) ==
    LET x == ses[s]
        old == IF x.conn = NoConn THEN {} ELSE {x.conn}
        cs == [d \in Conns |-> IF d = c THEN Resume([cn EXCEPT !.by = s], x)
                               ELSE IF d \in old THEN Closed ELSE conn[d]]
    IN  /\ cancels' = [cancels EXCEPT ![s] = c]
        /\ Forward(s, [x EXCEPT !.held = x.target, !.conn = c], cs)
        /\ UNCHANGED <<lsn, replayed, seen, direct, written>>

AcquireIdle(s, c) ==
    /\ ses[s].pc = "acquiring"
    /\ conn[c].by = "idle" /\ conn[c].to = ses[s].target
    /\ Fit(conn[c])
    /\ Install(s, c, conn[c])

\* The pool opens a connection only when it has none idle.
AcquireNew(s, c) ==
    /\ ses[s].pc = "acquiring"
    /\ conn[c].by = "closed" /\ \A t \in Sessions : cancels[t] # c
    /\ ~ \E d \in Conns : conn[d].by = "idle" /\ conn[d].to = ses[s].target
    /\ Install(s, c, Opened(s, ses[s].target))

\* An unfit connection is closed, guard and socket, and the loop goes again.
DiscardUnfit(s, c) ==
    /\ ses[s].pc = "acquiring"
    /\ conn[c].by = "idle" /\ conn[c].to = ses[s].target
    /\ ~Fit(conn[c])
    /\ conn' = [conn EXCEPT ![c] = Closed]
    /\ UNCHANGED <<ses, cancels, lsn, replayed, seen, direct, written>>

\* Relay::on_server at a ReadyForQuery: the sequence is over, and at an idle
\* status so is the transaction; then the release is decided.
AtReady(s, x, status) ==
    LET y == [x EXCEPT !.tx = status, !.inSequence = FALSE,
                       !.fixed = IF status = "I" THEN NoTarget ELSE @,
                       !.readOnly = @ /\ status # "I",
                       !.parsed = None]
        releases == ReleaseAtReady(y) /\ s \notin Dedicated
    IN  [y EXCEPT !.pc = IF releases THEN "releasing" ELSE "idle"]

\* The server runs what it was sent and the pump forwards its answer up to
\* the ReadyForQuery, which decides what becomes of the connection.
ServerAnswers(s, ok) ==
    LET c == ses[s].conn
        cn == conn[c]
        ran == Run(cn, s, cn.todo, ok)
        commits == Commits(cn, cn.todo, ok)
    IN  /\ ses[s].pc = "sent"
        /\ ok \in Outcomes(cn, cn.todo)
        /\ commits => lsn < MaxLsn
        /\ lsn' = IF commits THEN lsn + 1 ELSE lsn
        /\ written' = IF commits THEN [written EXCEPT ![s] = lsn + 1]
                                 ELSE written
        /\ direct' = [direct EXCEPT ![s] = Run(@, s, cn.todo, ok)]
        /\ conn' = [conn EXCEPT ![c] = [ran EXCEPT !.todo = None]]
        /\ ses' = [ses EXCEPT ![s] = AtReady(s, @, Status(ran))]
        /\ UNCHANGED <<cancels, replayed, seen>>

\* primary_lsn: a primary gives its position, gives none that can be read,
\* or the connection is lost (its end is in the socket).  A replica refuses
\* pg_current_wal_insert_lsn, and the refusal is not read to its
\* ReadyForQuery: that is still in the socket, or already in the buffer the
\* error was read from.
ProbeOutcomes(cn) ==
    IF cn.to = Primary THEN {"position", "unknown", "lost"}
                       ELSE {"refused, rest in socket", "refused, rest read"}

AfterProbe(cn, outcome) ==
    CASE outcome = "refused, rest read" -> [cn EXCEPT !.unread = "buffer"]
      [] outcome \in {"position", "unknown"} -> cn
      [] OTHER -> [cn EXCEPT !.unread = "socket"]

\* Mutant: a probe that failed is taken for one that answered.
RecordWriteAnyway(x, outcome) == [x EXCEPT !.wrote = FALSE]

\* Relay::record_write, when the probe brought a position back.
RecordWrite(x, outcome) ==
    IF outcome = "position"
    THEN [x EXCEPT !.wrote = FALSE,
                   !.watermark = IF @ >= lsn THEN @ ELSE lsn]
    ELSE x

\* release: ask where the write landed, put the connection back in the
\* pool's map, mark the guard clean and take the session off the registry.
\* The guard is still alive: it is dropped when the function returns.
Release(s, outcome) ==
    LET x == ses[s] IN
    /\ x.pc = "releasing"
    /\ outcome \in IF x.wrote THEN ProbeOutcomes(conn[x.conn]) ELSE {"unasked"}
    /\ ses' = [ses EXCEPT ![s] =
                 [IF x.wrote THEN RecordWrite(x, outcome) ELSE x
                    EXCEPT !.pc = "returning", !.held = NoTarget]]
    /\ conn' = IF x.wrote
               THEN [conn EXCEPT ![x.conn] = AfterProbe(@, outcome)]
               ELSE conn
    /\ cancels' = [cancels EXCEPT ![s] = NoConn]
    /\ UNCHANGED <<lsn, replayed, seen, direct, written>>

\* UpstreamGuard::drop, clean: the connection is another session's to take.
GuardDrops(s) ==
    /\ ses[s].pc = "returning"
    /\ ses' = [ses EXCEPT ![s] = [@ EXCEPT !.pc = "idle", !.conn = NoConn]]
    /\ conn' = [conn EXCEPT ![ses[s].conn].by = "idle"]
    /\ UNCHANGED <<cancels, lsn, replayed, seen, direct, written>>

\* The session ends: the client left, a drain or a shed told it to, or its
\* acquire or its replay was refused.  Its guard is dropped unclean.  Then
\* the registration takes it off the cancel registry.
Ends(s) ==
    /\ ses[s].pc \in {"idle", "acquiring", "sent"}
    /\ ses' = [ses EXCEPT ![s] = [NewSession EXCEPT !.pc = "gone"]]
    /\ conn' = IF ses[s].conn = NoConn THEN conn
               ELSE [conn EXCEPT ![ses[s].conn] = Closed]
    /\ cancels' = [cancels EXCEPT ![s] = NoConn]
    /\ direct' = [direct EXCEPT ![s] = Closed]
    /\ written' = [written EXCEPT ![s] = 0]
    /\ UNCHANGED <<lsn, replayed, seen>>

\* A server says something to a connection nobody is using, or closes it.
ServerSpeaks(c) ==
    /\ conn[c].by = "idle" /\ conn[c].unread = "no"
    /\ conn' = [conn EXCEPT ![c].unread = "socket"]
    /\ UNCHANGED <<ses, cancels, lsn, replayed, seen, direct, written>>

\* The reaper retires an idle connection.
Reap(c) ==
    /\ conn[c].by = "idle"
    /\ conn' = [conn EXCEPT ![c] = Closed]
    /\ UNCHANGED <<ses, cancels, lsn, replayed, seen, direct, written>>

\* A replica replays one more record of the primary's WAL.
Replay(r) ==
    /\ replayed[r] < lsn
    /\ replayed' = [replayed EXCEPT ![r] = @ + 1]
    /\ UNCHANGED <<ses, conn, cancels, lsn, seen, direct, written>>

\* ReplicaWatch::record of a probe that answered.
Poll(r) ==
    /\ seen[r] # replayed[r]
    /\ seen' = [seen EXCEPT ![r] = replayed[r]]
    /\ UNCHANGED <<ses, conn, cancels, lsn, replayed, direct, written>>

\* Of one that failed, or a reading past its freshness, or a promotion.
PollFails(r) ==
    /\ seen[r] # Unheard
    /\ seen' = [seen EXCEPT ![r] = Unheard]
    /\ UNCHANGED <<ses, conn, cancels, lsn, replayed, direct, written>>

ProbeResults == {"unasked", "position", "unknown", "lost",
                 "refused, rest in socket", "refused, rest read"}

Next ==
    \/ \E s \in Sessions :
         \/ \E f \in ClientFrames(s) : ClientSends(s, f)
         \/ ClientHints(s)
         \/ \E c \in Conns : AcquireIdle(s, c) \/ AcquireNew(s, c)
                               \/ DiscardUnfit(s, c)
         \/ \E ok \in BOOLEAN : ServerAnswers(s, ok)
         \/ \E outcome \in ProbeResults : Release(s, outcome)
         \/ GuardDrops(s)
         \/ Ends(s)
    \/ \E c \in Conns : ServerSpeaks(c) \/ Reap(c)
    \/ \E r \in Replicas : Replay(r) \/ Poll(r) \/ PollFails(r)

Spec == Init /\ [][Next]_vars

(***************************************************************************)
(* Properties.                                                             *)
(***************************************************************************)

Backends ==
    [by : Sessions \union {"idle", "closed"}, to : Targets \union {NoTarget},
     tx : {"I", "T", "R", "E"}, dirty : BOOLEAN,
     param : Vals \union {Default}, saved : Vals \union {Default},
     bound : SUBSET Sessions, unread : {"no", "socket", "buffer"},
     todo : AllStatements]

Frames ==
    [kind : {"none", "Query", "Parse", "Execute", "Sync"}, sql : AllStatements]

SessionRecords ==
    [pc : {"idle", "acquiring", "sent", "releasing", "returning", "gone"},
     frame : Frames, tx : {"I", "T", "E"}, inSequence : BOOLEAN,
     pinned : BOOLEAN, hint : {"auto", "replica"},
     fixed : Targets \union {NoTarget}, readOnly : BOOLEAN, wrote : BOOLEAN,
     watermark : 0 .. MaxLsn, held : Targets \union {NoTarget},
     target : Targets \union {NoTarget}, conn : Conns \union {NoConn},
     params : Vals \union {Default}, parsed : AllStatements]

\* The one type invariant: the session record as Live, Relay and the router
\* keep it between them, and the backends as the servers keep them.
RelayTypeOK ==
    /\ ses \in [Sessions -> SessionRecords]
    /\ conn \in [Conns -> Backends]
    /\ cancels \in [Sessions -> Conns \union {NoConn}]
    /\ lsn \in 0 .. MaxLsn
    /\ replayed \in [Replicas -> 0 .. MaxLsn]
    /\ seen \in [Replicas -> -1 .. MaxLsn]
    /\ direct \in [Sessions -> Backends]
    /\ written \in [Sessions -> 0 .. MaxLsn]

\* The session's statement is on a server and its answer is being read.
Serving(s) == ses[s].pc = "sent"

\* Whenever a session's statement runs, the transaction around it is the one
\* the client opened: a transaction is never split over two connections by
\* the router, never lost with a connection given back too early, and never
\* inherited from the session that had the connection before.
TransactionStaysWhole ==
    \A s \in Sessions :
        Serving(s) => conn[ses[s].conn].tx = direct[s].tx

\* A connection in the pool is nobody's: no open transaction, no statement
\* still to run, no session-bound state (temp tables, LISTEN, unreplayable
\* settings) of a session that used it, whatever made the session let go.
PoolHoldsNoState ==
    \A c \in Conns :
        conn[c].by = "idle" =>
            conn[c].tx = "I" /\ conn[c].todo = None /\ conn[c].bound = {}

\* A pinned session's bound state is where its statements run, for as long
\* as the session lives, and it never meets another session's.
BoundStateStaysPut ==
    \A s \in Sessions :
        Serving(s) => conn[ses[s].conn].bound = direct[s].bound

\* What replica.rs promises: a replica serves a session only once it has
\* replayed at least as far as the session's last committed write, whatever
\* became of the probe that was to learn its position.
ReadYourWrites ==
    \A s \in Sessions :
        Serving(s) /\ ses[s].held \in Replicas
            => replayed[ses[s].held] >= written[s]

Setting(q) == q.op \in {"set", "reset"}

\* A value a session has SET is in force on every connection its statements
\* run on, however many other sessions used that connection in between.  (A
\* SET or RESET being sent is already recorded, so the replay may be ahead.)
SettingsFollowTheSession ==
    \A s \in Sessions :
        LET cn == conn[ses[s].conn] IN
        Serving(s) /\ direct[s].param # Default /\ ~Setting(cn.todo)
            => cn.param = direct[s].param

\* What resume.rs and params.rs promise beyond that: a parameter the session
\* never mentioned has the server's default, not the previous user's value.
SettingsAreTheSessionsOwn ==
    \A s \in Sessions :
        Serving(s) /\ ses[s].params = Default
            => conn[ses[s].conn].param = Default

\* The first bytes a session reads from a connection answer its own frame:
\* nothing said to, or left unread by, an earlier user is still in it.
AnswersAreTheirOwn ==
    \A s \in Sessions : Serving(s) => conn[ses[s].conn].unread = "no"

\* The cancel registry never names a connection its session does not hold:
\* not one in the pool, not one another session has since been given.
CancelsNameTheHolder ==
    \A s \in Sessions :
        cancels[s] # NoConn => conn[cancels[s]].by = s
=============================================================================
