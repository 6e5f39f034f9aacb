--------------------------- MODULE ExtendedQuery ---------------------------
(***************************************************************************)
(* The extended query protocol through the proxy: client statement names   *)
(* mapped onto one name per SQL text, statements prepared again on         *)
(* whichever connection the session borrows, replies to frames the proxy   *)
(* put on the wire itself kept from the client, and whole sequences        *)
(* withheld so that the query cache can answer them.                       *)
(*                                                                         *)
(* The yardstick is `direct`: the same frames sent by the same client to a *)
(* server of its own.  `due` is what that server has answered and the      *)
(* client has not read yet, `extra` what the client read that was not due. *)
(***************************************************************************)
EXTENDS Naturals, Sequences, FiniteSets, SequencesExt

CONSTANTS
    Sessions,      \* client sessions
    Conns,         \* pooled upstream connections, every session may borrow
    Names,         \* statement names clients use, Unnamed among them
    Sqls,          \* SQL texts
    Cacheable,     \* those the cacheability rule accepts
    Discards,      \* those that deallocate everything (DISCARD ALL)
    Scripts,       \* what a client may send up to one ReadyForQuery
    FailAt,        \* frames the server may answer with an error
    Cap            \* per_connection_cap

Unnamed == ""
NoSql   == "-"
NoConn  == "none"

ASSUME ExtendedAssumption ==
    /\ Unnamed \in Names /\ NoSql \notin Sqls
    /\ Cacheable \subseteq Sqls /\ Discards \subseteq Sqls \ Cacheable
    /\ Cap \in Nat /\ NoConn \notin Conns

\* Client frames.
Parse(n, q)   == [t |-> "Parse", name |-> n, sql |-> q]
Bind(n)       == [t |-> "Bind", name |-> n, sql |-> NoSql]
DescribeS(n)  == [t |-> "DescribeS", name |-> n, sql |-> NoSql]
DescribeP     == [t |-> "DescribeP", name |-> Unnamed, sql |-> NoSql]
Execute       == [t |-> "Execute", name |-> Unnamed, sql |-> NoSql]
Close(n)      == [t |-> "Close", name |-> n, sql |-> NoSql]
Flush         == [t |-> "Flush", name |-> Unnamed, sql |-> NoSql]
Sync          == [t |-> "Sync", name |-> Unnamed, sql |-> NoSql]
Query(q)      == [t |-> "Query", name |-> Unnamed, sql |-> q]

\* Replies, named by their tag, and the statement they answer for.
Reply(tag, q) == [tag |-> tag, sql |-> q]
Done(tag)     == Reply(tag, NoSql)

VARIABLES
    session,   \* what the proxy keeps for a client: names, Live, Pumping
    conn,      \* an upstream connection: the proxy's record and the server
    entry,     \* the cached payload of each read, if any
    client     \* a client: what it has still to send, and due / extra

vars == <<session, conn, entry, client>>

----------------------------------------------------------------------------
\* Postgres, as the code in src/ drives it.  A server maps statement names
\* to SQL, has one portal, and after an error skips to the next Sync.

NoStatements(names) == [stmts |-> [n \in names |-> NoSql], portal |-> NoSql, skip |-> FALSE]

Failed(srv) == [srv |-> [srv EXCEPT !.skip = TRUE], out |-> <<Done("Error")>>]

Answered(srv, out) == [srv |-> srv, out |-> out]

\* One frame at one server; `ok` is whether the server can do what it asks.
Serve(srv, f, ok) ==
    LET named == IF f.name \in DOMAIN srv.stmts THEN srv.stmts[f.name] ELSE NoSql
    IN  CASE f.t = "Sync"  -> Answered([srv EXCEPT !.skip = FALSE, !.portal = NoSql],
                                       <<Done("Ready")>>)
          [] f.t = "Flush" \/ srv.skip -> Answered(srv, <<>>)
          [] f.t = "Query" ->
                Answered([srv EXCEPT !.portal = NoSql,
                              !.stmts = IF ok /\ f.sql \in Discards
                                        THEN [n \in DOMAIN srv.stmts |-> NoSql]
                                        ELSE [srv.stmts EXCEPT ![Unnamed] = NoSql]],
                         IF ok THEN <<Reply("Describe", f.sql), Reply("Rows", f.sql), Done("Ready")>>
                               ELSE <<Done("Error"), Done("Ready")>>)
          [] f.t = "Close" -> Answered([srv EXCEPT !.stmts[f.name] = NoSql], <<Done("CloseComplete")>>)
          [] ~ok -> Failed(srv)
          [] f.t = "Parse" ->
                IF f.name # Unnamed /\ named # NoSql
                THEN Failed(srv)
                ELSE Answered([srv EXCEPT !.stmts[f.name] = f.sql], <<Done("ParseComplete")>>)
          [] f.t \in {"Bind", "DescribeS"} /\ named = NoSql -> Failed(srv)
          [] f.t = "Bind" -> Answered([srv EXCEPT !.portal = named], <<Done("BindComplete")>>)
          [] f.t = "DescribeS" -> Answered(srv, <<Reply("Describe", named)>>)
          [] srv.portal = NoSql -> Failed(srv)
          [] f.t = "DescribeP" -> Answered(srv, <<Reply("Describe", srv.portal)>>)
          [] f.t = "Execute" ->
                Answered([srv EXCEPT !.stmts = IF srv.portal \in Discards
                                               THEN [n \in DOMAIN srv.stmts |-> NoSql]
                                               ELSE srv.stmts],
                         <<Reply("Rows", srv.portal)>>)

\* Several frames, none of which fails.
ServeAll(srv, frames) ==
    FoldLeft(LAMBDA acc, f : LET r == Serve(acc.srv, f, TRUE)
                             IN  Answered(r.srv, acc.out \o r.out),
             Answered(srv, <<>>), frames)

\* A client: its own server has answered, and it reads replies.
Asks(cl, own) == [cl EXCEPT !.direct = own.srv, !.due = @ \o own.out]

ReadsOne(cl, r) ==
    IF cl.extra = <<>> /\ cl.due # <<>> /\ Head(cl.due) = r
    THEN [cl EXCEPT !.due = Tail(@)] ELSE [cl EXCEPT !.extra = Append(@, r)]

Reads(cl, replies) == FoldLeft(ReadsOne, cl, replies)

----------------------------------------------------------------------------
\* pgprox-pool's statement maps.  A connection's record is the SQL texts it
\* believes the server holds, least recently touched first: a global name is
\* a hash of its SQL, so the SQL stands for it.

\* SessionStatements::parse, and what `observe` does with every frame.
MapName(names, f) == IF f.t = "Parse" THEN [names EXCEPT ![f.name] = f.sql] ELSE names

\* A frame under the name it has upstream.
Rewritten(names, f) ==
    IF f.t \in {"Parse", "Bind", "DescribeS", "Close"} /\ f.name # Unnamed
    THEN [f EXCEPT !.name = names[f.name]] ELSE f

\* prepare_for: what is evicted to hold one more, and what is held after.
Evicted(held) ==
    IF Len(held) + 1 > Cap THEN SubSeq(held, 1, Len(held) + 1 - Cap) ELSE <<>>

Holding(held, sql) ==
    LET kept == SubSeq(held, Len(Evicted(held)) + 1, Len(held))
    IN  IF Cap > 0 THEN Append(kept, sql) ELSE held

Forget(held, sql) == SelectSeq(held, LAMBDA q : q # sql)

----------------------------------------------------------------------------
\* flush.rs: what the server still owes, in order.

Owes == {"Parse", "Bind", "DescribeS", "DescribeP", "Execute", "Close"}

\* Mutant: the answer to a Describe is not counted.
DischargesWithoutDescribe == [Parse     |-> {"ParseComplete"},
                              Bind      |-> {"BindComplete"},
                              DescribeS |-> {},
                              DescribeP |-> {},
                              Execute   |-> {"Rows"},
                              Close     |-> {"CloseComplete"}]

Discharges == [Parse     |-> {"ParseComplete"},
               Bind      |-> {"BindComplete"},
               DescribeS |-> {"Describe"},
               DescribeP |-> {"Describe"},
               Execute   |-> {"Rows"},
               Close     |-> {"CloseComplete"}]

Sent(owed, f) == IF f.t \in Owes THEN Append(owed, f.t) ELSE owed

\* Mutant: an error leaves the queue as it was.
ReceivedInOrder(owed, tag) ==
    IF owed # <<>> /\ tag \in Discharges[Head(owed)] THEN Tail(owed) ELSE owed

Received(owed, tag) ==
    CASE tag \in {"Error", "Ready"} -> <<>>
      [] owed # <<>> /\ tag \in Discharges[Head(owed)] -> Tail(owed)
      [] OTHER -> owed

----------------------------------------------------------------------------
\* send_upstream: bookkeeping, the frames the proxy adds, the frame itself.

\* Mutant: a Close is passed on and not noted.
ObservedIgnoringClose(s, c, f) ==
    IF f.t \in {"Query", "Parse"} /\ f.sql \in Discards
    THEN [names |-> [n \in Names |-> NoSql], held |-> <<>>, unnamed |-> NoSql]
    ELSE [names |-> session[s].names, held |-> conn[c].held, unnamed |-> conn[c].unnamed]

\* observe_statement and on_close.
Observed(s, c, f) ==
    IF f.t \in {"Query", "Parse"} /\ f.sql \in Discards
    THEN [names |-> [n \in Names |-> NoSql], held |-> <<>>, unnamed |-> NoSql]
    ELSE IF f.t = "Close" /\ session[s].names[f.name] # NoSql
    THEN [names   |-> [session[s].names EXCEPT ![f.name] = NoSql],
          held    |-> Forget(conn[c].held, session[s].names[f.name]),
          unnamed |-> conn[c].unnamed]
    ELSE [names |-> session[s].names, held |-> conn[c].held, unnamed |-> conn[c].unnamed]

\* Mutant: an unnamed statement is taken to be where it was prepared.
ReadyTrustingUnnamed(obs, f) ==
    LET sql     == IF f.t \in {"Parse", "Bind"} THEN obs.names[f.name] ELSE NoSql
        closing == [i \in 1..Len(Evicted(obs.held)) |-> Close(Evicted(obs.held)[i])]
        nothing == [add |-> <<>>, already |-> FALSE, held |-> obs.held, unnamed |-> obs.unnamed]
    IN  CASE sql = NoSql \/ f.name = Unnamed -> nothing
          [] sql # NoSql /\ f.name # Unnamed /\ Contains(obs.held, sql) ->
                [nothing EXCEPT !.already = (f.t = "Parse")]
          [] OTHER ->
                [nothing EXCEPT
                    !.held = Holding(obs.held, sql),
                    !.add = IF f.t = "Parse" THEN closing ELSE Append(closing, Parse(sql, sql))]

\* ready_statement, given the maps as Observed leaves them: the frames added
\* before the client's, how many completions to keep from it, whether its
\* Parse needs no sending at all, and the connection's record afterwards.
Ready(obs, f) ==
    LET sql     == IF f.t \in {"Parse", "Bind"} THEN obs.names[f.name] ELSE NoSql
        isHeld  == Contains(obs.held, sql)
        closing == [i \in 1..Len(Evicted(obs.held)) |-> Close(Evicted(obs.held)[i])]
        nothing == [add |-> <<>>, already |-> FALSE, held |-> obs.held, unnamed |-> obs.unnamed]
    IN  CASE sql = NoSql -> nothing
          [] sql # NoSql /\ f.name = Unnamed ->
                [nothing EXCEPT
                    !.unnamed = sql,
                    !.add = IF f.t = "Parse" \/ obs.unnamed = sql THEN <<>>
                            ELSE <<Parse(Unnamed, sql)>>]
          [] sql # NoSql /\ f.name # Unnamed /\ isHeld ->
                [nothing EXCEPT !.already = (f.t = "Parse")]
          [] OTHER ->
                [nothing EXCEPT
                    !.held = Holding(obs.held, sql),
                    !.add = IF f.t = "Parse" THEN closing ELSE Append(closing, Parse(sql, sql))]

\* The client's frame f, named upstream as g, goes out on c; ok is how the
\* server takes it.  The same frame at the client's own server is `direct`.
SendUpstream(s, c, f, ok, rest) ==
    LET obs    == Observed(s, c, f)
        ready  == Ready(obs, f)
        added  == ServeAll(conn[c].srv, ready.add)
        served == Serve(added.srv, Rewritten(session[s].names, f), ok)
        own    == Serve(client[s].direct, f, ok)
    IN  /\ session' = [session EXCEPT
              ![s] = [rest EXCEPT
                 !.names   = obs.names,
                 !.conn    = c,
                 !.swallow = @ + Len(ready.add),
                 !.owed    = IF ready.already THEN @ ELSE Sent(@, f),
                 !.asked   = IF f.t \in Owes THEN "" ELSE f.t]]
        /\ conn' = [conn EXCEPT
              ![c].held    = ready.held,
              ![c].unnamed = ready.unnamed,
              ![c].user    = s,
              ![c].srv     = IF ready.already THEN @ ELSE served.srv,
              ![c].out     = IF ready.already THEN @ ELSE @ \o added.out \o served.out]
        /\ client' = [client EXCEPT ![s] =
              Reads(Asks(@, own), IF ready.already THEN <<Done("ParseComplete")>> ELSE <<>>)]

----------------------------------------------------------------------------
\* sequence.rs: a sequence the cache might answer is held until its Sync.

\* The statement a Parse or a Bind is about.
SqlOf(names, f) == CASE f.t = "Parse" -> f.sql
                     [] f.t = "Bind"  -> names[f.name]
                     [] OTHER         -> NoSql

HeldSql(names, held) == SqlOf(names, Head(held))

\* may_hold, on the frames held so far (the empty sequence is `begins`).
MayHold(s, names, f) ==
    LET held == session[s].sequence
        has(t) == \E i \in 1..Len(held) : held[i].t = t
    IN  IF held = <<>>
        THEN f.t \in {"Parse", "Bind"} /\ session[s].conn = NoConn /\ SqlOf(names, f) \in Cacheable
        ELSE /\ ~has("Execute")
             /\ \/ f.t = "Bind" /\ ~has("Bind") /\ names[f.name] = HeldSql(names, held)
                \/ f.t = "DescribeP" /\ has("Bind") /\ ~has("DescribeP")
                \/ f.t = "Execute" /\ has("Bind")

Complete(held, f) == f.t = "Sync" /\ \E i \in 1..Len(held) : held[i].t = "Execute"

\* assemble: a payload recorded without a row description cannot answer a
\* client that asked for one, and a simple query always asks.
Answers(payload, frames) ==
    /\ payload # "absent"
    /\ (\E i \in 1..Len(frames) : frames[i].t \in {"DescribeP", "Query"}) => payload = "described"

Assembled(sql, frames) ==
    FoldLeft(LAMBDA out, f :
                out \o CASE f.t = "Parse"     -> <<Done("ParseComplete")>>
                         [] f.t = "Bind"      -> <<Done("BindComplete")>>
                         [] f.t = "DescribeP" -> <<Reply("Describe", sql)>>
                         [] f.t = "Execute"   -> <<Reply("Rows", sql)>>
                         [] f.t = "Query"     -> <<Reply("Describe", sql), Reply("Rows", sql)>>,
             <<>>, frames) \o <<Done("Ready")>>

----------------------------------------------------------------------------
NoRecording == [sql |-> NoSql, described |-> FALSE, rows |-> FALSE, failed |-> FALSE]

Init ==
    /\ session = [s \in Sessions |->
          [names |-> [n \in Names |-> NoSql], conn |-> NoConn, sequence |-> <<>>,
           replay |-> <<>>, swallow |-> 0, owed |-> <<>>, asked |-> "", recording |-> NoRecording]]
    /\ conn = [c \in Conns |->
          [held |-> <<>>, unnamed |-> NoSql, user |-> NoConn, out |-> <<>>,
           srv |-> NoStatements({Unnamed} \cup Sqls)]]
    /\ entry = [q \in Cacheable |-> "absent"]
    /\ client = [s \in Sessions |->
          [script |-> <<>>, due |-> <<>>, extra |-> <<>>, direct |-> NoStatements(Names)]]

Idle(s) == client[s].script = <<>> /\ session[s].asked = "" /\ session[s].replay = <<>>

\* A client between two ReadyForQuery starts something else.
ClientStarts(s) ==
    /\ Idle(s)
    /\ \E script \in Scripts :
          /\ \A i \in 1..Len(script) :
                script[i].t = "Parse" => script[i].name = Unnamed \/ client[s].direct.stmts[script[i].name] = NoSql
          /\ \A i \in 1..Len(script) :
                script[i].t \in {"Bind", "DescribeS", "Close"} =>
                    \/ client[s].direct.stmts[script[i].name] # NoSql
                    \/ \E j \in 1..(i-1) : script[j] \in {Parse(script[i].name, q) : q \in Sqls}
          /\ client' = [client EXCEPT ![s].script = script]
    /\ UNCHANGED <<session, conn, entry>>

\* invalidate_on_write, before anything is withheld or sent.
Invalidated(names, f) ==
    LET sql == IF f.t = "Query" THEN f.sql ELSE SqlOf(names, f)
    IN  IF sql \notin Cacheable /\ sql # NoSql THEN [q \in Cacheable |-> "absent"] ELSE entry

\* The relay loop reads one frame: cached() first.  Three ways it ends there
\* (withheld, answered whole, answered as a simple query)...
Withhold(s, f, names) ==
    /\ MayHold(s, names, f)
    /\ session' = [session EXCEPT ![s].names = names, ![s].sequence = Append(@, f),
                                  ![s].recording = NoRecording]
    /\ client' = [client EXCEPT ![s].script = Tail(@)]
    /\ conn' = conn

HitFrames(s, f) == IF f.t = "Query" THEN <<f>> ELSE session[s].sequence

HitSql(s, f, names) ==
    CASE f.t = "Query" -> f.sql
      [] Complete(session[s].sequence, f) -> HeldSql(names, session[s].sequence)
      [] OTHER -> NoSql

CacheHit(s, f, names) ==
    LET sql    == HitSql(s, f, names)
        frames == HitFrames(s, f)
        own    == ServeAll(client[s].direct, IF f.t = "Query" THEN <<f>> ELSE Append(frames, f))
    IN  /\ sql \in Cacheable
        /\ Answers(entry[sql], frames)
        /\ session' = [session EXCEPT ![s].names = names, ![s].recording = NoRecording,
                          ![s].sequence = IF f.t = "Query" THEN @ ELSE <<>>]
        /\ client' = [client EXCEPT ![s] = Reads(Asks([@ EXCEPT !.script = Tail(@)], own),
                                                 Assembled(sql, frames))]
        /\ conn' = conn

\* ... and one way it goes on: the held frames are replayed, then this one.
\* A miss arms the recording under the key that missed.
GoesUpstream(s, f, names) ==
    LET sql == HitSql(s, f, names)
    IN  /\ ~MayHold(s, names, f)
        /\ sql \in Cacheable => ~Answers(entry[sql], HitFrames(s, f))
        /\ session' = [session EXCEPT
              ![s].names = names, ![s].sequence = <<>>,
              ![s].replay = Append(session[s].sequence, f),
              ![s].recording = IF sql \in Cacheable /\ (f.t = "Query" \/ entry[sql] = "absent")
                               THEN [NoRecording EXCEPT !.sql = sql] ELSE NoRecording]
        /\ client' = [client EXCEPT ![s].script = Tail(@)]
        /\ conn' = conn

ReadFrame(s) ==
    /\ client[s].script # <<>>
    /\ session[s].asked = "" /\ session[s].replay = <<>>
    /\ LET f     == Head(client[s].script)
           names == MapName(session[s].names, f)
       IN  /\ entry' = Invalidated(names, f)
           /\ \/ Withhold(s, f, names)
              \/ CacheHit(s, f, names)
              \/ GoesUpstream(s, f, names)

\* replay_held, then the frame itself: each borrows a connection if the
\* session has none, and goes out by send_upstream.
SendNext(s) ==
    /\ session[s].replay # <<>>
    /\ LET f    == Head(session[s].replay)
           rest == [session[s] EXCEPT !.replay = Tail(@)]
       IN  \E c \in Conns, ok \in IF f.t \in FailAt THEN BOOLEAN ELSE {TRUE} :
              /\ IF session[s].conn = NoConn THEN conn[c].user = NoConn ELSE c = session[s].conn
              /\ SendUpstream(s, c, f, ok, rest)
    /\ entry' = entry

----------------------------------------------------------------------------
\* pump: one reply read off the connection.

Streams(s, tag) ==
    /\ session[s].recording = NoRecording
    /\ tag \in {"ParseComplete", "BindComplete", "CloseComplete", "Describe"}

Recorded(rec, r) ==
    CASE rec = NoRecording     -> rec
      [] r.tag = "Describe"    -> [rec EXCEPT !.described = TRUE]
      [] r.tag = "Rows"        -> [rec EXCEPT !.rows = TRUE]
      [] r.tag = "Error"       -> [rec EXCEPT !.failed = TRUE]
      [] OTHER                 -> rec

StoredAnswer(rec) ==
    IF rec.sql # NoSql /\ rec.rows /\ ~rec.failed
    THEN [entry EXCEPT ![rec.sql] = IF rec.described THEN "described" ELSE "plain"]
    ELSE entry

Pump(s) ==
    LET c         == session[s].conn
        r         == Head(conn[c].out)
        swallowed == r.tag \in {"ParseComplete", "CloseComplete"} /\ session[s].swallow > 0
        owed      == IF swallowed /\ ~Streams(s, r.tag) THEN session[s].owed
                     ELSE Received(session[s].owed, r.tag)
        rec       == IF swallowed THEN session[s].recording ELSE Recorded(session[s].recording, r)
        ready     == r.tag = "Ready" /\ ~swallowed
        returns   == ready \/ (session[s].asked = "Flush" /\ owed = <<>>
                               /\ (swallowed => Streams(s, r.tag)))
    IN  /\ session[s].asked # ""
        /\ ~(session[s].asked = "Flush" /\ session[s].owed = <<>>)
        /\ conn[c].out # <<>>
        /\ session' = [session EXCEPT
              ![s].swallow   = IF swallowed THEN @ - 1 ELSE @,
              ![s].owed      = owed,
              ![s].recording = IF returns THEN NoRecording ELSE rec,
              ![s].asked     = IF returns THEN "" ELSE @,
              ![s].conn      = IF ready THEN NoConn ELSE @]
        /\ conn' = [conn EXCEPT ![c].out = Tail(@), ![c].user = IF ready THEN NoConn ELSE @]
        /\ client' = [client EXCEPT ![s] = Reads(@, IF swallowed THEN <<>> ELSE <<r>>)]
        /\ entry' = IF returns THEN StoredAnswer(rec) ELSE entry

\* A Flush with nothing owed is answered by nothing.
FlushSettled(s) ==
    /\ session[s].asked = "Flush" /\ session[s].owed = <<>>
    /\ session' = [session EXCEPT ![s].asked = ""]
    /\ UNCHANGED <<conn, entry, client>>

\* An entry's time to live runs out.
Expire(q) ==
    /\ entry[q] # "absent"
    /\ entry' = [entry EXCEPT ![q] = "absent"]
    /\ UNCHANGED <<session, conn, client>>

Next ==
    \/ \E s \in Sessions : ClientStarts(s) \/ ReadFrame(s) \/ SendNext(s) \/ Pump(s) \/ FlushSettled(s)
    \/ \E q \in Cacheable : Expire(q)

Spec == Init /\ [][Next]_vars

----------------------------------------------------------------------------
\* A client cannot tell the proxy from a server of its own: what it reads is
\* what that server would have sent, in order, and all of it by the time the
\* client may speak again.
RepliesInStep ==
    \A s \in Sessions :
        /\ client[s].extra = <<>>
        /\ Idle(s) => client[s].due = <<>>

\* A connection's record is the server's prepared statement set, however many
\* sessions prepare on it never more than the cap of them, and a noted unnamed
\* statement is the one the server has.
RecordMatchesServer ==
    \A c \in Conns :
        /\ \A q \in Sqls : Contains(conn[c].held, q) <=> conn[c].srv.stmts[q] # NoSql
        /\ Cardinality({q \in Sqls : conn[c].srv.stmts[q] # NoSql}) <= Cap
        /\ conn[c].unnamed # NoSql => conn[c].srv.stmts[Unnamed] = conn[c].unnamed

\* Nothing of one exchange is left for the next: no unread reply on a
\* connection that went back, no completion still to be kept from the client.
NothingLeftOver ==
    /\ \A c \in Conns : conn[c].user = NoConn => conn[c].out = <<>>
    /\ \A s \in Sessions :
          Idle(s) => session[s].swallow = 0 /\ session[s].owed = <<>> /\ session[s].sequence = <<>>

\* A session never waits for a reply the server has no reason to send.
PumpIsFed ==
    \A s \in Sessions :
        session[s].asked # "" =>
            \/ conn[session[s].conn].out # <<>>
            \/ session[s].asked = "Flush" /\ session[s].owed = <<>>
=============================================================================
