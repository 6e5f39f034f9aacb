------------------------ MODULE SessionClientProofs ------------------------
(***************************************************************************)
(* What SessionRelay promises a client: its transaction, its bound state   *)
(* and its settings stay with it, it reads its own writes, and the answers *)
(* it gets are those to its own statements.                                *)
(***************************************************************************)
EXTENDS SessionRelayProofs

\* First-order leaves go to Zenon, the others to the SMT solver.
USE ZenonT(3), SMTT(20)

-----------------------------------------------------------------------------
(* Transactions and bound state.                                           *)

\* Clients whose transactions the proxy can follow: they SET and pin outside
\* transactions, begin them with a leading BEGIN or START, and a client of
\* the extended protocol asks for no replica.
PlainTransactions ==
    /\ SettingsOutsideTransactions
    /\ \A s \in Sessions :
         /\ \A q \in SentBy(s) : q.op # "late_begin"
         /\ Parsed[s] # {} => /\ Op("route_replica") \notin Queried[s]
                              /\ \A q \in SentBy(s) : q.op # "begin_ro"

\* Session x, on the connections cs, is where its client's own backend d is.
Follows(x, cs, d) ==
    /\ x.tx = Status(d)
    /\ x.conn = NoConn \/ x.pc \in {"acquiring", "releasing", "returning"}
         => d.tx = "I" /\ d.bound = {}
    /\ x.conn # NoConn => cs[x.conn].tx = d.tx /\ cs[x.conn].bound = d.bound

\* A transaction open or about to be is fixed where the session is going,
\* bound state is on the primary, and what is pending has been taken note of.
Routed(s, x, cs, d) ==
    /\ x.fixed # NoTarget =>
         /\ x.fixed = Going(x)
         /\ d.tx # "I" \/ \E q \in Pending(x, cs) : BeginsTransaction(q)
    /\ d.tx # "I" => x.fixed # NoTarget
    /\ d.bound # {} => x.pinned /\ x.held = Primary
    /\ \A q \in Pending(x, cs) :
         /\ q.op # "late_begin"
         /\ BeginsTransaction(q) => x.fixed # NoTarget
         /\ Pins(q) => x.pinned /\ Going(x) = Primary
    /\ Parsed[s] # {} => x.hint = "auto" /\ ~x.readOnly /\ x.fixed \notin Replicas

\* The proxy tracks session s.
Tracks(s, x, cs, d) ==
    Follows(x, cs, d) /\ InStep(s, x, cs) /\ Routed(s, x, cs, d)

\* The inductive invariant: it tracks every session.
TrackInv == \A s \in Sessions : Tracks(s, ses[s], conn, direct[s])

\* What is pending for a session nobody touched.
LEMMA ApartPending ==
    ASSUME NEW t \in Sessions, Apart(t)
    PROVE  /\ InHand(ses'[t], conn') = InHand(ses[t], conn)
           /\ Pending(ses'[t], conn') = Pending(ses[t], conn)
<1>1. InHand(ses'[t], conn') = InHand(ses[t], conn)
  BY DEF Apart, InHand
<1>. QED  BY <1>1 DEF Apart, Pending

\* A session nobody touched is still tracked.
LEMMA ApartTracks ==
    ASSUME NEW t \in Sessions, Apart(t), Tracks(t, ses[t], conn, direct[t])
    PROVE  Tracks(t, ses'[t], conn', direct'[t])
<1>1. /\ InHand(ses'[t], conn') = InHand(ses[t], conn)
      /\ Pending(ses'[t], conn') = Pending(ses[t], conn)
      /\ ses'[t] = ses[t] /\ direct'[t] = direct[t]
      /\ ses[t].conn # NoConn => conn'[ses[t].conn] = conn[ses[t].conn]
  BY ApartPending DEF Apart
<1>2. Follows(ses'[t], conn', direct'[t])
  BY <1>1 DEF Tracks, Follows
<1>3. InStep(t, ses'[t], conn')
  BY <1>1 DEF Tracks, InStep
<1>4. Routed(t, ses'[t], conn', direct'[t])
  BY <1>1 DEF Tracks, Routed
<1>. QED  BY <1>2, <1>3, <1>4 DEF Tracks

\* The statement that is none.
LEMMA NoneIsNothing ==
    /\ None.op = "none" /\ ~BeginsTransaction(None) /\ ~Pins(None)
    /\ ~Setting(None) /\ None \in AllStatements
  BY DEF None, Op, BeginsTransaction, Pins, Setting, AllStatements

\* A frame goes where the transaction or the bound state is.
LEMMA SendTracks ==
    ASSUME RelayInv, PlainTransactions, NEW s \in Sessions,
           Tracks(s, ses[s], conn, direct[s]),
           NEW f \in Frames, NEW a, SendEffect(s, f, a)
    PROVE  Tracks(s, ses'[s], conn', direct'[s])
<1>. DEFINE x == ses[s]
            z == ses'[s]
            d == direct[s]
            q == f.sql
<1>1. Follows(x, conn, d) /\ InStep(s, x, conn) /\ Routed(s, x, conn, d)
  BY DEF Tracks
<1>2. /\ x \in SessionRecords /\ d \in Backends
      /\ x.fixed \in Targets \union {NoTarget}
      /\ NoTarget \notin Targets
  BY HeldFacts, RelayAssumption, SMT DEF SessionRecords, Targets, Primary, NoTarget
<1>3. /\ x.pc = "idle" /\ Wellbehaved(s, f)
      /\ a \in SessionRecords /\ a.target \in Targets /\ Keeps(x, a)
      /\ \/ /\ f.kind \in {"Query", "Parse"} /\ Decided(x, f.sql, a)
            /\ x.parsed = None /\ Pending(x, conn) = {None}
            /\ f.sql \in SentBy(s)
         \/ /\ f.kind \in {"Execute", "Sync"} /\ PassedOn(x, a)
            /\ x.parsed # None /\ Pending(x, conn) = {None, x.parsed}
            /\ f.sql \in {None, x.parsed}
      /\ SameAim(a, z) /\ Going(z) = a.target
      /\ z.pc \in {"idle", "sent"} => z.conn # NoConn /\ a.held = a.target
      /\ z.pc \in {"idle", "sent", "acquiring"}
      /\ z.pc = "acquiring" => a.held # a.target
      /\ Pending(z, conn') = {None, x.parsed, f.sql}
      /\ InStep(s, z, conn')
      /\ x.conn # NoConn => SameServer(conn[x.conn], conn'[x.conn])
      /\ direct' = direct
  BY DEF SendEffect
<1>4. Going(x) = x.held
  BY <1>3 DEF Going
<1>. HIDE DEF x, z, d
<1>5. /\ SettingsOutsideTransactions
      /\ q \in SentBy(s) => q.op # "late_begin"
      /\ Parsed[s] # {} => (q \in SentBy(s) => q.op # "begin_ro")
  BY DEF PlainTransactions
<1>6. Pending(x, conn) = {None} /\ x.fixed # NoTarget => d.tx # "I"
  BY <1>1, NoneIsNothing DEF Routed
<1>7. x.parsed # None => Parsed[s] # {}
  BY <1>1 DEF InStep
<1>8. d.tx # "I" => a.target = x.held
  <2>1. CASE f.kind \in {"Query", "Parse"}
    BY <1>1, <1>3, <1>4, <2>1 DEF Routed, Decided
  <2>2. CASE f.kind \in {"Execute", "Sync"}
    BY <1>1, <1>2, <1>3, <1>4, <1>7, <2>2 DEF Routed, PassedOn, Targets
  <2>. QED  BY <1>3, <2>1, <2>2
<1>9. d.bound # {} => a.target = x.held /\ a.pinned
  <2>1. CASE f.kind \in {"Query", "Parse"}
    BY <1>1, <1>3, <1>4, <2>1 DEF Routed, Decided
  <2>2. CASE f.kind \in {"Execute", "Sync"}
    BY <1>1, <1>3, <2>2 DEF Routed, PassedOn
  <2>. QED  BY <1>3, <2>1, <2>2
<1>10. /\ z.tx = x.tx /\ z.conn = x.conn /\ z.held = x.held /\ a.held = x.held
       /\ z.hint = x.hint /\ z.fixed = a.fixed /\ z.pinned = a.pinned
       /\ z.readOnly = a.readOnly
  BY <1>3 DEF SameAim, Keeps
<1>11. Follows(z, conn', d)
  BY <1>1, <1>3, <1>8, <1>9, <1>10 DEF Follows, SameServer
<1>12. Routed(s, z, conn', d)
  <2>1. CASE f.kind \in {"Query", "Parse"}
    <3>1. /\ Decided(x, q, a) /\ x.parsed = None /\ Pending(x, conn) = {None}
          /\ q \in SentBy(s) /\ Pending(z, conn') = {None, q}
      BY <1>3, <2>1
    <3>2. a.fixed # NoTarget =>
            a.fixed = a.target /\ (d.tx # "I" \/ BeginsTransaction(q))
      <4>1. CASE x.fixed # NoTarget
        BY <1>6, <3>1, <4>1 DEF Decided
      <4>2. CASE x.fixed = NoTarget
        <5>1. x.tx = "T" => d.tx # "I"
          BY <1>1 DEF Follows, Status
        <5>. QED  BY <3>1, <4>2, <5>1 DEF Decided
      <4>. QED  BY <4>1, <4>2
    <3>3. d.tx # "I" => a.fixed # NoTarget
      BY <1>1, <3>1 DEF Routed, Decided
    <3>4. BeginsTransaction(q) => a.fixed # NoTarget
      BY <1>2, <1>3, <3>1 DEF Decided
    <3>5. Pins(q) => a.pinned /\ a.target = Primary
      <4>1. Pins(q) => d.tx = "I"
        BY <1>3, <1>5 DEF Wellbehaved, Pins, d
      <4>2. Pins(q) => x.fixed = NoTarget
        BY <1>6, <3>1, <4>1
      <4>. QED  BY <3>1, <4>2 DEF Decided
    <3>6. Parsed[s] # {} => x.hint = "auto" /\ ~a.readOnly /\ a.fixed \notin Replicas
      <4>. SUFFICES ASSUME Parsed[s] # {}
                    PROVE  x.hint = "auto" /\ ~a.readOnly /\ a.fixed \notin Replicas
        OBVIOUS
      <4>1. x.hint = "auto" /\ ~x.readOnly /\ x.fixed \notin Replicas
        BY <1>1 DEF Routed
      <4>2. q.op # "begin_ro"
        BY <1>5, <3>1
      <4>3. CASE x.fixed # NoTarget
        BY <3>1, <4>1, <4>3 DEF Decided
      <4>4. CASE x.fixed = NoTarget
        <5>1. ~a.readOnly
          BY <3>1, <4>1, <4>2, <4>4 DEF Decided
        <5>2. x.tx # "T"
          BY <1>1, <1>2, <4>4 DEF Follows, Status, Routed
        <5>3. BeginsTransaction(q) => a.target = Primary
          BY <3>1, <4>1, <4>4, <5>1 DEF Decided, BeginsTransaction
        <5>. QED  BY <3>1, <4>1, <4>4, <5>1, <5>2, <5>3, PrimaryIsNoReplica
                     DEF Decided
      <4>. QED  BY <4>3, <4>4
    <3>7. d.bound # {} => a.pinned /\ z.held = Primary
      BY <1>1, <1>9, <1>10 DEF Routed
    <3>8. q.op # "late_begin"
      BY <1>5, <3>1
    <3>. QED  BY <1>3, <1>10, <3>1, <3>2, <3>3, <3>4, <3>5, <3>6, <3>7, <3>8,
                 NoneIsNothing DEF Routed
  <2>2. CASE f.kind \in {"Execute", "Sync"}
    <3>1. /\ PassedOn(x, a) /\ x.parsed # None
          /\ Pending(x, conn) = {None, x.parsed}
          /\ Pending(z, conn') = {None, x.parsed}
      BY <1>3, <2>2
    <3>2. /\ a.fixed = x.fixed /\ a.pinned = x.pinned
          /\ a.readOnly = x.readOnly /\ a.target = Primary
      BY <3>1 DEF PassedOn
    <3>3. x.fixed # NoTarget => x.fixed = Primary
      BY <1>1, <1>2, <1>7, <3>1 DEF Routed, Targets
    <3>. QED  BY <1>1, <1>3, <1>10, <3>1, <3>2, <3>3 DEF Routed
  <2>. QED  BY <1>3, <2>1, <2>2
<1>. QED  BY <1>3, <1>11, <1>12 DEF Tracks, z, d

\* What resume leaves on a connection.
LEMMA ResumeFacts ==
    ASSUME NEW cn \in Backends, NEW s \in Sessions, NEW x \in SessionRecords,
           NEW r, r = Resume([cn EXCEPT !.by = s], x)
    PROVE  /\ r.to = cn.to /\ r.tx = cn.tx /\ r.dirty = cn.dirty
           /\ r.saved = cn.saved /\ r.bound = cn.bound /\ r.unread = cn.unread
           /\ r.param = IF x.params = Default THEN cn.param ELSE x.params
<1>. DEFINE mine == [cn EXCEPT !.by = s]
            param == IF x.params = Default THEN mine.param ELSE x.params
<1>1. /\ mine \in Backends
      /\ mine.to = cn.to /\ mine.tx = cn.tx /\ mine.dirty = cn.dirty
      /\ mine.saved = cn.saved /\ mine.bound = cn.bound
      /\ mine.unread = cn.unread /\ mine.param = cn.param
  BY DEF Backends
<1>2. r = [mine EXCEPT !.param = param]
  BY DEF Resume
<1>3. param = IF x.params = Default THEN cn.param ELSE x.params
  BY <1>1
<1>. HIDE DEF mine, param
<1>4. /\ r.to = mine.to /\ r.tx = mine.tx /\ r.dirty = mine.dirty
      /\ r.saved = mine.saved /\ r.bound = mine.bound
      /\ r.unread = mine.unread /\ r.param = param
  BY <1>1, <1>2 DEF Backends
<1>. QED  BY <1>1, <1>3, <1>4

\* A connection is installed only where nothing is left behind.
LEMMA InstallTracks ==
    ASSUME RelayInv, NEW s \in Sessions, Tracks(s, ses[s], conn, direct[s]),
           NEW c \in Conns, NEW cn \in Backends, InstallEffect(s, c, cn)
    PROVE  Tracks(s, ses'[s], conn', direct'[s])
<1>. DEFINE x == ses[s]
            z == ses'[s]
            d == direct[s]
            r == Resume([cn EXCEPT !.by = s], x)
            y == [x EXCEPT !.held = x.target, !.conn = c]
<1>1. Follows(x, conn, d) /\ Routed(s, x, conn, d) /\ x \in SessionRecords
  BY HeldFacts DEF Tracks
<1>2. /\ x.pc = "acquiring" /\ Clean(cn)
      /\ SameAim(y, z)
      /\ z.conn = c /\ z.held = x.target /\ Going(z) = x.target
      /\ z.pc \in {"idle", "sent"}
      /\ Pending(z, conn') = Pending(x, conn)
      /\ InStep(s, z, conn') /\ SameServer(r, conn'[c])
      /\ direct' = direct
  BY DEF InstallEffect
<1>3. y.tx = x.tx /\ y.hint = x.hint /\ y.fixed = x.fixed
      /\ y.pinned = x.pinned /\ y.readOnly = x.readOnly
  BY <1>1 DEF SessionRecords
<1>4. r.tx = cn.tx /\ r.bound = cn.bound
  BY <1>1, ResumeFacts, SMT
<1>. HIDE DEF x, z, d, r, y
<1>5. /\ z.tx = x.tx /\ z.hint = x.hint /\ z.fixed = x.fixed
      /\ z.pinned = x.pinned /\ z.readOnly = x.readOnly
  BY <1>2, <1>3 DEF SameAim
<1>6. conn'[c].tx = "I" /\ conn'[c].bound = {} /\ d.tx = "I" /\ d.bound = {}
  BY <1>1, <1>2, <1>4 DEF SameServer, Clean, Follows
<1>7. Follows(z, conn', d)
  BY <1>1, <1>2, <1>5, <1>6 DEF Follows
<1>8. Going(x) = x.target
  BY <1>2 DEF Going
<1>9. Routed(s, z, conn', d)
  BY <1>1, <1>2, <1>5, <1>6, <1>8 DEF Routed
<1>. QED  BY <1>2, <1>7, <1>9 DEF Tracks, z, d

\* An answer moves the connection and the client's own backend alike, and a
\* connection is released only between transactions.
LEMMA AnswerTracks ==
    ASSUME RelayInv, NEW s \in Sessions, Tracks(s, ses[s], conn, direct[s]),
           NEW ok \in BOOLEAN, AnswerEffect(s, ok)
    PROVE  Tracks(s, ses'[s], conn', direct'[s])
<1>. DEFINE x == ses[s]
            z == ses'[s]
            d == direct[s]
            e == direct'[s]
            cn == conn[x.conn]
            q == cn.todo
            dn == conn'[x.conn]
<1>1. Follows(x, conn, d) /\ Routed(s, x, conn, d)
  BY DEF Tracks
<1>2. /\ x.pc = "sent" /\ x.conn # NoConn
      /\ q \in Pending(x, conn)
      /\ z.conn = x.conn /\ z.held = x.held /\ z.pinned = x.pinned
      /\ z.hint = x.hint
      /\ z.tx = Status(dn)
      /\ z.fixed = IF dn.tx = "I" THEN NoTarget ELSE x.fixed
      /\ z.readOnly <=> x.readOnly /\ dn.tx # "I"
      /\ z.pc \in {"releasing", "idle"}
      /\ z.pc = "releasing" => dn.tx = "I" /\ ~x.pinned
      /\ Pending(z, conn') = {None} /\ InStep(s, z, conn')
      /\ AfterRun(cn, s, q, ok, dn)
      /\ AfterRun(d, s, q, ok, e)
  BY DEF AnswerEffect
<1>3. cn.tx = d.tx /\ cn.bound = d.bound
  BY <1>1, <1>2 DEF Follows
<1>. HIDE DEF x, z, d, e, q, cn, dn
<1>4. dn.tx = e.tx /\ dn.bound = e.bound /\ Status(dn) = Status(e)
  <2>1. dn.tx = e.tx
    BY <1>2, <1>3 DEF AfterRun
  <2>2. Runs(cn, q, ok) <=> Runs(d, q, ok)
    BY <1>3 DEF Runs
  <2>3. dn.bound = e.bound
    BY <1>2, <1>3, <2>2 DEF AfterRun
  <2>. QED  BY <2>1, <2>3 DEF Status
<1>5. e.bound # {} => x.pinned /\ x.held = Primary
  BY <1>1, <1>2 DEF AfterRun, Routed, Going, Pins
<1>6. Follows(z, conn', e)
  BY <1>2, <1>4, <1>5 DEF Follows, dn
<1>7. e.tx # "I" => x.fixed # NoTarget
  <2>1. e.tx # "I" => d.tx # "I" \/ q.op \in {"begin", "begin_ro", "late_begin"}
    BY <1>2 DEF AfterRun, TxAfter
  <2>. QED  BY <1>1, <1>2, <2>1 DEF Routed, BeginsTransaction
<1>8. x.fixed # NoTarget => x.fixed = x.held
  BY <1>1, <1>2 DEF Routed, Going
<1>9. Going(z) = x.held
  BY <1>2 DEF Going
<1>10. Routed(s, z, conn', e)
  <2>1. z.fixed # NoTarget => z.fixed = Going(z) /\ e.tx # "I"
    BY <1>2, <1>4, <1>8, <1>9
  <2>2. e.tx # "I" => z.fixed # NoTarget
    BY <1>2, <1>4, <1>7
  <2>3. e.bound # {} => z.pinned /\ z.held = Primary
    BY <1>2, <1>5
  <2>4. Parsed[s] # {} => z.hint = "auto" /\ ~z.readOnly /\ z.fixed \notin Replicas
    BY <1>1, <1>2, PrimaryIsNoReplica DEF Routed
  <2>. QED  BY <1>2, <2>1, <2>2, <2>3, <2>4, NoneIsNothing DEF Routed
<1>. QED  BY <1>2, <1>6, <1>10 DEF Tracks, z, e

\* Release, GuardDrops, Ends and ClientHints: nothing is pending.
LEMMA QuietTracks ==
    ASSUME RelayInv, PlainTransactions, NEW s \in Sessions,
           Tracks(s, ses[s], conn, direct[s]),
           ReleaseEffect(s) \/ DropEffect(s) \/ EndEffect(s) \/ HintEffect(s)
    PROVE  Tracks(s, ses'[s], conn', direct'[s])
<1>. DEFINE x == ses[s]
            z == ses'[s]
            d == direct[s]
<1>1. Follows(x, conn, d) /\ Routed(s, x, conn, d) /\ InStep(s, x, conn)
  BY DEF Tracks
<1>2. CASE ReleaseEffect(s)
  <2>. DEFINE cn == conn[x.conn]
              dn == conn'[x.conn]
  <2>1. /\ x.pc = "releasing" /\ x.conn # NoConn
        /\ cn \in Backends /\ Clean(cn)
        /\ z.pc = "returning" /\ z.held = NoTarget /\ z.conn = x.conn
        /\ z.pinned = x.pinned /\ z.hint = x.hint
        /\ z.tx = x.tx /\ z.fixed = x.fixed /\ z.readOnly = x.readOnly
        /\ Pending(z, conn') = Pending(x, conn) /\ InStep(s, z, conn')
        /\ dn = cn \/ dn = [cn EXCEPT !.unread = "socket"]
             \/ dn = [cn EXCEPT !.unread = "buffer"]
        /\ direct' = direct
    BY <1>2 DEF ReleaseEffect
  <2>2. dn.tx = cn.tx /\ dn.bound = cn.bound
    BY <2>1 DEF Backends
  <2>3. x.parsed = None /\ InHand(x, conn) = None
    BY <1>1, <2>1 DEF InStep, InHand, Clean
  <2>. HIDE DEF dn, x, z, d, cn
  <2>4. Pending(x, conn) = {None}
    BY <2>3 DEF Pending
  <2>5. d.tx = "I" /\ d.bound = {}
    BY <1>1, <2>1 DEF Follows
  <2>6. x.fixed = NoTarget
    BY <1>1, <2>4, <2>5, NoneIsNothing DEF Routed
  <2>7. Follows(z, conn', d)
    BY <1>1, <2>1, <2>2, <2>5 DEF Follows, dn, cn
  <2>8. Routed(s, z, conn', d)
    BY <1>1, <2>1, <2>4, <2>5, <2>6, NoneIsNothing DEF Routed
  <2>. QED  BY <2>1, <2>7, <2>8 DEF Tracks, z, d
<1>3. CASE DropEffect(s)
  <2>1. /\ x.pc = "returning"
        /\ z.pc = "idle" /\ z.conn = NoConn
        /\ z.tx = x.tx /\ z.hint = x.hint /\ z.pinned = x.pinned
        /\ z.fixed = x.fixed /\ z.readOnly = x.readOnly
        /\ Pending(x, conn) = {None} /\ Pending(z, conn') = {None}
        /\ InStep(s, z, conn') /\ direct' = direct
    BY <1>3 DEF DropEffect
  <2>. HIDE DEF x, z, d
  <2>2. d.tx = "I" /\ d.bound = {}
    BY <1>1, <2>1 DEF Follows
  <2>3. x.fixed = NoTarget
    BY <1>1, <2>1, <2>2, NoneIsNothing DEF Routed
  <2>4. Follows(z, conn', d)
    BY <1>1, <2>1, <2>2 DEF Follows
  <2>5. Routed(s, z, conn', d)
    BY <1>1, <2>1, <2>2, <2>3, NoneIsNothing DEF Routed
  <2>. QED  BY <2>1, <2>4, <2>5 DEF Tracks, z, d
<1>4. CASE EndEffect(s)
  <2>1. /\ z.conn = NoConn /\ z.tx = "I" /\ z.hint = "auto"
        /\ z.fixed = NoTarget /\ ~z.readOnly
        /\ Pending(z, conn') = {None} /\ InStep(s, z, conn')
        /\ direct'[s] = Closed
    BY <1>4 DEF EndEffect
  <2>2. Closed.tx = "I" /\ Closed.bound = {} /\ Status(Closed) = "I"
    BY DEF Closed, Status
  <2>. HIDE DEF z
  <2>3. Follows(z, conn', Closed)
    BY <2>1, <2>2 DEF Follows
  <2>4. Routed(s, z, conn', Closed)
    BY <2>1, <2>2, NoneIsNothing, PrimaryIsNoReplica DEF Routed
  <2>. QED  BY <2>1, <2>3, <2>4 DEF Tracks, z
<1>5. CASE HintEffect(s)
  <2>1. /\ x.pc = "idle" /\ z.pc = "idle"
        /\ Op("route_replica") \in Queried[s]
        /\ z.conn = x.conn /\ z.held = x.held /\ z.tx = x.tx
        /\ z.pinned = x.pinned /\ z.fixed = x.fixed
        /\ z.readOnly = x.readOnly
        /\ Pending(x, conn) = {None} /\ Pending(z, conn') = {None}
        /\ InStep(s, z, conn')
        /\ conn' = conn /\ direct' = direct
    BY <1>5 DEF HintEffect
  <2>. HIDE DEF x, z, d
  <2>2. Parsed[s] = {}
    BY <2>1 DEF PlainTransactions
  <2>3. Follows(z, conn', d)
    BY <1>1, <2>1 DEF Follows
  <2>4. Going(z) = Going(x)
    BY <2>1 DEF Going
  <2>5. Routed(s, z, conn', d)
    BY <1>1, <2>1, <2>2, <2>4 DEF Routed
  <2>. QED  BY <2>1, <2>3, <2>5 DEF Tracks, z, d
<1>. QED  BY <1>2, <1>3, <1>4, <1>5

\* A new session has no transaction and nothing bound.
LEMMA TrackInit == Init => TrackInv
<1>. SUFFICES ASSUME Init, NEW s \in Sessions
              PROVE  Tracks(s, ses[s], conn, direct[s])
  BY DEF TrackInv
<1>. DEFINE x == ses[s]
            d == direct[s]
<1>1. /\ x.pc = "idle" /\ x.conn = NoConn /\ x.tx = "I" /\ x.hint = "auto"
      /\ x.fixed = NoTarget /\ ~x.readOnly /\ x.parsed = None
      /\ x.frame.kind = "none"
  BY DEF Init, NewSession, NoFrame, Frame
<1>2. d.tx = "I" /\ d.bound = {}
  BY DEF Init, Opened, Closed
<1>. HIDE DEF x, d
<1>3. InHand(x, conn) = None
  BY <1>1 DEF InHand
<1>4. Pending(x, conn) = {None}
  BY <1>1, <1>3 DEF Pending
<1>5. Follows(x, conn, d) /\ InStep(s, x, conn)
  BY <1>1, <1>2, <1>3 DEF Follows, InStep, Status
<1>6. Routed(s, x, conn, d)
  BY <1>1, <1>2, <1>4, NoneIsNothing, PrimaryIsNoReplica DEF Routed
<1>. QED  BY <1>5, <1>6 DEF Tracks, x, d

\* Every step keeps every session tracked.
LEMMA TrackStep ==
    ASSUME PlainTransactions, RelayInv, TrackInv, [Next]_vars
    PROVE  TrackInv'
<1>1. \A s \in Sessions : Tracks(s, ses[s], conn, direct[s])
  BY DEF TrackInv
<1>2. StepEffect
  BY <1>1, StepHasEffect DEF Tracks
<1>. SUFFICES ASSUME NEW t \in Sessions
              PROVE  Tracks(t, ses'[t], conn', direct'[t])
  BY DEF TrackInv
<1>3. CASE Apart(t)
  BY <1>1, <1>3, ApartTracks
<1>4. CASE ActsOn(t)
  BY <1>1, <1>4, SendTracks, InstallTracks, AnswerTracks, QuietTracks
     DEF ActsOn
<1>. QED  BY <1>2, <1>3, <1>4, ActsOrApart

\* Whatever the pool, the router and the other sessions do, a statement runs
\* inside the transaction its client opened, and inside no other.
THEOREM TransactionsStayWhole ==
    ASSUME PlainTransactions PROVE Spec => []TransactionStaysWhole
<1>1. Init => TrackInv
  BY TrackInit
<1>2. RelayInv /\ TrackInv /\ [Next]_vars => TrackInv'
  BY TrackStep
<1>3. RelayInv /\ TrackInv => TransactionStaysWhole
  <2>. SUFFICES ASSUME RelayInv, TrackInv, NEW s \in Sessions, Serving(s)
                PROVE  conn[ses[s].conn].tx = direct[s].tx
    BY DEF TransactionStaysWhole
  <2>1. ses[s].conn # NoConn
    BY HeldFacts DEF Serving
  <2>. QED  BY <2>1 DEF TrackInv, Tracks, Follows
<1>. QED  BY <1>1, <1>2, <1>3, RelayInvariant, PTL DEF Spec

\* What is bound to a pinned session is on the connection its statements run
\* on, and nothing of another session's is.
THEOREM BoundStateAlwaysStaysPut ==
    ASSUME PlainTransactions PROVE Spec => []BoundStateStaysPut
<1>1. Init => TrackInv
  BY TrackInit
<1>2. RelayInv /\ TrackInv /\ [Next]_vars => TrackInv'
  BY TrackStep
<1>3. RelayInv /\ TrackInv => BoundStateStaysPut
  <2>. SUFFICES ASSUME RelayInv, TrackInv, NEW s \in Sessions, Serving(s)
                PROVE  conn[ses[s].conn].bound = direct[s].bound
    BY DEF BoundStateStaysPut
  <2>1. ses[s].conn # NoConn
    BY HeldFacts DEF Serving
  <2>. QED  BY <2>1 DEF TrackInv, Tracks, Follows
<1>. QED  BY <1>1, <1>2, <1>3, RelayInvariant, PTL DEF Spec

-----------------------------------------------------------------------------
(* Settings.                                                               *)

\* What session x recorded is in force: in its client's own backend d and,
\* if there is anything to replay, on the connection it holds.  A SET or RESET
\* on its way is recorded first, and there is no transaction it could be
\* undone with.
InForce(x, cs, d) ==
    /\ d.tx # "I" => d.saved = d.param
    /\ x.conn # NoConn /\ cs[x.conn].tx # "I"
         => cs[x.conn].saved = cs[x.conn].param
    /\ \A q \in Pending(x, cs) :
         Setting(q) => x.params = Recorded(Default, q) /\ d.tx = "I"
    /\ (\A q \in Pending(x, cs) : ~Setting(q)) =>
         /\ d.param = x.params
         /\ x.conn # NoConn /\ x.params # Default
              => cs[x.conn].param = x.params

\* The inductive invariant: what every session recorded is in force.
SettingInv == \A s \in Sessions : InForce(ses[s], conn, direct[s])

\* A session nobody touched keeps what is in force.
LEMMA ApartInForce ==
    ASSUME NEW t \in Sessions, Apart(t), InForce(ses[t], conn, direct[t])
    PROVE  InForce(ses'[t], conn', direct'[t])
<1>1. /\ Pending(ses'[t], conn') = Pending(ses[t], conn)
      /\ ses'[t] = ses[t] /\ direct'[t] = direct[t]
      /\ ses[t].conn # NoConn => conn'[ses[t].conn] = conn[ses[t].conn]
  BY ApartPending DEF Apart
<1>. QED  BY <1>1 DEF InForce

\* A SET or RESET is recorded when it is sent, other frames record nothing.
LEMMA SendInForce ==
    ASSUME PlainTransactions, NEW s \in Sessions,
           InForce(ses[s], conn, direct[s]),
           NEW f \in Frames, NEW a, SendEffect(s, f, a)
    PROVE  InForce(ses'[s], conn', direct'[s])
<1>. DEFINE x == ses[s]
            z == ses'[s]
            d == direct[s]
            q == f.sql
<1>1. /\ Wellbehaved(s, f) /\ Keeps(x, a)
      /\ \/ /\ f.kind \in {"Query", "Parse"} /\ Decided(x, q, a)
            /\ x.parsed = None /\ Pending(x, conn) = {None}
         \/ /\ f.kind \in {"Execute", "Sync"} /\ PassedOn(x, a)
            /\ Pending(x, conn) = {None, x.parsed} /\ q \in {None, x.parsed}
      /\ SameAim(a, z) /\ Pending(z, conn') = {None, x.parsed, q}
      /\ x.conn # NoConn => SameServer(conn[x.conn], conn'[x.conn])
      /\ direct' = direct
  BY DEF SendEffect
<1>2. SettingsOutsideTransactions
  BY DEF PlainTransactions
<1>3. Setting(q) => d.tx = "I"
  BY <1>1, <1>2 DEF Wellbehaved, Setting
<1>4. InForce(x, conn, d)
  OBVIOUS
<1>. HIDE DEF x, z, d, q
<1>5. z.conn = x.conn /\ z.params = a.params
  BY <1>1 DEF SameAim, Keeps
<1>6. /\ x.conn # NoConn =>
           /\ conn'[x.conn].tx = conn[x.conn].tx
           /\ conn'[x.conn].saved = conn[x.conn].saved
           /\ conn'[x.conn].param = conn[x.conn].param
  BY <1>1 DEF SameServer
<1>7. /\ d.tx # "I" => d.saved = d.param
      /\ z.conn # NoConn /\ conn'[z.conn].tx # "I"
           => conn'[z.conn].saved = conn'[z.conn].param
  BY <1>4, <1>5, <1>6 DEF InForce
<1>8. CASE f.kind \in {"Query", "Parse"}
  <2>1. /\ a.params = Recorded(x.params, q) /\ Pending(x, conn) = {None}
        /\ Pending(z, conn') = {None, q}
    BY <1>1, <1>8 DEF Decided
  <2>2. /\ d.param = x.params
        /\ x.conn # NoConn /\ x.params # Default
             => conn[x.conn].param = x.params
    BY <1>4, <2>1, NoneIsNothing DEF InForce
  <2>3. Setting(q) => a.params = Recorded(Default, q)
    BY <2>1 DEF Recorded, Setting
  <2>4. ~Setting(q) => a.params = x.params
    BY <2>1 DEF Recorded, Setting
  <2>5. InForce(z, conn', d)
    BY <1>3, <1>5, <1>6, <1>7, <2>1, <2>2, <2>3, <2>4, NoneIsNothing DEF InForce
  <2>. QED  BY <1>1, <2>5 DEF z, d
<1>9. CASE f.kind \in {"Execute", "Sync"}
  <2>1. a.params = x.params /\ Pending(z, conn') = Pending(x, conn)
    BY <1>1, <1>9 DEF PassedOn
  <2>2. InForce(z, conn', d)
    BY <1>4, <1>5, <1>6, <1>7, <2>1 DEF InForce
  <2>. QED  BY <1>1, <2>2 DEF z, d
<1>. QED  BY <1>1, <1>8, <1>9

\* Resume replays what is recorded onto the connection taken.
LEMMA InstallInForce ==
    ASSUME RelayInv, NEW s \in Sessions, InForce(ses[s], conn, direct[s]),
           NEW c \in Conns, NEW cn \in Backends, InstallEffect(s, c, cn)
    PROVE  InForce(ses'[s], conn', direct'[s])
<1>. DEFINE x == ses[s]
            z == ses'[s]
            d == direct[s]
            r == Resume([cn EXCEPT !.by = s], x)
            y == [x EXCEPT !.held = x.target, !.conn = c]
<1>1. x \in SessionRecords /\ InForce(x, conn, d)
  BY HeldFacts
<1>2. /\ Clean(cn) /\ SameAim(y, z) /\ z.conn = c
      /\ Pending(z, conn') = Pending(x, conn)
      /\ SameServer(r, conn'[c]) /\ direct' = direct
  BY DEF InstallEffect
<1>3. y.params = x.params
  BY <1>1 DEF SessionRecords
<1>4. r.tx = cn.tx /\ r.param = IF x.params = Default THEN cn.param ELSE x.params
  BY <1>1, ResumeFacts, SMT
<1>. HIDE DEF x, z, d, r, y
<1>5. z.params = x.params
  BY <1>2, <1>3 DEF SameAim
<1>6. conn'[c].tx = "I" /\ (x.params # Default => conn'[c].param = x.params)
  BY <1>2, <1>4 DEF SameServer, Clean
<1>7. InForce(z, conn', d)
  BY <1>1, <1>2, <1>5, <1>6 DEF InForce
<1>. QED  BY <1>2, <1>7 DEF z, d

\* A backend that ran a SET or RESET has the value; one that ran anything else
\* has the value it had, unless it went back to one that was saved.
LEMMA RunInForce ==
    ASSUME NEW cn, NEW s, NEW q, NEW ok \in BOOLEAN, NEW r,
           AfterRun(cn, s, q, ok, r),
           cn.tx # "I" => cn.saved = cn.param,
           Setting(q) => cn.tx = "I" /\ ok
    PROVE  /\ r.tx # "I" => r.saved = r.param
           /\ r.param = Recorded(cn.param, q)
<1>1. CASE Setting(q)
  <2>1. r.tx = "I" /\ Runs(cn, q, ok)
    BY <1>1 DEF AfterRun, TxAfter, Runs, Setting
  <2>2. r.param = Recorded(cn.param, q)
    BY <1>1, <2>1 DEF AfterRun, Setting, Recorded
  <2>. QED  BY <2>1, <2>2
<1>2. CASE ~Setting(q)
  <2>1. r.param = cn.param
    BY <1>2 DEF AfterRun, Setting
  <2>2. r.tx # "I" => r.saved = cn.param
    BY <1>2 DEF AfterRun
  <2>3. Recorded(cn.param, q) = cn.param
    BY <1>2 DEF Recorded, Setting
  <2>. QED  BY <2>1, <2>2, <2>3
<1>. QED  BY <1>1, <1>2

\* The server and the client's own backend run the same statement.
LEMMA AnswerInForce ==
    ASSUME NEW s \in Sessions, Tracks(s, ses[s], conn, direct[s]),
           InForce(ses[s], conn, direct[s]),
           NEW ok \in BOOLEAN, AnswerEffect(s, ok)
    PROVE  InForce(ses'[s], conn', direct'[s])
<1>. DEFINE x == ses[s]
            z == ses'[s]
            d == direct[s]
            e == direct'[s]
            cn == conn[x.conn]
            q == cn.todo
            dn == conn'[x.conn]
<1>1. Follows(x, conn, d) /\ InStep(s, x, conn) /\ InForce(x, conn, d)
  BY DEF Tracks
<1>2. /\ x.pc = "sent" /\ x.conn # NoConn /\ ok \in Outcomes(cn, q)
      /\ z.conn = x.conn /\ z.params = x.params /\ Pending(z, conn') = {None}
      /\ AfterRun(cn, s, q, ok, dn) /\ AfterRun(d, s, q, ok, e)
  BY DEF AnswerEffect
<1>3. Pending(x, conn) = {None, q}
  BY <1>1, <1>2 DEF InStep, InHand, Pending
<1>4. cn.tx = d.tx
  BY <1>1, <1>2 DEF Follows
<1>5. /\ d.tx # "I" => d.saved = d.param
      /\ cn.tx # "I" => cn.saved = cn.param
      /\ Setting(q) => x.params = Recorded(Default, q) /\ d.tx = "I"
      /\ ~Setting(q) => /\ d.param = x.params
                        /\ x.params # Default => cn.param = x.params
  BY <1>1, <1>2, <1>3, NoneIsNothing DEF InForce
<1>. HIDE DEF x, z, d, e, cn, q, dn
<1>6. Setting(q) => ok
  BY <1>2 DEF Outcomes, Setting, Writes
<1>7. /\ e.tx # "I" => e.saved = e.param
      /\ e.param = Recorded(d.param, q)
  <2>1. /\ AfterRun(d, s, q, ok, e) /\ (d.tx # "I" => d.saved = d.param)
        /\ Setting(q) => d.tx = "I" /\ ok
    BY <1>2, <1>5, <1>6
  <2>. QED  BY <2>1, RunInForce, SMT
<1>8. /\ dn.tx # "I" => dn.saved = dn.param
      /\ dn.param = Recorded(cn.param, q)
  <2>1. /\ AfterRun(cn, s, q, ok, dn) /\ (cn.tx # "I" => cn.saved = cn.param)
        /\ Setting(q) => cn.tx = "I" /\ ok
    BY <1>2, <1>4, <1>5, <1>6
  <2>. QED  BY <2>1, RunInForce, SMT
<1>9. e.param = x.params /\ (x.params # Default => dn.param = x.params)
  BY <1>5, <1>7, <1>8 DEF Recorded, Setting
<1>10. InForce(z, conn', e)
  BY <1>2, <1>7, <1>8, <1>9, NoneIsNothing DEF InForce, dn
<1>. QED  BY <1>10 DEF z, e

\* Release, GuardDrops, Ends and ClientHints change no setting.
LEMMA QuietInForce ==
    ASSUME NEW s \in Sessions, InStep(s, ses[s], conn),
           InForce(ses[s], conn, direct[s]),
           ReleaseEffect(s) \/ DropEffect(s) \/ EndEffect(s) \/ HintEffect(s)
    PROVE  InForce(ses'[s], conn', direct'[s])
<1>. DEFINE x == ses[s]
            z == ses'[s]
            d == direct[s]
<1>1. InForce(x, conn, d)
  OBVIOUS
<1>2. CASE ReleaseEffect(s)
  <2>. DEFINE cn == conn[x.conn]
              dn == conn'[x.conn]
  <2>1. /\ x.conn # NoConn /\ cn \in Backends
        /\ z.conn = x.conn /\ z.params = x.params
        /\ Pending(z, conn') = Pending(x, conn)
        /\ dn = cn \/ dn = [cn EXCEPT !.unread = "socket"]
             \/ dn = [cn EXCEPT !.unread = "buffer"]
        /\ direct' = direct
    BY <1>2 DEF ReleaseEffect
  <2>2. dn.tx = cn.tx /\ dn.param = cn.param /\ dn.saved = cn.saved
    BY <2>1 DEF Backends
  <2>. HIDE DEF x, z, d
  <2>3. InForce(z, conn', d)
    BY <1>1, <2>1, <2>2, SMT DEF InForce
  <2>. QED  BY <2>1, <2>3 DEF z, d
<1>3. CASE DropEffect(s)
  <2>1. /\ z.conn = NoConn /\ z.params = x.params
        /\ Pending(x, conn) = {None} /\ Pending(z, conn') = {None}
        /\ direct' = direct
    BY <1>3 DEF DropEffect
  <2>. HIDE DEF x, z, d
  <2>2. InForce(z, conn', d)
    BY <1>1, <2>1, NoneIsNothing DEF InForce
  <2>. QED  BY <2>1, <2>2 DEF z, d
<1>4. CASE EndEffect(s)
  <2>1. /\ z.conn = NoConn /\ z.params = Default /\ Pending(z, conn') = {None}
        /\ direct'[s] = Closed
    BY <1>4 DEF EndEffect
  <2>2. Closed.tx = "I" /\ Closed.param = Default
    BY DEF Closed
  <2>. HIDE DEF z
  <2>3. InForce(z, conn', Closed)
    BY <2>1, <2>2, NoneIsNothing DEF InForce
  <2>. QED  BY <2>1, <2>3 DEF z
<1>5. CASE HintEffect(s)
  <2>1. /\ z.conn = x.conn /\ z.params = x.params
        /\ Pending(x, conn) = {None} /\ Pending(z, conn') = {None}
        /\ conn' = conn /\ direct' = direct
    BY <1>5 DEF HintEffect
  <2>. HIDE DEF x, z, d
  <2>2. InForce(z, conn', d)
    BY <1>1, <2>1 DEF InForce
  <2>. QED  BY <2>1, <2>2 DEF z, d
<1>. QED  BY <1>2, <1>3, <1>4, <1>5

\* A new client has set nothing.
LEMMA SettingInit == Init => SettingInv
<1>. SUFFICES ASSUME Init, NEW s \in Sessions
              PROVE  InForce(ses[s], conn, direct[s])
  BY DEF SettingInv
<1>. DEFINE x == ses[s]
            d == direct[s]
<1>1. /\ x.pc = "idle" /\ x.conn = NoConn /\ x.parsed = None
      /\ x.params = Default
  BY DEF Init, NewSession
<1>2. d.tx = "I" /\ d.param = Default
  BY DEF Init, Opened, Closed
<1>. HIDE DEF x, d
<1>3. Pending(x, conn) = {None}
  BY <1>1 DEF Pending, InHand
<1>4. InForce(x, conn, d)
  BY <1>1, <1>2, <1>3, NoneIsNothing DEF InForce
<1>. QED  BY <1>4 DEF x, d

\* Every step keeps what every session recorded in force.
LEMMA SettingStep ==
    ASSUME PlainTransactions, RelayInv, TrackInv, SettingInv, [Next]_vars
    PROVE  SettingInv'
<1>1. \A s \in Sessions : /\ Tracks(s, ses[s], conn, direct[s])
                          /\ InStep(s, ses[s], conn)
                          /\ InForce(ses[s], conn, direct[s])
  BY DEF TrackInv, Tracks, SettingInv
<1>2. StepEffect
  BY <1>1, StepHasEffect
<1>. SUFFICES ASSUME NEW t \in Sessions
              PROVE  InForce(ses'[t], conn', direct'[t])
  BY DEF SettingInv
<1>3. CASE Apart(t)
  BY <1>1, <1>3, ApartInForce
<1>4. CASE ActsOn(t)
  BY <1>1, <1>4, SendInForce, InstallInForce, AnswerInForce, QuietInForce
     DEF ActsOn
<1>. QED  BY <1>2, <1>3, <1>4, ActsOrApart

\* A value a client has SET is in force wherever its statements run, however
\* often its connection was handed to other sessions in between.
THEOREM SettingsAlwaysFollow ==
    ASSUME PlainTransactions PROVE Spec => []SettingsFollowTheSession
<1>1. Init => TrackInv /\ SettingInv
  BY TrackInit, SettingInit
<1>2. RelayInv /\ TrackInv /\ SettingInv /\ [Next]_vars
        => TrackInv' /\ SettingInv'
  BY TrackStep, SettingStep
<1>3. RelayInv /\ TrackInv /\ SettingInv => SettingsFollowTheSession
  <2>. SUFFICES ASSUME RelayInv, TrackInv, SettingInv, NEW s \in Sessions,
                       Serving(s), direct[s].param # Default,
                       ~Setting(conn[ses[s].conn].todo)
                PROVE  conn[ses[s].conn].param = direct[s].param
    BY DEF SettingsFollowTheSession
  <2>1. ses[s].pc = "sent" /\ ses[s].conn # NoConn
    BY HeldFacts DEF Serving
  <2>2. InStep(s, ses[s], conn) /\ InForce(ses[s], conn, direct[s])
    BY DEF TrackInv, Tracks, SettingInv
  <2>3. \A q \in Pending(ses[s], conn) : ~Setting(q)
    BY <2>1, <2>2, NoneIsNothing DEF InStep, InHand, Pending
  <2>. QED  BY <2>1, <2>2, <2>3 DEF InForce
<1>. QED  BY <1>1, <1>2, <1>3, RelayInvariant, PTL DEF Spec


-----------------------------------------------------------------------------
(* Where a held connection leads.                                          *)

\* A held connection is one to the target the session thinks it holds.
OnTarget(x, cs) == x.held # NoTarget => cs[x.conn].to = x.held

\* Held connections lead where their sessions think.
TargetInv == \A s \in Sessions : OnTarget(ses[s], conn)

\* No connection is held at first.
LEMMA TargetInit == Init => TargetInv
  BY SMT DEF Init, TargetInv, OnTarget, NewSession

\* Every step keeps held connections on their targets.
LEMMA TargetStep ==
    ASSUME RelayInv, TrackInv, TargetInv, [Next]_vars
    PROVE  TargetInv'
<1>1. \A s \in Sessions : OnTarget(ses[s], conn) /\ InStep(s, ses[s], conn)
  BY DEF TargetInv, TrackInv, Tracks
<1>2. StepEffect
  BY <1>1, StepHasEffect
<1>. SUFFICES ASSUME NEW t \in Sessions PROVE OnTarget(ses'[t], conn')
  BY DEF TargetInv
<1>3. ses[t].held # NoTarget => ses[t].conn # NoConn
  BY HeldFacts
<1>4. CASE Apart(t)
  <2>1. /\ ses'[t] = ses[t]
        /\ ses[t].conn # NoConn => conn'[ses[t].conn] = conn[ses[t].conn]
    BY <1>4 DEF Apart
  <2>. QED  BY <1>1, <1>3, <2>1 DEF OnTarget
<1>5. ASSUME NEW f \in Frames, NEW a, SendEffect(t, f, a)
      PROVE  OnTarget(ses'[t], conn')
  <2>1. /\ Keeps(ses[t], a) /\ SameAim(a, ses'[t])
        /\ ses[t].conn # NoConn => SameServer(conn[ses[t].conn], conn'[ses[t].conn])
    BY <1>5 DEF SendEffect
  <2>2. ses'[t].conn = ses[t].conn /\ ses'[t].held = ses[t].held
    BY <2>1 DEF Keeps, SameAim
  <2>. QED  BY <1>1, <1>3, <2>1, <2>2 DEF OnTarget, SameServer
<1>6. ASSUME NEW c \in Conns, NEW cn \in Backends, InstallEffect(t, c, cn)
      PROVE  OnTarget(ses'[t], conn')
  <2>. DEFINE r == Resume([cn EXCEPT !.by = t], ses[t])
  <2>1. /\ cn.to = ses[t].target /\ SameServer(r, conn'[c])
        /\ ses'[t].conn = c /\ ses'[t].held = ses[t].target
    BY <1>6 DEF InstallEffect
  <2>2. r.to = cn.to
    BY HeldFacts, ResumeFacts, SMT
  <2>. QED  BY <2>1, <2>2 DEF OnTarget, SameServer
<1>7. ASSUME NEW ok \in BOOLEAN, AnswerEffect(t, ok)
      PROVE  OnTarget(ses'[t], conn')
  <2>. DEFINE cn == conn[ses[t].conn]
  <2>1. /\ AfterRun(cn, t, cn.todo, ok, conn'[ses[t].conn])
        /\ ses'[t].conn = ses[t].conn /\ ses'[t].held = ses[t].held
    BY <1>7 DEF AnswerEffect
  <2>2. conn'[ses[t].conn].to = cn.to
    BY <2>1 DEF AfterRun
  <2>. QED  BY <1>1, <2>1, <2>2 DEF OnTarget
<1>8. CASE ReleaseEffect(t) \/ DropEffect(t) \/ EndEffect(t)
  <2>1. ses'[t].held = NoTarget
    <3>1. CASE ReleaseEffect(t)  BY <3>1 DEF ReleaseEffect
    <3>2. CASE DropEffect(t)  BY <3>2 DEF DropEffect
    <3>3. CASE EndEffect(t)  BY <3>3 DEF EndEffect
    <3>. QED  BY <1>8, <3>1, <3>2, <3>3
  <2>. QED  BY <2>1 DEF OnTarget
<1>9. CASE HintEffect(t)
  <2>1. ses'[t].conn = ses[t].conn /\ ses'[t].held = ses[t].held /\ conn' = conn
    BY <1>9 DEF HintEffect
  <2>. QED  BY <1>1, <2>1 DEF OnTarget
<1>. QED  BY <1>2, <1>4, <1>5, <1>6, <1>7, <1>8, <1>9, ActsOrApart DEF ActsOn

-----------------------------------------------------------------------------
(* Reads after writes.                                                     *)

\* Every statement that writes is one the proxy sees to be a write.
WritesAreSeen == \A s \in Sessions : \A q \in SentBy(s) : q.op # "call"

\* Session x, whose client's last write is at w, the primary's position
\* being l and the replicas' rep: it waits for the position of its last write
\* or knows one past it, and has not sent a write it did not note.
Positioned(x, cs, d, w, l, rep) ==
    /\ w <= l
    /\ x.wrote \/ w <= x.watermark
    /\ Going(x) \in Replicas => rep[Going(x)] >= w
    /\ x.conn # NoConn /\ cs[x.conn].tx = "T" /\ cs[x.conn].dirty => x.wrote
    /\ x.readOnly => \/ d.tx \in {"R", "E"}
                     \/ d.tx = "I" /\ \E q \in Pending(x, cs) : q.op = "begin_ro"
    /\ \A q \in Pending(x, cs) :
         q.op # "call" /\ (q.op = "write" /\ d.tx \in {"I", "T"} => x.wrote)

\* Uncommitted writes are on the primary, in a transaction.
Uncommitted(cn) == cn.dirty => cn.tx # "I" /\ cn.to = Primary

\* The inductive invariant: every session is positioned, the poller is never
\* ahead of a replica, and no uncommitted write is anywhere but on the primary.
PositionInv ==
    /\ \A s \in Sessions :
         Positioned(ses[s], conn, direct[s], written[s], lsn, replayed)
    /\ \A r \in Replicas : seen[r] <= replayed[r]
    /\ \A c \in Conns : Uncommitted(conn[c])

\* Positions are numbers.
LEMMA PositionTypes ==
    ASSUME RelayInv
    PROVE  /\ lsn \in Nat
           /\ \A r \in Replicas : replayed[r] \in Nat /\ seen[r] \in Int
           /\ \A s \in Sessions : written[s] \in Nat /\ ses[s].watermark \in Nat
                                  /\ ses[s].wrote \in BOOLEAN
           /\ \A c \in Conns : conn[c] \in Backends
<1>1. \A s \in Sessions : ses[s] \in SessionRecords
  BY DEF RelayInv, RelayTypeOK
<1>2. \A s \in Sessions : ses[s].watermark \in 0 .. MaxLsn /\ ses[s].wrote \in BOOLEAN
  BY <1>1 DEF SessionRecords
<1>. QED  BY <1>2, RelayAssumption, SMT DEF RelayInv, RelayTypeOK

\* Positions only grow.
LEMMA ApartPositioned ==
    ASSUME RelayInv, RelayInv', NEW t \in Sessions, Apart(t),
           Positioned(ses[t], conn, direct[t], written[t], lsn, replayed),
           lsn' >= lsn, \A r \in Replicas : replayed'[r] >= replayed[r]
    PROVE  Positioned(ses'[t], conn', direct'[t], written'[t], lsn', replayed')
<1>1. /\ Pending(ses'[t], conn') = Pending(ses[t], conn)
      /\ ses'[t] = ses[t] /\ direct'[t] = direct[t] /\ written'[t] = written[t]
      /\ ses[t].conn # NoConn => conn'[ses[t].conn] = conn[ses[t].conn]
      /\ ses[t].held # NoTarget => ses[t].conn # NoConn
  BY ApartPending, HeldFacts DEF Apart
<1>2. /\ lsn \in Nat /\ lsn' \in Nat /\ written[t] \in Nat
      /\ \A r \in Replicas : replayed[r] \in Nat /\ replayed'[r] \in Nat
  BY PositionTypes, RelayAssumption, SMT DEF RelayInv, RelayTypeOK
<1>. QED  BY <1>1, <1>2, SMT DEF Positioned

\* A read goes to a replica only if the poller saw it past the session's
\* watermark, and a write is noted before it is sent.
LEMMA SendPositioned ==
    ASSUME RelayInv, TrackInv, PositionInv, WritesAreSeen, NEW s \in Sessions,
           NEW f \in Frames, NEW a, SendEffect(s, f, a)
    PROVE  Positioned(ses'[s], conn', direct'[s], written'[s], lsn', replayed')
<1>. DEFINE x == ses[s]
            z == ses'[s]
            d == direct[s]
            w == written[s]
            q == f.sql
<1>1. /\ Routed(s, x, conn, d) /\ InStep(s, x, conn)
      /\ Positioned(x, conn, d, w, lsn, replayed)
      /\ \A r \in Replicas : seen[r] <= replayed[r]
  <2>1. Routed(s, x, conn, d) /\ InStep(s, x, conn)
    BY DEF TrackInv, Tracks
  <2>2. Positioned(x, conn, d, w, lsn, replayed)
    BY DEF PositionInv
  <2>3. \A r \in Replicas : seen[r] <= replayed[r]
    BY DEF PositionInv
  <2>. QED  BY <2>1, <2>2, <2>3
<1>2. /\ lsn \in Nat /\ w \in Nat /\ x.watermark \in Nat
      /\ \A r \in Replicas : replayed[r] \in Nat /\ seen[r] \in Int
  BY PositionTypes
<1>3. /\ x.pc = "idle"
      /\ a \in SessionRecords /\ a.target \in Targets /\ Keeps(x, a)
      /\ \/ /\ f.kind \in {"Query", "Parse"} /\ Decided(x, f.sql, a)
            /\ x.parsed = None /\ Pending(x, conn) = {None}
            /\ f.sql \in SentBy(s)
         \/ /\ f.kind \in {"Execute", "Sync"} /\ PassedOn(x, a)
            /\ x.parsed # None /\ Pending(x, conn) = {None, x.parsed}
            /\ f.sql \in {None, x.parsed}
      /\ SameAim(a, z) /\ Going(z) = a.target
      /\ Pending(z, conn') = {None, x.parsed, f.sql}
      /\ x.conn # NoConn => SameServer(conn[x.conn], conn'[x.conn])
      /\ direct' = direct /\ lsn' = lsn /\ replayed' = replayed
      /\ written' = written
  BY DEF SendEffect
<1>. HIDE DEF x, z, d, w
<1>4. /\ z.conn = x.conn /\ z.held = x.held
      /\ z.watermark = x.watermark /\ z.wrote = a.wrote
      /\ z.readOnly = a.readOnly
  BY <1>3 DEF SameAim, Keeps
<1>5. /\ x.wrote => a.wrote
      /\ a.target \in Replicas => replayed[a.target] >= w
      /\ a.readOnly => \/ d.tx \in {"R", "E"}
                       \/ d.tx = "I" /\ \E p \in {None, x.parsed, q} : p.op = "begin_ro"
      /\ \A p \in {None, x.parsed, q} :
           p.op # "call" /\ (p.op = "write" /\ d.tx \in {"I", "T"} => a.wrote)
  <2>1. CASE f.kind \in {"Query", "Parse"}
    <3>1. /\ Decided(x, q, a) /\ x.parsed = None /\ Pending(x, conn) = {None}
          /\ q \in SentBy(s)
      BY <1>3, <2>1
    <3>2. q.op # "call"
      BY <3>1 DEF WritesAreSeen
    <3>3. x.readOnly => d.tx \in {"R", "E"}
      BY <1>1, <3>1, NoneIsNothing DEF Positioned
    <3>4. CASE x.fixed # NoTarget
      <4>1. /\ a.target = x.fixed /\ a.readOnly = x.readOnly
            /\ a.wrote <=> x.wrote \/ (~x.readOnly /\ q.op = "write")
        BY <3>1, <3>4 DEF Decided
      <4>2. a.target = Going(x)
        BY <1>1, <3>4, <4>1 DEF Routed
      <4>. QED  BY <1>1, <3>1, <3>2, <3>3, <4>1, <4>2, NoneIsNothing DEF Positioned
    <3>5. CASE x.fixed = NoTarget
      <4>1. /\ a.readOnly <=> x.readOnly \/ q.op = "begin_ro"
            /\ a.wrote <=> x.wrote \/ (~a.readOnly /\ q.op = "write")
            /\ a.target # Primary =>
                 ~a.wrote /\ a.target \in Replicas /\ seen[a.target] >= x.watermark
        BY <3>1, <3>5 DEF Decided
      <4>2. d.tx = "I"
        BY <1>1, <3>5 DEF Routed
      <4>3. a.target \in Replicas => replayed[a.target] >= w
        <5>. SUFFICES ASSUME a.target \in Replicas
                      PROVE  replayed[a.target] >= w
          OBVIOUS
        <5>1. ~x.wrote /\ seen[a.target] >= x.watermark
          BY <4>1, PrimaryIsNoReplica
        <5>2. w <= x.watermark /\ seen[a.target] <= replayed[a.target]
          BY <1>1, <5>1 DEF Positioned
        <5>. QED  BY <1>2, <5>1, <5>2, SMT
      <4>4. q.op = "write" => a.wrote
        BY <3>3, <4>1, <4>2
      <4>. QED  BY <3>1, <3>2, <3>3, <4>1, <4>2, <4>3, <4>4, NoneIsNothing
    <3>. QED  BY <3>4, <3>5
  <2>2. CASE f.kind \in {"Execute", "Sync"}
    <3>1. /\ a.target = Primary /\ a.readOnly = x.readOnly /\ a.wrote = x.wrote
          /\ Pending(x, conn) = {None, x.parsed} /\ q \in {None, x.parsed}
      BY <1>3, <2>2 DEF PassedOn
    <3>2. {None, x.parsed, q} = Pending(x, conn)
      BY <3>1
    <3>. QED  BY <1>1, <3>1, <3>2, PrimaryIsNoReplica DEF Positioned
  <2>. QED  BY <1>3, <2>1, <2>2
<1>6. x.conn # NoConn /\ conn'[x.conn].tx = "T" /\ conn'[x.conn].dirty => x.wrote
  BY <1>1, <1>3 DEF Positioned, SameServer
<1>7. Positioned(z, conn', d, w, lsn, replayed)
  BY <1>1, <1>3, <1>4, <1>5, <1>6 DEF Positioned
<1>. QED  BY <1>3, <1>7 DEF z, d, w

\* The connection installed is to the target decided on.
LEMMA InstallPositioned ==
    ASSUME RelayInv, TrackInv, PositionInv, NEW s \in Sessions,
           NEW c \in Conns, NEW cn \in Backends, InstallEffect(s, c, cn)
    PROVE  /\ Positioned(ses'[s], conn', direct'[s], written'[s], lsn', replayed')
           /\ ~conn'[c].dirty
<1>. DEFINE x == ses[s]
            z == ses'[s]
            d == direct[s]
            w == written[s]
            r == Resume([cn EXCEPT !.by = s], x)
            y == [x EXCEPT !.held = x.target, !.conn = c]
<1>1. /\ Positioned(x, conn, d, w, lsn, replayed) /\ Uncommitted(conn[c])
      /\ x \in SessionRecords
  BY HeldFacts DEF PositionInv
<1>2. /\ x.pc = "acquiring" /\ Clean(cn)
      /\ (cn = conn[c] /\ Fit(cn)) \/ cn = Opened(s, x.target)
      /\ SameAim(y, z)
      /\ z.conn = c /\ Going(z) = x.target
      /\ Pending(z, conn') = Pending(x, conn)
      /\ SameServer(r, conn'[c])
      /\ direct' = direct /\ lsn' = lsn /\ replayed' = replayed
      /\ written' = written
  BY DEF InstallEffect
<1>3. y.watermark = x.watermark /\ y.wrote = x.wrote /\ y.readOnly = x.readOnly
  BY <1>1 DEF SessionRecords
<1>4. r.tx = cn.tx /\ r.dirty = cn.dirty
  BY <1>1, ResumeFacts, SMT
<1>5. ~cn.dirty
  BY <1>1, <1>2 DEF Uncommitted, Clean, Opened, Closed
<1>. HIDE DEF x, z, d, w, r, y
<1>6. z.watermark = x.watermark /\ z.wrote = x.wrote /\ z.readOnly = x.readOnly
  BY <1>2, <1>3 DEF SameAim
<1>7. ~conn'[c].dirty
  BY <1>2, <1>4, <1>5 DEF SameServer
<1>8. Going(x) = x.target
  BY <1>2 DEF Going
<1>9. Positioned(z, conn', d, w, lsn, replayed)
  BY <1>1, <1>2, <1>6, <1>7, <1>8 DEF Positioned
<1>. QED  BY <1>2, <1>7, <1>9 DEF z, d, w

\* A write that commits was noted, so its client waits for its position.
LEMMA AnswerPositioned ==
    ASSUME RelayInv, TrackInv, TargetInv, PositionInv, NEW s \in Sessions,
           NEW ok \in BOOLEAN, AnswerEffect(s, ok)
    PROVE  /\ Positioned(ses'[s], conn', direct'[s], written'[s], lsn', replayed')
           /\ Uncommitted(conn'[ses[s].conn])
<1>. DEFINE x == ses[s]
            z == ses'[s]
            d == direct[s]
            e == direct'[s]
            w == written[s]
            v == written'[s]
            cn == conn[x.conn]
            q == cn.todo
            dn == conn'[x.conn]
<1>1. Follows(x, conn, d) /\ InStep(s, x, conn)
  BY DEF TrackInv, Tracks
<1>2. Positioned(x, conn, d, w, lsn, replayed) /\ OnTarget(x, conn)
  BY DEF PositionInv, TargetInv
<1>3. /\ x.pc = "sent" /\ x.conn # NoConn /\ x.conn \in Conns
      /\ q \in Pending(x, conn) /\ ok \in Outcomes(cn, q)
      /\ z.conn = x.conn /\ z.held = x.held
      /\ z.watermark = x.watermark /\ z.wrote = x.wrote
      /\ z.readOnly <=> x.readOnly /\ dn.tx # "I"
      /\ z.pc \in {"releasing", "idle"}
      /\ Pending(z, conn') = {None}
      /\ AfterRun(cn, s, q, ok, dn)
      /\ AfterRun(d, s, q, ok, e)
      /\ IF Commits(cn, q, ok)
         THEN lsn' = lsn + 1 /\ v = lsn + 1
         ELSE lsn' = lsn /\ v = w
      /\ replayed' = replayed
  BY DEF AnswerEffect
<1>4. InHand(x, conn) = q
  BY <1>3 DEF InHand
<1>5. Uncommitted(cn)
  BY <1>3 DEF PositionInv
<1>6. lsn \in Nat /\ w \in Nat /\ x.watermark \in Nat
  BY PositionTypes
<1>7. x.wrote \in BOOLEAN /\ cn \in Backends
  BY <1>3, PositionTypes
<1>. HIDE DEF x, z, d, e, w, v, q, dn
<1>8. cn.tx = d.tx /\ Going(x) = x.held /\ Going(z) = x.held
  BY <1>1, <1>3 DEF Follows, Going
<1>9. x.held # NoTarget => cn.to = x.held
  BY <1>2 DEF OnTarget
<1>. HIDE DEF cn
<1>10. q.op # "call" /\ (q.op = "write" /\ cn.tx \in {"I", "T"} => x.wrote)
  BY <1>2, <1>3, <1>8 DEF Positioned
<1>11. cn.tx = "T" /\ cn.dirty => x.wrote
  BY <1>2, <1>3 DEF Positioned, cn
<1>12. Commits(cn, q, ok) => x.wrote /\ cn.to = Primary
  BY <1>3, <1>5, <1>10, <1>11 DEF Commits, Writes, Outcomes, Uncommitted
<1>13. dn.dirty => /\ dn.tx # "I" /\ dn.to = Primary
                   /\ dn.tx = "T" => x.wrote
  <2>. SUFFICES ASSUME dn.dirty
                PROVE  /\ dn.tx # "I" /\ dn.to = Primary
                       /\ dn.tx = "T" => x.wrote
    OBVIOUS
  <2>1. /\ cn.dirty \/ (ok /\ Writes(q) /\ cn.tx = "T")
        /\ dn.tx # "I" \/ cn.tx = "I"
        /\ dn.to = cn.to /\ dn.tx = TxAfter(cn.tx, q, ok)
    BY <1>3 DEF AfterRun
  <2>2. cn.tx # "I" /\ dn.tx # "I"
    BY <1>5, <2>1 DEF Uncommitted
  <2>3. cn.to = Primary
    BY <1>3, <1>5, <2>1 DEF Uncommitted, Outcomes
  <2>4. dn.tx = "T" => cn.tx = "T"
    BY <1>7, <2>1, <2>2 DEF TxAfter, Backends
  <2>5. dn.tx = "T" => x.wrote
    BY <1>10, <1>11, <2>1, <2>4 DEF Writes
  <2>. QED  BY <2>1, <2>2, <2>3, <2>5
<1>14. v <= lsn' /\ (x.wrote \/ v <= x.watermark)
  BY <1>2, <1>3, <1>6, <1>12, SMT DEF Positioned
<1>15. x.held \in Replicas => replayed[x.held] >= v
  <2>1. x.held \in Replicas => ~Commits(cn, q, ok)
    BY <1>9, <1>12, PrimaryIsNoReplica
  <2>. QED  BY <1>2, <1>3, <1>8, <2>1 DEF Positioned
<1>16. z.readOnly => e.tx \in {"R", "E"}
  <2>. SUFFICES ASSUME z.readOnly PROVE e.tx \in {"R", "E"}
    OBVIOUS
  <2>1. /\ x.readOnly /\ dn.tx # "I" /\ dn.tx = TxAfter(cn.tx, q, ok)
        /\ e.tx = TxAfter(cn.tx, q, ok)
    BY <1>3, <1>8 DEF AfterRun
  <2>2. cn.tx \in {"R", "E"} \/ (cn.tx = "I" /\ q.op = "begin_ro")
    <3>1. \A p \in Pending(x, conn) : p = None \/ p = q
      BY <1>1, <1>3, <1>4 DEF Pending, InStep
    <3>. QED  BY <1>2, <1>8, <2>1, <3>1, NoneIsNothing DEF Positioned
  <2>. QED  BY <2>1, <2>2 DEF TxAfter
<1>17. Positioned(z, conn', e, v, lsn', replayed')
  BY <1>3, <1>8, <1>13, <1>14, <1>15, <1>16, NoneIsNothing DEF Positioned, dn
<1>. QED  BY <1>13, <1>17 DEF Uncommitted, z, e, v, dn, x

\* Release, GuardDrops, Ends and ClientHints.
LEMMA QuietPositioned ==
    ASSUME RelayInv, TrackInv, PositionInv, NEW s \in Sessions,
           ReleaseEffect(s) \/ DropEffect(s) \/ EndEffect(s) \/ HintEffect(s)
    PROVE  Positioned(ses'[s], conn', direct'[s], written'[s], lsn', replayed')
<1>. DEFINE x == ses[s]
            z == ses'[s]
            d == direct[s]
            w == written[s]
<1>1. Follows(x, conn, d) /\ InStep(s, x, conn)
  BY DEF TrackInv, Tracks
<1>2. Positioned(x, conn, d, w, lsn, replayed)
  BY DEF PositionInv
<1>3. lsn \in Nat /\ w \in Nat /\ x.watermark \in Nat
  BY PositionTypes
<1>4. CASE ReleaseEffect(s)
  <2>. DEFINE cn == conn[x.conn]
              dn == conn'[x.conn]
  <2>1. /\ x.pc = "releasing" /\ x.conn # NoConn
        /\ cn \in Backends /\ Clean(cn)
        /\ z.pc = "returning" /\ z.held = NoTarget /\ z.conn = x.conn
        /\ z.readOnly = x.readOnly
        /\ \/ z.wrote = x.wrote /\ z.watermark = x.watermark
           \/ ~z.wrote /\ z.watermark \in Nat /\ z.watermark >= lsn
        /\ Pending(z, conn') = Pending(x, conn)
        /\ dn = cn \/ dn = [cn EXCEPT !.unread = "socket"]
             \/ dn = [cn EXCEPT !.unread = "buffer"]
        /\ direct' = direct /\ lsn' = lsn /\ written' = written
    BY <1>4 DEF ReleaseEffect
  <2>2. dn.tx = "I"
    BY <2>1 DEF Backends, Clean
  <2>3. x.parsed = None /\ InHand(x, conn) = None
    BY <1>1, <2>1 DEF InStep, InHand, Clean
  <2>. HIDE DEF dn, x, z, d, cn, w
  <2>4. Pending(x, conn) = {None}
    BY <2>3 DEF Pending
  <2>5. ~x.readOnly
    BY <1>1, <1>2, <2>1, <2>4, NoneIsNothing DEF Positioned, Follows
  <2>6. z.wrote \/ w <= z.watermark
    BY <1>2, <1>3, <2>1, SMTT(30) DEF Positioned
  <2>7. Going(z) = NoTarget
    BY <2>1 DEF Going
  <2>8. Positioned(z, conn', d, w, lsn, replayed')
    BY <1>2, <2>1, <2>2, <2>4, <2>5, <2>6, <2>7, NoneIsNothing, PrimaryIsNoReplica
       DEF Positioned, dn
  <2>. QED  BY <2>1, <2>8 DEF z, d, w
<1>5. CASE DropEffect(s)
  <2>1. /\ x.pc = "returning"
        /\ z.pc = "idle" /\ z.conn = NoConn /\ z.held = NoTarget
        /\ z.watermark = x.watermark
        /\ z.readOnly = x.readOnly /\ z.wrote = x.wrote
        /\ Pending(x, conn) = {None} /\ Pending(z, conn') = {None}
        /\ direct' = direct /\ lsn' = lsn /\ written' = written
    BY <1>5 DEF DropEffect
  <2>. HIDE DEF x, z, d, w
  <2>2. Going(z) = NoTarget
    BY <2>1 DEF Going
  <2>3. Positioned(z, conn', d, w, lsn, replayed')
    BY <1>2, <2>1, <2>2, NoneIsNothing, PrimaryIsNoReplica DEF Positioned
  <2>. QED  BY <2>1, <2>3 DEF z, d, w
<1>6. CASE EndEffect(s)
  <2>1. /\ z.pc = "gone" /\ z.conn = NoConn /\ z.held = NoTarget
        /\ z.watermark = 0 /\ ~z.readOnly /\ ~z.wrote
        /\ Pending(z, conn') = {None}
        /\ written'[s] = 0 /\ lsn' = lsn
    BY <1>6 DEF EndEffect
  <2>. HIDE DEF z
  <2>2. Going(z) = NoTarget
    BY <2>1 DEF Going
  <2>3. Positioned(z, conn', direct'[s], 0, lsn, replayed')
    BY <1>3, <2>1, <2>2, NoneIsNothing, PrimaryIsNoReplica, SMT DEF Positioned
  <2>. QED  BY <2>1, <2>3 DEF z
<1>7. CASE HintEffect(s)
  <2>1. /\ x.pc = "idle" /\ z.pc = "idle"
        /\ z.conn = x.conn /\ z.held = x.held
        /\ z.watermark = x.watermark
        /\ z.readOnly = x.readOnly /\ z.wrote = x.wrote
        /\ Pending(x, conn) = {None} /\ Pending(z, conn') = {None}
        /\ conn' = conn /\ direct' = direct /\ lsn' = lsn
        /\ written' = written /\ replayed' = replayed
    BY <1>7 DEF HintEffect
  <2>. HIDE DEF x, z, d, w
  <2>2. Going(z) = Going(x)
    BY <2>1 DEF Going
  <2>3. Positioned(z, conn', d, w, lsn, replayed)
    BY <1>2, <2>1, <2>2 DEF Positioned
  <2>. QED  BY <2>1, <2>3 DEF z, d, w
<1>. QED  BY <1>4, <1>5, <1>6, <1>7

\* Nothing is written at first.
LEMMA PositionInit == Init => PositionInv
<1>. SUFFICES ASSUME Init PROVE PositionInv
  OBVIOUS
<1>1. ASSUME NEW s \in Sessions
      PROVE  Positioned(ses[s], conn, direct[s], written[s], lsn, replayed)
  <2>. DEFINE x == ses[s]
  <2>1. /\ x.pc = "idle" /\ x.conn = NoConn /\ x.held = NoTarget
        /\ ~x.readOnly /\ x.parsed = None /\ x.watermark = 0
    BY DEF Init, NewSession
  <2>2. written[s] = 0 /\ lsn = 0
    BY DEF Init
  <2>. HIDE DEF x
  <2>3. InHand(x, conn) = None /\ Going(x) = NoTarget
    BY <2>1 DEF InHand, Going
  <2>4. Pending(x, conn) = {None}
    BY <2>1, <2>3 DEF Pending
  <2>5. Positioned(x, conn, direct[s], written[s], lsn, replayed)
    BY <2>1, <2>2, <2>3, <2>4, NoneIsNothing, PrimaryIsNoReplica, SMT DEF Positioned
  <2>. QED  BY <2>5 DEF x
<1>2. \A r \in Replicas : seen[r] <= replayed[r]
  BY SMT DEF Init, Unheard
<1>3. \A c \in Conns : Uncommitted(conn[c])
  BY DEF Init, Closed, Uncommitted
<1>. QED  BY <1>1, <1>2, <1>3 DEF PositionInv

\* Every step keeps every session positioned.
LEMMA PositionStep ==
    ASSUME WritesAreSeen, RelayInv, TrackInv, TargetInv, PositionInv, [Next]_vars
    PROVE  PositionInv'
<1>1. \A s \in Sessions :
        /\ Positioned(ses[s], conn, direct[s], written[s], lsn, replayed)
        /\ InStep(s, ses[s], conn)
  BY DEF PositionInv, TrackInv, Tracks
<1>2. /\ \A r \in Replicas : seen[r] <= replayed[r]
      /\ \A c \in Conns : Uncommitted(conn[c]) /\ conn[c] \in Backends
  BY PositionTypes DEF PositionInv
<1>3. RelayInv' /\ StepEffect
  BY <1>1, RelayInvStep, StepHasEffect
<1>4. /\ lsn \in Nat /\ Uncommitted(Closed)
      /\ \A r \in Replicas : replayed[r] \in Nat /\ seen[r] \in Int
  BY PositionTypes DEF Uncommitted, Closed
<1>. DEFINE Good(t) ==
              Positioned(ses'[t], conn', direct'[t], written'[t], lsn', replayed')
            Kept == /\ \A r \in Replicas : seen'[r] <= replayed'[r]
                    /\ \A c \in Conns : Uncommitted(conn'[c])
<1>. SUFFICES (\A t \in Sessions : Good(t)) /\ Kept
  BY DEF PositionInv
<1>5. ASSUME NEW s \in Sessions, \A t \in Sessions \ {s} : Apart(t), Good(s),
             lsn' = lsn \/ lsn' = lsn + 1, replayed' = replayed, seen' = seen,
             \A c \in Conns : Uncommitted(conn'[c])
      PROVE  (\A t \in Sessions : Good(t)) /\ Kept
  <2>. HIDE DEF Good
  <2>0. lsn' >= lsn /\ \A r \in Replicas : replayed'[r] >= replayed[r]
    BY <1>4, <1>5, SMTT(30)
  <2>1. \A t \in Sessions \ {s} : Good(t)
    BY <1>1, <1>3, <1>5, <2>0, ApartPositioned DEF Good
  <2>2. \A r \in Replicas : seen'[r] <= replayed'[r]
    BY <1>2, <1>5
  <2>. QED  BY <1>5, <2>1, <2>2
<1>6. CASE AmbientEffect
  <2>1. /\ \A r \in Replicas :
              /\ replayed'[r] >= replayed[r]
              /\ seen'[r] \in {seen[r], replayed[r], Unheard}
        /\ lsn' = lsn /\ \A t \in Sessions : Apart(t)
    BY <1>6 DEF AmbientEffect
  <2>2. \A t \in Sessions : Good(t)
    BY <1>1, <1>3, <1>4, <2>1, ApartPositioned, SMT
  <2>3. \A r \in Replicas : replayed'[r] \in Nat
    BY <1>3, RelayAssumption, SMT DEF RelayInv, RelayTypeOK
  <2>4. \A r \in Replicas : seen'[r] <= replayed'[r]
    BY <1>2, <1>4, <2>1, <2>3, SMT DEF Unheard
  <2>5. \A c \in Conns : Uncommitted(conn'[c])
    <3>. SUFFICES ASSUME NEW c \in Conns PROVE Uncommitted(conn'[c])
      OBVIOUS
    <3>1. \/ conn'[c] = conn[c] \/ conn'[c] = Closed
          \/ conn'[c] = [conn[c] EXCEPT !.unread = "socket"]
      BY <1>6 DEF AmbientEffect
    <3>. QED  BY <1>2, <1>4, <3>1, SMT DEF Uncommitted, Backends
  <2>. QED  BY <2>2, <2>4, <2>5
<1>7. ASSUME NEW s \in Sessions, NEW f \in Frames, SendEffect(s, f, Aim(ses[s], f))
      PROVE  (\A t \in Sessions : Good(t)) /\ Kept
  <2>1. Good(s)
    BY <1>7, SendPositioned
  <2>2. /\ \A c \in Conns : c # ses[s].conn => conn'[c] = conn[c]
        /\ ses[s].conn # NoConn => SameServer(conn[ses[s].conn], conn'[ses[s].conn])
        /\ \A t \in Sessions \ {s} : Apart(t)
        /\ lsn' = lsn /\ replayed' = replayed /\ seen' = seen
    BY <1>7 DEF SendEffect
  <2>3. \A c \in Conns : Uncommitted(conn'[c])
    BY <1>2, <2>2, RelayAssumption, SMT DEF Uncommitted, SameServer
  <2>. QED  BY <1>5, <2>1, <2>2, <2>3
<1>8. ASSUME NEW s \in Sessions, NEW c \in Conns, NEW cn \in Backends,
             InstallEffect(s, c, cn)
      PROVE  (\A t \in Sessions : Good(t)) /\ Kept
  <2>1. Good(s) /\ ~conn'[c].dirty
    BY <1>8, InstallPositioned
  <2>2. /\ \A b \in Conns \ {c} : conn'[b] = conn[b] \/ conn'[b] = Closed
        /\ \A t \in Sessions \ {s} : Apart(t)
        /\ lsn' = lsn /\ replayed' = replayed /\ seen' = seen
    BY <1>8 DEF InstallEffect
  <2>3. \A b \in Conns : Uncommitted(conn'[b])
    BY <1>2, <1>4, <2>1, <2>2 DEF Uncommitted
  <2>. QED  BY <1>5, <2>1, <2>2, <2>3
<1>9. ASSUME NEW s \in Sessions, NEW ok \in BOOLEAN, AnswerEffect(s, ok)
      PROVE  (\A t \in Sessions : Good(t)) /\ Kept
  <2>1. Good(s) /\ Uncommitted(conn'[ses[s].conn])
    BY <1>9, AnswerPositioned
  <2>2. /\ \A c \in Conns : c # ses[s].conn => conn'[c] = conn[c]
        /\ \A t \in Sessions \ {s} : Apart(t)
        /\ lsn' = lsn \/ lsn' = lsn + 1
        /\ replayed' = replayed /\ seen' = seen
    BY <1>9 DEF AnswerEffect
  <2>3. \A c \in Conns : Uncommitted(conn'[c])
    BY <1>2, <2>1, <2>2
  <2>. QED  BY <1>5, <2>1, <2>2, <2>3
<1>10. ASSUME NEW s \in Sessions,
              ReleaseEffect(s) \/ DropEffect(s) \/ EndEffect(s) \/ HintEffect(s)
       PROVE  (\A t \in Sessions : Good(t)) /\ Kept
  <2>1. Good(s)
    BY <1>10, QuietPositioned
  <2>2. /\ \A t \in Sessions \ {s} : Apart(t)
        /\ lsn' = lsn /\ replayed' = replayed /\ seen' = seen
    <3>1. CASE ReleaseEffect(s)  BY <3>1 DEF ReleaseEffect
    <3>2. CASE DropEffect(s)  BY <3>2 DEF DropEffect
    <3>3. CASE EndEffect(s)  BY <3>3 DEF EndEffect
    <3>4. CASE HintEffect(s)  BY <3>4 DEF HintEffect
    <3>. QED  BY <1>10, <3>1, <3>2, <3>3, <3>4
  <2>3. ASSUME NEW c \in Conns PROVE Uncommitted(conn'[c])
    <3>1. \/ conn'[c] = conn[c] \/ conn'[c] = Closed
          \/ conn'[c] = [conn[c] EXCEPT !.by = "idle"]
          \/ conn'[c] = [conn[c] EXCEPT !.unread = "socket"]
          \/ conn'[c] = [conn[c] EXCEPT !.unread = "buffer"]
      <4>1. CASE ReleaseEffect(s)  BY <4>1 DEF ReleaseEffect
      <4>2. CASE DropEffect(s)  BY <4>2 DEF DropEffect
      <4>3. CASE EndEffect(s)  BY <4>3 DEF EndEffect
      <4>4. CASE HintEffect(s)  BY <4>4 DEF HintEffect
      <4>. QED  BY <1>10, <4>1, <4>2, <4>3, <4>4
    <3>. QED  BY <1>2, <1>4, <3>1, SMT DEF Uncommitted, Backends
  <2>. QED  BY <1>5, <2>1, <2>2, <2>3
<1>. HIDE DEF Good, Kept
<1>. QED  BY <1>3, <1>6, <1>7, <1>8, <1>9, <1>10 DEF StepEffect, ActsOn

\* A session that has written is served by a replica only once that replica
\* has replayed the write, whatever the probe, the poller and the other
\* sessions do.
THEOREM ReadsFollowWrites ==
    ASSUME PlainTransactions, WritesAreSeen PROVE Spec => []ReadYourWrites
<1>1. Init => TrackInv /\ TargetInv /\ PositionInv
  BY TrackInit, TargetInit, PositionInit
<1>2. RelayInv /\ TrackInv /\ TargetInv /\ PositionInv /\ [Next]_vars
        => TrackInv' /\ TargetInv' /\ PositionInv'
  BY TrackStep, TargetStep, PositionStep
<1>3. PositionInv => ReadYourWrites
  <2>. SUFFICES ASSUME PositionInv, NEW s \in Sessions, Serving(s),
                       ses[s].held \in Replicas
                PROVE  replayed[ses[s].held] >= written[s]
    BY DEF ReadYourWrites
  <2>. QED  BY DEF PositionInv, Positioned, Going, Serving
<1>. QED  BY <1>1, <1>2, <1>3, RelayInvariant, PTL DEF Spec

-----------------------------------------------------------------------------
(* Answers.                                                                *)

\* A client that asks for a replica does not write.
HintsOnlyToRead ==
    \A s \in Sessions :
        Op("route_replica") \in Queried[s] => \A q \in SentBy(s) : q.op # "write"

\* The connection session x reads from has nothing unread, and x never asks
\* a replica for the position of a write.
Quiet(s, x, cs) ==
    /\ x.conn # NoConn /\ x.pc # "returning" => cs[x.conn].unread = "no"
    /\ x.wrote => /\ Going(x) \notin Replicas
                  /\ Op("route_replica") \notin Queried[s]
    /\ x.fixed \in Replicas => x.readOnly \/ x.hint = "replica"
    /\ x.hint = "replica" => Op("route_replica") \in Queried[s]
    /\ x.pc = "releasing" => x.held # NoTarget

\* The inductive invariant: no session has anything foreign to read.
QuietInv ==
    /\ \A s \in Sessions : Quiet(s, ses[s], conn)
    /\ \A c \in Conns : conn[c].unread # "buffer"

\* A session nobody touched has nothing foreign to read.
LEMMA ApartQuiet ==
    ASSUME NEW t \in Sessions, Apart(t), Quiet(t, ses[t], conn)
    PROVE  Quiet(t, ses'[t], conn')
<1>1. /\ ses'[t] = ses[t]
      /\ ses[t].conn # NoConn => conn'[ses[t].conn] = conn[ses[t].conn]
  BY DEF Apart
<1>. QED  BY <1>1 DEF Quiet

\* A frame is sent on a connection with nothing left to read.
LEMMA SendQuiet ==
    ASSUME RelayInv, TrackInv, QuietInv, HintsOnlyToRead, NEW s \in Sessions,
           NEW f \in Frames, NEW a, SendEffect(s, f, a)
    PROVE  Quiet(s, ses'[s], conn')
<1>. DEFINE x == ses[s]
            z == ses'[s]
            d == direct[s]
            q == f.sql
<1>1. Follows(x, conn, d) /\ Routed(s, x, conn, d)
  BY DEF TrackInv, Tracks
<1>2. Quiet(s, x, conn)
  BY DEF QuietInv
<1>3. /\ x.pc = "idle" /\ a.target \in Targets /\ Keeps(x, a)
      /\ \/ /\ f.kind \in {"Query", "Parse"} /\ Decided(x, f.sql, a)
            /\ f.sql \in SentBy(s)
         \/ f.kind \in {"Execute", "Sync"} /\ PassedOn(x, a)
      /\ SameAim(a, z) /\ Going(z) = a.target
      /\ z.pc \in {"idle", "sent", "acquiring"}
      /\ x.conn # NoConn => SameServer(conn[x.conn], conn'[x.conn])
  BY DEF SendEffect
<1>. HIDE DEF x, z, d
<1>4. /\ z.conn = x.conn /\ z.wrote = a.wrote /\ z.readOnly = a.readOnly
      /\ z.fixed = a.fixed /\ z.hint = x.hint
  BY <1>3 DEF SameAim, Keeps
<1>5. x.conn # NoConn => conn'[x.conn].unread = "no"
  BY <1>2, <1>3 DEF Quiet, SameServer
<1>6. /\ a.wrote => /\ a.target \notin Replicas
                    /\ Op("route_replica") \notin Queried[s]
      /\ a.fixed \in Replicas => a.readOnly \/ x.hint = "replica"
  <2>1. CASE f.kind \in {"Query", "Parse"}
    <3>1. Decided(x, q, a) /\ q \in SentBy(s)
      BY <1>3, <2>1
    <3>2. q.op = "write" => Op("route_replica") \notin Queried[s]
      BY <3>1 DEF HintsOnlyToRead
    <3>3. CASE x.fixed # NoTarget
      <4>1. /\ a.target = x.fixed /\ a.fixed = x.fixed /\ a.readOnly = x.readOnly
            /\ a.wrote <=> x.wrote \/ (~x.readOnly /\ q.op = "write")
        BY <3>1, <3>3 DEF Decided
      <4>2. a.target = Going(x)
        BY <1>1, <3>3, <4>1 DEF Routed
      <4>. QED  BY <1>2, <3>2, <4>1, <4>2 DEF Quiet
    <3>4. CASE x.fixed = NoTarget
      <4>1. /\ a.wrote => x.wrote \/ q.op = "write"
            /\ a.fixed \in {a.target, NoTarget}
            /\ a.fixed # NoTarget => x.tx = "T" \/ BeginsTransaction(q)
            /\ a.target # Primary =>
                 ~a.wrote /\ (x.hint = "replica" \/ a.readOnly \/ q.op = "read")
        BY <3>1, <3>4 DEF Decided
      <4>2. x.tx # "T"
        BY <1>1, <3>4 DEF Follows, Status, Routed
      <4>3. q.op = "read" => ~BeginsTransaction(q)
        BY DEF BeginsTransaction
      <4>. QED  BY <1>2, <3>2, <4>1, <4>2, <4>3, PrimaryIsNoReplica DEF Quiet
    <3>. QED  BY <3>3, <3>4
  <2>2. CASE f.kind \in {"Execute", "Sync"}
    <3>1. /\ a.target = Primary /\ a.fixed = x.fixed
          /\ a.readOnly = x.readOnly /\ a.wrote = x.wrote
      BY <1>3, <2>2 DEF PassedOn
    <3>. QED  BY <1>2, <3>1, PrimaryIsNoReplica DEF Quiet
  <2>. QED  BY <1>3, <2>1, <2>2
<1>7. Quiet(s, z, conn')
  BY <1>2, <1>3, <1>4, <1>5, <1>6 DEF Quiet
<1>. QED  BY <1>7 DEF z

\* A connection installed is one with nothing left to read.
LEMMA InstallQuiet ==
    ASSUME RelayInv, QuietInv, NEW s \in Sessions,
           NEW c \in Conns, NEW cn \in Backends, InstallEffect(s, c, cn)
    PROVE  Quiet(s, ses'[s], conn') /\ conn'[c].unread = "no"
<1>. DEFINE x == ses[s]
            z == ses'[s]
            r == Resume([cn EXCEPT !.by = s], x)
            y == [x EXCEPT !.held = x.target, !.conn = c]
<1>1. Quiet(s, x, conn) /\ conn[c].unread # "buffer" /\ x \in SessionRecords
  BY HeldFacts DEF QuietInv
<1>2. /\ x.pc = "acquiring"
      /\ (cn = conn[c] /\ Fit(cn)) \/ cn = Opened(s, x.target)
      /\ SameAim(y, z)
      /\ z.conn = c /\ Going(z) = x.target /\ z.pc \in {"idle", "sent"}
      /\ SameServer(r, conn'[c])
  BY DEF InstallEffect
<1>3. /\ y.wrote = x.wrote /\ y.readOnly = x.readOnly /\ y.fixed = x.fixed
      /\ y.hint = x.hint
  BY <1>1 DEF SessionRecords
<1>4. r.unread = cn.unread
  BY <1>1, ResumeFacts, SMT
<1>5. cn.unread = "no"
  BY <1>1, <1>2 DEF Fit, Opened, Closed, Backends
<1>. HIDE DEF x, z, r, y
<1>6. conn'[c].unread = "no" /\ Going(x) = x.target
  BY <1>2, <1>4, <1>5 DEF SameServer, Going
<1>7. /\ z.wrote = x.wrote /\ z.readOnly = x.readOnly /\ z.fixed = x.fixed
      /\ z.hint = x.hint
  BY <1>2, <1>3 DEF SameAim
<1>8. Quiet(s, z, conn')
  BY <1>1, <1>2, <1>6, <1>7 DEF Quiet
<1>. QED  BY <1>6, <1>8 DEF z

\* An answer is read to its end.
LEMMA AnswerQuiet ==
    ASSUME RelayInv, QuietInv, NEW s \in Sessions,
           NEW ok \in BOOLEAN, AnswerEffect(s, ok)
    PROVE  Quiet(s, ses'[s], conn') /\ conn'[ses[s].conn].unread = "no"
<1>. DEFINE x == ses[s]
            z == ses'[s]
            cn == conn[x.conn]
            q == cn.todo
            dn == conn'[x.conn]
<1>1. Quiet(s, x, conn)
  BY DEF QuietInv
<1>2. /\ x.pc = "sent" /\ x.conn # NoConn
      /\ z.conn = x.conn /\ z.held = x.held /\ z.hint = x.hint
      /\ z.wrote = x.wrote
      /\ z.fixed = IF dn.tx = "I" THEN NoTarget ELSE x.fixed
      /\ z.readOnly <=> x.readOnly /\ dn.tx # "I"
      /\ z.pc \in {"releasing", "idle"}
      /\ z.pc = "releasing" => x.held # NoTarget
      /\ AfterRun(cn, s, q, ok, dn)
  BY DEF AnswerEffect
<1>. HIDE DEF x, z, q, dn
<1>3. dn.unread = "no"
  BY <1>1, <1>2 DEF Quiet, AfterRun
<1>4. Going(x) = x.held /\ Going(z) = x.held
  BY <1>2 DEF Going
<1>5. Quiet(s, z, conn')
  BY <1>1, <1>2, <1>3, <1>4, PrimaryIsNoReplica DEF Quiet, dn
<1>. QED  BY <1>3, <1>5 DEF z, dn, x

\* The probe of a written session goes to the primary, and is read to its end.
LEMMA ReleaseQuiet ==
    ASSUME RelayInv, TargetInv, QuietInv, NEW s \in Sessions, ReleaseEffect(s)
    PROVE  Quiet(s, ses'[s], conn') /\ conn'[ses[s].conn].unread # "buffer"
<1>. DEFINE x == ses[s]
            z == ses'[s]
            cn == conn[x.conn]
            dn == conn'[x.conn]
<1>1. Quiet(s, x, conn) /\ OnTarget(x, conn)
  BY DEF QuietInv, TargetInv
<1>2. x.held \in Targets \union {NoTarget}
  BY HeldFacts DEF SessionRecords
<1>3. /\ x.pc = "releasing" /\ x.conn # NoConn /\ cn \in Backends
      /\ z.pc = "returning" /\ z.held = NoTarget
      /\ z.hint = x.hint /\ z.fixed = x.fixed /\ z.readOnly = x.readOnly
      /\ z.wrote = x.wrote \/ ~z.wrote
      /\ dn = cn \/ dn = [cn EXCEPT !.unread = "socket"]
           \/ /\ dn = [cn EXCEPT !.unread = "buffer"]
              /\ x.wrote /\ cn.to # Primary
  BY DEF ReleaseEffect
<1>4. x.wrote => cn.to = Primary
  BY <1>1, <1>2, <1>3 DEF Quiet, OnTarget, Going, Targets
<1>5. dn.unread # "buffer"
  BY <1>1, <1>3, <1>4 DEF Quiet, Backends
<1>. HIDE DEF x, z, cn, dn
<1>6. Going(z) = NoTarget
  BY <1>3 DEF Going
<1>7. Quiet(s, z, conn')
  BY <1>1, <1>3, <1>6, PrimaryIsNoReplica DEF Quiet
<1>. QED  BY <1>5, <1>7 DEF z, dn, x

\* A session that put its connection back, ended or hinted reads nothing.
LEMMA OverQuiet ==
    ASSUME RelayInv, QuietInv, NEW s \in Sessions,
           DropEffect(s) \/ EndEffect(s) \/ HintEffect(s)
    PROVE  Quiet(s, ses'[s], conn')
<1>. DEFINE x == ses[s]
            z == ses'[s]
<1>1. Quiet(s, x, conn)
  BY DEF QuietInv
<1>2. CASE DropEffect(s)
  <2>1. /\ z.pc = "idle" /\ z.conn = NoConn /\ z.held = NoTarget
        /\ z.hint = x.hint /\ z.fixed = x.fixed
        /\ z.readOnly = x.readOnly /\ z.wrote = x.wrote
    BY <1>2 DEF DropEffect
  <2>. QED  BY <1>1, <2>1, PrimaryIsNoReplica DEF Quiet, Going
<1>3. CASE EndEffect(s)
  <2>1. /\ z.pc = "gone" /\ z.conn = NoConn /\ ~z.wrote /\ z.fixed = NoTarget
        /\ z.hint = "auto"
    BY <1>3 DEF EndEffect
  <2>. QED  BY <2>1, PrimaryIsNoReplica DEF Quiet
<1>4. CASE HintEffect(s)
  <2>1. /\ x.pc = "idle" /\ z.pc = "idle" /\ Op("route_replica") \in Queried[s]
        /\ z.conn = x.conn /\ z.fixed = x.fixed /\ z.wrote = x.wrote
        /\ z.hint = "replica" /\ conn' = conn
    BY <1>4 DEF HintEffect
  <2>. QED  BY <1>1, <2>1 DEF Quiet
<1>. QED  BY <1>2, <1>3, <1>4

\* No connection is held at first.
LEMMA QuietInit == Init => QuietInv
<1>. SUFFICES ASSUME Init PROVE QuietInv
  OBVIOUS
<1>1. ASSUME NEW s \in Sessions PROVE Quiet(s, ses[s], conn)
  <2>1. /\ ses[s].pc = "idle" /\ ses[s].conn = NoConn /\ ~ses[s].wrote
        /\ ses[s].fixed = NoTarget /\ ses[s].hint = "auto"
    BY DEF Init, NewSession
  <2>. QED  BY <2>1, PrimaryIsNoReplica DEF Quiet
<1>2. \A c \in Conns : conn[c].unread # "buffer"
  BY DEF Init, Closed
<1>. QED  BY <1>1, <1>2 DEF QuietInv

\* Every step keeps the connections in use quiet.
LEMMA QuietStep ==
    ASSUME HintsOnlyToRead, RelayInv, TrackInv, TargetInv, QuietInv,
           [Next]_vars
    PROVE  QuietInv'
<1>1. \A s \in Sessions : Quiet(s, ses[s], conn) /\ InStep(s, ses[s], conn)
  BY DEF QuietInv, TrackInv, Tracks
<1>2. \A c \in Conns : conn[c].unread # "buffer" /\ conn[c] \in Backends
  BY PositionTypes DEF QuietInv
<1>3. StepEffect /\ Closed.unread = "no"
  BY <1>1, StepHasEffect DEF Closed
<1>. DEFINE Kept == /\ \A t \in Sessions : Quiet(t, ses'[t], conn')
                    /\ \A c \in Conns : conn'[c].unread # "buffer"
<1>. SUFFICES Kept
  BY DEF QuietInv
<1>4. ASSUME NEW s \in Sessions, \A t \in Sessions \ {s} : Apart(t),
             Quiet(s, ses'[s], conn'),
             \A c \in Conns : conn'[c].unread # "buffer"
      PROVE  Kept
  BY <1>1, <1>4, ApartQuiet
<1>5. CASE AmbientEffect
  <2>1. \A t \in Sessions : Quiet(t, ses'[t], conn')
    BY <1>1, <1>5, ApartQuiet DEF AmbientEffect
  <2>2. ASSUME NEW c \in Conns PROVE conn'[c].unread # "buffer"
    <3>1. \/ conn'[c] = conn[c] \/ conn'[c] = Closed
          \/ conn'[c] = [conn[c] EXCEPT !.unread = "socket"]
      BY <1>5 DEF AmbientEffect
    <3>. QED  BY <1>2, <1>3, <3>1 DEF Backends
  <2>. QED  BY <2>1, <2>2
<1>6. ASSUME NEW s \in Sessions, NEW f \in Frames, SendEffect(s, f, Aim(ses[s], f))
      PROVE  Kept
  <2>1. Quiet(s, ses'[s], conn')
    BY <1>6, SendQuiet
  <2>2. /\ \A c \in Conns : c # ses[s].conn => conn'[c] = conn[c]
        /\ ses[s].conn # NoConn => SameServer(conn[ses[s].conn], conn'[ses[s].conn])
        /\ \A t \in Sessions \ {s} : Apart(t)
    BY <1>6 DEF SendEffect
  <2>3. \A c \in Conns : conn'[c].unread # "buffer"
    BY <1>2, <2>2, RelayAssumption DEF SameServer
  <2>. QED  BY <1>4, <2>1, <2>2, <2>3
<1>7. ASSUME NEW s \in Sessions, NEW c \in Conns, NEW cn \in Backends,
             InstallEffect(s, c, cn)
      PROVE  Kept
  <2>1. Quiet(s, ses'[s], conn') /\ conn'[c].unread = "no"
    BY <1>7, InstallQuiet
  <2>2. /\ \A b \in Conns \ {c} : conn'[b] = conn[b] \/ conn'[b] = Closed
        /\ \A t \in Sessions \ {s} : Apart(t)
    BY <1>7 DEF InstallEffect
  <2>3. \A b \in Conns : conn'[b].unread # "buffer"
    BY <1>2, <1>3, <2>1, <2>2
  <2>. QED  BY <1>4, <2>1, <2>2, <2>3
<1>8. ASSUME NEW s \in Sessions, NEW ok \in BOOLEAN, AnswerEffect(s, ok)
      PROVE  Kept
  <2>1. Quiet(s, ses'[s], conn') /\ conn'[ses[s].conn].unread = "no"
    BY <1>8, AnswerQuiet
  <2>2. /\ \A c \in Conns : c # ses[s].conn => conn'[c] = conn[c]
        /\ \A t \in Sessions \ {s} : Apart(t)
    BY <1>8 DEF AnswerEffect
  <2>3. \A c \in Conns : conn'[c].unread # "buffer"
    BY <1>2, <2>1, <2>2
  <2>. QED  BY <1>4, <2>1, <2>2, <2>3
<1>9. ASSUME NEW s \in Sessions, ReleaseEffect(s) PROVE Kept
  <2>1. Quiet(s, ses'[s], conn') /\ conn'[ses[s].conn].unread # "buffer"
    BY <1>9, ReleaseQuiet
  <2>2. /\ \A c \in Conns : c # ses[s].conn => conn'[c] = conn[c]
        /\ \A t \in Sessions \ {s} : Apart(t)
    BY <1>9 DEF ReleaseEffect
  <2>3. \A c \in Conns : conn'[c].unread # "buffer"
    BY <1>2, <2>1, <2>2
  <2>. QED  BY <1>4, <2>1, <2>2, <2>3
<1>10. ASSUME NEW s \in Sessions, DropEffect(s) \/ EndEffect(s) \/ HintEffect(s)
       PROVE  Kept
  <2>1. Quiet(s, ses'[s], conn')
    BY <1>10, OverQuiet
  <2>2. \A t \in Sessions \ {s} : Apart(t)
    BY <1>10 DEF DropEffect, EndEffect, HintEffect
  <2>3. ASSUME NEW c \in Conns PROVE conn'[c].unread # "buffer"
    <3>1. \/ conn'[c] = conn[c] \/ conn'[c] = Closed
          \/ conn'[c] = [conn[c] EXCEPT !.by = "idle"]
      <4>1. CASE DropEffect(s)  BY <4>1 DEF DropEffect
      <4>2. CASE EndEffect(s)  BY <4>2 DEF EndEffect
      <4>3. CASE HintEffect(s)  BY <4>3 DEF HintEffect
      <4>. QED  BY <1>10, <4>1, <4>2, <4>3
    <3>. QED  BY <1>2, <1>3, <3>1 DEF Backends
  <2>. QED  BY <1>4, <2>1, <2>2, <2>3
<1>. HIDE DEF Kept
<1>. QED  BY <1>3, <1>5, <1>6, <1>7, <1>8, <1>9, <1>10 DEF StepEffect, ActsOn

\* What a session reads from a connection is the answer to its own frame.
THEOREM AnswersAreAlwaysTheirOwn ==
    ASSUME PlainTransactions, HintsOnlyToRead
    PROVE  Spec => []AnswersAreTheirOwn
<1>1. Init => TrackInv /\ TargetInv /\ QuietInv
  BY TrackInit, TargetInit, QuietInit
<1>2. RelayInv /\ TrackInv /\ TargetInv /\ QuietInv /\ [Next]_vars
        => TrackInv' /\ TargetInv' /\ QuietInv'
  BY TrackStep, TargetStep, QuietStep
<1>3. RelayInv /\ QuietInv => AnswersAreTheirOwn
  <2>. SUFFICES ASSUME RelayInv, QuietInv, NEW s \in Sessions, Serving(s)
                PROVE  conn[ses[s].conn].unread = "no"
    BY DEF AnswersAreTheirOwn
  <2>1. ses[s].conn # NoConn
    BY HeldFacts DEF Serving
  <2>. QED  BY <2>1 DEF QuietInv, Quiet, Serving
<1>. QED  BY <1>1, <1>2, <1>3, RelayInvariant, PTL DEF Spec
=============================================================================
