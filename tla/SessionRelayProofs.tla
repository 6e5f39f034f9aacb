------------------------- MODULE SessionRelayProofs -------------------------
(***************************************************************************)
(* Theorems about SessionRelay, for any number of sessions, connections    *)
(* and replicas, and for any statements the clients may send.              *)
(***************************************************************************)
EXTENDS SessionRelay, WellFoundedInduction, TLAPS

\* First-order leaves go to Zenon, the others to the SMT solver.
USE ZenonT(3), SMTT(20)

-----------------------------------------------------------------------------
(* The operators.                                                          *)

\* FirstOf names a member: sets of naturals have a least element.
LEMMA FirstOfMember ==
    ASSUME NEW S \in SUBSET Nat, S # {}
    PROVE  FirstOf(S) \in S
<1>1. PICK i \in S : \A j \in S : ~ (<<j, i>> \in OpToRel(<, Nat))
  BY NatLessThanWellFounded, WFMin
<1>2. \A j \in S : ~ (j < i)
  BY <1>1 DEF OpToRel
<1>3. \A j \in S : i <= j
  BY <1>2, SMT
<1>. QED  BY <1>3 DEF FirstOf

\* The rule names the primary or a replica of the grant.
LEMMA DecideIsTarget ==
    ASSUME NEW x, NEW class
    PROVE  Decide(x, class) \in Targets
<1>. DEFINE fit == {r \in Replicas : CanServe(r, x.watermark)}
<1>1. CASE fit = {}
  BY <1>1 DEF Decide, Targets
<1>2. CASE fit # {}
  <2>1. fit \in SUBSET Nat
    BY RelayAssumption
  <2>2. FirstOf(fit) \in Replicas
    BY <1>2, <2>1, FirstOfMember
  <2>. QED  BY <2>2 DEF Decide, Targets
<1>. QED  BY <1>1, <1>2

\* What the router leaves alone, and that it names a target.
LEMMA RouteKeeps ==
    ASSUME NEW x \in SessionRecords, NEW q \in AllStatements
    PROVE  /\ Route(x, q) \in SessionRecords
           /\ Route(x, q).target \in Targets
           /\ Route(x, q).conn = x.conn
           /\ Route(x, q).held = x.held
           /\ Route(x, q).pc = x.pc
           /\ Route(x, q).pinned = x.pinned
           /\ Route(x, q).parsed = x.parsed
<1>1. CASE x.fixed # NoTarget
  <2>. DEFINE wrote == x.wrote \/ (~x.readOnly /\ Class(q) = "write")
  <2>1. wrote \in BOOLEAN
    OBVIOUS
  <2>2. Route(x, q) = [x EXCEPT !.wrote = wrote, !.target = x.fixed]
    BY <1>1 DEF Route
  <2>. HIDE DEF wrote
  <2>3. Route(x, q) \in SessionRecords
    BY <1>1, <2>1, <2>2 DEF SessionRecords
  <2>4. /\ Route(x, q).target \in Targets
        /\ Route(x, q).conn = x.conn /\ Route(x, q).held = x.held
        /\ Route(x, q).pc = x.pc /\ Route(x, q).pinned = x.pinned
        /\ Route(x, q).parsed = x.parsed
    BY <1>1, <2>2 DEF SessionRecords
  <2>. QED  BY <2>3, <2>4
<1>2. CASE x.fixed = NoTarget
  <2>. DEFINE readOnly == x.readOnly \/ BeginsReadOnly(q)
              class == IF readOnly THEN "read" ELSE Class(q)
              target == Decide(x, class)
  <2>1. target \in Targets
    BY DecideIsTarget
  <2>2. Route(x, q) = [x EXCEPT !.readOnly = readOnly,
                                !.wrote = @ \/ class = "write",
                                !.target = target,
                                !.fixed = IF x.tx = "T" \/ BeginsTransaction(q)
                                          THEN target ELSE NoTarget]
    BY <1>2 DEF Route
  <2>3. readOnly \in BOOLEAN
    BY DEF SessionRecords, BeginsReadOnly
  <2>. DEFINE wrote == x.wrote \/ class = "write"
              fixed == IF x.tx = "T" \/ BeginsTransaction(q)
                       THEN target ELSE NoTarget
  <2>4. wrote \in BOOLEAN /\ fixed \in Targets \union {NoTarget}
    BY <2>1
  <2>. HIDE DEF readOnly, class, target, wrote, fixed
  <2>5. Route(x, q) = [x EXCEPT !.readOnly = readOnly, !.wrote = wrote,
                                !.target = target, !.fixed = fixed]
    BY <2>2 DEF wrote, fixed
  <2>6. Route(x, q) \in SessionRecords
    BY <2>1, <2>3, <2>4, <2>5, ZenonT(30) DEF SessionRecords
  <2>7. /\ Route(x, q).target = target
        /\ Route(x, q).conn = x.conn /\ Route(x, q).held = x.held
        /\ Route(x, q).pc = x.pc /\ Route(x, q).pinned = x.pinned
        /\ Route(x, q).parsed = x.parsed
    BY <2>5 DEF SessionRecords
  <2>. QED  BY <2>1, <2>6, <2>7
<1>. QED  BY <1>1, <1>2

\* A frame decided: the connection and the place in the loop stay, a target
\* is named, a pin is never lost, and a statement that pins has pinned.
LEMMA OnClientKeeps ==
    ASSUME NEW x \in SessionRecords, NEW f \in Frames
    PROVE  /\ OnClient(x, f) \in SessionRecords
           /\ OnClient(x, f).target \in Targets
           /\ OnClient(x, f).conn = x.conn
           /\ OnClient(x, f).held = x.held
           /\ OnClient(x, f).pc = x.pc
           /\ OnClient(x, f).parsed = x.parsed
           /\ x.pinned => OnClient(x, f).pinned
           /\ f.kind \in {"Query", "Parse"} /\ Pins(f.sql)
                => OnClient(x, f).pinned
<1>0. f.sql \in AllStatements
  BY DEF Frames
<1>1. CASE f.kind \in {"Query", "Parse"}
  <2>. DEFINE inSequence == x.inSequence \/ f.kind = "Parse"
              pinned == x.pinned \/ Pins(f.sql)
              params == Recorded(x.params, f.sql)
              y == [x EXCEPT !.inSequence = inSequence, !.pinned = pinned,
                             !.params = params]
  <2>1. inSequence \in BOOLEAN /\ pinned \in BOOLEAN
    OBVIOUS
  <2>2. params \in Vals \union {Default}
    BY <1>0 DEF Recorded, AllStatements, SessionRecords
  <2>3. OnClient(x, f) = Route(y, f.sql)
    BY <1>1 DEF OnClient, OnStatement
  <2>4. (x.pinned => pinned) /\ (Pins(f.sql) => pinned)
    OBVIOUS
  <2>. HIDE DEF inSequence, pinned, params
  <2>5. y \in SessionRecords
    BY <2>1, <2>2 DEF SessionRecords
  <2>6. /\ y.conn = x.conn /\ y.held = x.held /\ y.pc = x.pc
        /\ y.parsed = x.parsed /\ y.pinned = pinned
    BY DEF SessionRecords
  <2>. HIDE DEF y
  <2>. QED  BY <1>0, <2>3, <2>4, <2>5, <2>6, RouteKeeps, SMT
<1>2. CASE f.kind \notin {"Query", "Parse"}
  <2>. DEFINE inSequence == x.inSequence \/ f.kind # "Sync"
  <2>1. inSequence \in BOOLEAN
    OBVIOUS
  <2>2. OnClient(x, f) = [x EXCEPT !.inSequence = inSequence,
                                   !.target = Primary]
    BY <1>2 DEF OnClient, ForwardWithoutRouting
  <2>3. Primary \in Targets
    BY DEF Targets
  <2>. HIDE DEF inSequence
  <2>4. OnClient(x, f) \in SessionRecords
    BY <2>1, <2>2, <2>3, ZenonT(30) DEF SessionRecords
  <2>5. /\ OnClient(x, f).target = Primary
        /\ OnClient(x, f).conn = x.conn /\ OnClient(x, f).held = x.held
        /\ OnClient(x, f).pc = x.pc /\ OnClient(x, f).pinned = x.pinned
        /\ OnClient(x, f).parsed = x.parsed
    BY <2>2 DEF SessionRecords
  <2>. QED  BY <1>2, <2>3, <2>4, <2>5
<1>. QED  BY <1>1, <1>2

\* A statement on a backend: whose it is stays, and only a pinning statement
\* leaves something bound to its session.
LEMMA RunKeeps ==
    ASSUME NEW cn \in Backends, NEW s \in Sessions, NEW q \in AllStatements,
           NEW ok \in BOOLEAN
    PROVE  /\ Run(cn, s, q, ok) \in Backends
           /\ Run(cn, s, q, ok).by = cn.by
           /\ \/ Run(cn, s, q, ok).bound = cn.bound
              \/ /\ Run(cn, s, q, ok).bound = cn.bound \union {s}
                 /\ q.op = "pin"
<1>. DEFINE kept(r) == r \in Backends /\ r.by = cn.by /\ r.bound = cn.bound
<1>1. kept(cn) /\ kept([cn EXCEPT !.tx = IF @ = "I" THEN "I" ELSE "E"])
  BY DEF Backends
<1>2. kept(OpenTx(cn, "R")) /\ kept(OpenTx(cn, "T"))
  BY ZenonT(30) DEF OpenTx, Backends
<1>3. \A p \in Vals \union {Default} : kept(EndTx(cn, p))
  BY DEF EndTx, Backends
<1>4. cn.saved \in Vals \union {Default} /\ cn.param \in Vals \union {Default}
  BY DEF Backends
<1>5. \A p \in Vals \union {Default} : kept([cn EXCEPT !.param = p])
  BY DEF Backends
<1>6. \A d \in BOOLEAN : kept([cn EXCEPT !.dirty = d])
  BY DEF Backends
<1>7. q.val \in Vals \union {Default} /\ Default \in Vals \union {Default}
  BY DEF AllStatements
<1>8. /\ [cn EXCEPT !.bound = @ \union {s}] \in Backends
      /\ [cn EXCEPT !.bound = @ \union {s}].by = cn.by
      /\ [cn EXCEPT !.bound = @ \union {s}].bound = cn.bound \union {s}
  BY DEF Backends
<1>9. (cn.tx = "T") \in BOOLEAN
  OBVIOUS
<1>10. \/ kept(Run(cn, s, q, ok))
       \/ Run(cn, s, q, ok) = [cn EXCEPT !.bound = @ \union {s}]
            /\ q.op = "pin"
  <2>. HIDE DEF kept
  <2>1. CASE cn.tx = "E" /\ q.op \notin {"commit", "rollback"}
    BY <2>1, <1>1 DEF Run
  <2>2. CASE ~(cn.tx = "E" /\ q.op \notin {"commit", "rollback"}) /\ ~ok
    BY <2>2, <1>1 DEF Run
  <2>3. CASE ~(cn.tx = "E" /\ q.op \notin {"commit", "rollback"}) /\ ok
    <3>1. CASE q.op = "begin_ro"
      <4>1. Run(cn, s, q, ok) = OpenTx(cn, "R")
        BY <2>3, <3>1 DEF Run, Writes
      <4>. QED  BY <4>1, <1>2
    <3>2. CASE q.op \in {"begin", "late_begin"}
      <4>1. Run(cn, s, q, ok) = OpenTx(cn, "T")
        BY <2>3, <3>2 DEF Run, Writes
      <4>. QED  BY <4>1, <1>2
    <3>3. CASE q.op = "commit"
      <4>1. Run(cn, s, q, ok) = EndTx(cn, IF cn.tx = "E" THEN cn.saved
                                                        ELSE cn.param)
        BY <2>3, <3>3 DEF Run, Writes
      <4>. QED  BY <4>1, <1>3, <1>4
    <3>4. CASE q.op = "rollback"
      <4>1. Run(cn, s, q, ok) = EndTx(cn, IF cn.tx = "I" THEN cn.param
                                                        ELSE cn.saved)
        BY <2>3, <3>4 DEF Run, Writes
      <4>. QED  BY <4>1, <1>3, <1>4
    <3>5. CASE q.op = "set"
      <4>1. Run(cn, s, q, ok) = [cn EXCEPT !.param = q.val]
        BY <2>3, <3>5 DEF Run, Writes
      <4>. QED  BY <4>1, <1>5, <1>7
    <3>6. CASE q.op = "reset"
      <4>1. Run(cn, s, q, ok) = [cn EXCEPT !.param = Default]
        BY <2>3, <3>6 DEF Run, Writes
      <4>. QED  BY <4>1, <1>5, <1>7
    <3>7. CASE q.op = "pin"
      <4>1. Run(cn, s, q, ok) = [cn EXCEPT !.bound = @ \union {s}]
        BY <2>3, <3>7 DEF Run, Writes
      <4>. QED  BY <4>1, <3>7
    <3>8. CASE Writes(q)
      <4>1. Run(cn, s, q, ok) = [cn EXCEPT !.dirty = cn.tx = "T"]
        BY <2>3, <3>8 DEF Run, Writes
      <4>. QED  BY <4>1, <1>6, <1>9
    <3>9. CASE /\ ~Writes(q)
               /\ q.op \notin {"begin", "begin_ro", "late_begin", "commit",
                               "rollback", "set", "reset", "pin"}
      <4>1. Run(cn, s, q, ok) = cn
        BY <2>3, <3>9 DEF Run, Writes
      <4>. QED  BY <4>1, <1>1
    <3>. QED  BY <3>1, <3>2, <3>3, <3>4, <3>5, <3>6, <3>7, <3>8, <3>9
  <2>. QED  BY <2>1, <2>2, <2>3
<1>. QED  BY <1>8, <1>10

-----------------------------------------------------------------------------
(* The inductive invariant.  PoolHoldsNoState is not inductive: that what a *)
(* session gives back is clean follows from what the session knows of it.  *)

Clean(cn) == cn.tx = "I" /\ cn.todo = None /\ cn.bound = {}

\* Session s, as x, holds cn: it is the only holder, only its own state is
\* bound to it, and then the session is pinned or about to be.
Owns(s, x, cn) ==
    /\ cn.by = s
    /\ cn.bound \subseteq {s}
    /\ s \in cn.bound \/ Pins(cn.todo) => x.pinned
    /\ x.pc \in {"releasing", "returning"} => Clean(cn)

\* Session s, as x, next to the connections cs and its registry entry k.
HoldsWell(s, x, cs, k) ==
    /\ x.held # NoTarget => x.conn # NoConn
    /\ x.pc \in {"sent", "releasing", "returning"} => x.conn # NoConn
    /\ x.pc = "returning" => x.held = NoTarget /\ k = NoConn
    /\ k # NoConn => k = x.conn
    /\ Pins(x.parsed) => x.pinned
    /\ x.pc = "acquiring" /\ Pins(x.frame.sql) => x.pinned
    /\ x.conn # NoConn => Owns(s, x, cs[x.conn])

RelayInv ==
    /\ RelayTypeOK
    /\ \A s \in Sessions : HoldsWell(s, ses[s], conn, cancels[s])
    /\ PoolHoldsNoState

\* A step that leaves alone what session t holds leaves t as it was.
LEMMA OthersUndisturbed ==
    ASSUME NEW t \in Sessions, NEW x \in SessionRecords, NEW k,
           NEW cs, NEW cs2, HoldsWell(t, x, cs, k),
           \A c \in Conns : cs[c].by = t => cs2[c] = cs[c]
    PROVE  HoldsWell(t, x, cs2, k)
<1>1. x.conn \in Conns \union {NoConn}
  BY DEF SessionRecords
<1>2. x.conn # NoConn => cs2[x.conn] = cs[x.conn]
  BY <1>1 DEF HoldsWell, Owns
<1>. QED  BY <1>2 DEF HoldsWell

\* The frames a client may send are frames, and those without SQL of their
\* own name what was parsed.
LEMMA ClientFramesTyped ==
    ASSUME RelayTypeOK, NEW s \in Sessions, NEW f \in ClientFrames(s)
    PROVE  /\ f \in Frames
           /\ f.kind \in {"Query", "Parse"} \/ f.sql = ses[s].parsed
                \/ f.sql = None
<1>1. ses[s].parsed \in AllStatements
  BY DEF RelayTypeOK, SessionRecords
<1>2. None \in AllStatements
  BY DEF None, Op, AllStatements
<1>3. Queried[s] \subseteq AllStatements /\ Parsed[s] \subseteq AllStatements
  BY RelayAssumption
<1>4. CASE ses[s].parsed = None
  <2>0. ClientFrames(s) = {Frame("Query", q) : q \in Queried[s]}
                            \union {Frame("Parse", q) : q \in Parsed[s]}
    BY <1>4 DEF ClientFrames
  <2>1. \/ \E q \in Queried[s] : f = Frame("Query", q)
        \/ \E q \in Parsed[s] : f = Frame("Parse", q)
    BY <2>0
  <2>. QED  BY <2>1, <1>3, SMT DEF Frame, Frames
<1>5. CASE ses[s].parsed # None
  <2>1. f = Frame("Execute", ses[s].parsed) \/ f = Frame("Sync", None)
    BY <1>5 DEF ClientFrames
  <2>. QED  BY <2>1, <1>1, <1>2, SMT DEF Frame, Frames
<1>. QED  BY <1>4, <1>5

\* Session s, as x, has the connection its frame is about to go to.
MaySend(s, x, cs, k) ==
    /\ x.conn \in Conns
    /\ cs[x.conn].by = s
    /\ cs[x.conn].bound \subseteq {s}
    /\ s \in cs[x.conn].bound \/ Pins(cs[x.conn].todo) => x.pinned
    /\ Pins(x.parsed) => x.pinned
    /\ Pins(x.frame.sql) => x.pinned
    /\ k # NoConn => k = x.conn

\* Sending a frame on keeps the session well.
LEMMA ForwardKeeps ==
    ASSUME NEW s \in Sessions, NEW x \in SessionRecords,
           NEW cs \in [Conns -> Backends], NEW k, MaySend(s, x, cs, k)
    PROVE  /\ Forwarded(x) \in SessionRecords
           /\ Delivered(x, cs) \in [Conns -> Backends]
           /\ HoldsWell(s, Forwarded(x), Delivered(x, cs), k)
           /\ \A c \in Conns : c # x.conn => Delivered(x, cs)[c] = cs[c]
           /\ Delivered(x, cs)[x.conn].by = s
<1>0. x.conn \in Conns /\ NoConn # x.conn
  BY RelayAssumption DEF MaySend
<1>1. x.frame \in Frames /\ x.frame.sql \in AllStatements
  BY DEF SessionRecords, Frames
<1>. DEFINE pc == IF AsksForAnswer(x.frame) THEN "sent" ELSE "idle"
            frame == IF AsksForAnswer(x.frame) THEN NoFrame ELSE x.frame
            parsed == IF x.frame.kind = "Parse" THEN x.frame.sql ELSE x.parsed
            y == [x EXCEPT !.pc = pc, !.target = NoTarget, !.frame = frame,
                           !.parsed = parsed]
<1>2. NoFrame \in Frames
  BY DEF NoFrame, Frame, Frames, None, Op, AllStatements
<1>3. pc \in {"sent", "idle"} /\ frame \in Frames
  BY <1>1, <1>2
<1>4. parsed \in AllStatements
  BY <1>0, <1>1 DEF SessionRecords
<1>5. Pins(parsed) => x.pinned
  BY DEF MaySend
<1>6. Forwarded(x) = y
  BY DEF Forwarded
<1>. HIDE DEF pc, frame, parsed
<1>7. y \in SessionRecords
  BY <1>3, <1>4 DEF SessionRecords
<1>8. /\ y.conn = x.conn /\ y.held = x.held /\ y.pc = pc
      /\ y.pinned = x.pinned /\ y.parsed = parsed
  BY DEF SessionRecords
<1>. HIDE DEF y
<1>. DEFINE cn == cs[x.conn]
            dn == [cn EXCEPT !.todo = x.frame.sql]
<1>9. cn \in Backends /\ dn \in Backends
  BY <1>0, <1>1, SMT DEF Backends
<1>10. dn.by = cn.by /\ dn.bound = cn.bound /\ dn.todo = x.frame.sql
  BY <1>9 DEF Backends
<1>11. \/ Delivered(x, cs) = [cs EXCEPT ![x.conn] = dn]
       \/ Delivered(x, cs) = cs
  BY DEF Delivered
<1>. HIDE DEF dn
<1>12. /\ Delivered(x, cs) \in [Conns -> Backends]
       /\ \A c \in Conns : c # x.conn => Delivered(x, cs)[c] = cs[c]
       /\ Delivered(x, cs)[x.conn] \in {cn, dn}
  BY <1>0, <1>9, <1>11
<1>13. Owns(s, y, Delivered(x, cs)[x.conn])
  BY <1>3, <1>8, <1>10, <1>12 DEF Owns, MaySend
<1>14. HoldsWell(s, y, Delivered(x, cs), k)
  BY <1>0, <1>3, <1>5, <1>8, <1>13 DEF HoldsWell, MaySend
<1>15. Delivered(x, cs)[x.conn].by = s
  BY <1>10, <1>12 DEF MaySend
<1>. QED  BY <1>6, <1>7, <1>12, <1>14, <1>15

-----------------------------------------------------------------------------
(* The actions.                                                            *)

RestTypeOK ==
    /\ lsn \in 0 .. MaxLsn
    /\ replayed \in [Replicas -> 0 .. MaxLsn]
    /\ seen \in [Replicas -> -1 .. MaxLsn]
    /\ direct \in [Sessions -> Backends]
    /\ written \in [Sessions -> 0 .. MaxLsn]

\* What is left to show of a step of session s.
LEMMA SessionStep ==
    ASSUME RelayInv, NEW s \in Sessions,
           ses' = [ses EXCEPT ![s] = ses'[s]],
           cancels' = [cancels EXCEPT ![s] = cancels'[s]],
           ses'[s] \in SessionRecords,
           conn' \in [Conns -> Backends],
           cancels'[s] \in Conns \union {NoConn},
           RestTypeOK',
           HoldsWell(s, ses'[s], conn', cancels'[s]),
           \A t \in Sessions \ {s} : \A c \in Conns :
                conn[c].by = t => conn'[c] = conn[c],
           \A c \in Conns : conn'[c].by = "idle" => Clean(conn'[c])
    PROVE  RelayInv'
<1>1. RelayTypeOK'
  BY DEF RelayInv, RelayTypeOK, RestTypeOK
<1>2. ASSUME NEW t \in Sessions
      PROVE  HoldsWell(t, ses'[t], conn', cancels'[t])
  <2>1. CASE t = s
    BY <2>1
  <2>2. CASE t # s
    <3>1. ses'[t] = ses[t] /\ cancels'[t] = cancels[t]
      BY <2>2 DEF RelayInv, RelayTypeOK
    <3>2. ses[t] \in SessionRecords /\ HoldsWell(t, ses[t], conn, cancels[t])
      BY DEF RelayInv, RelayTypeOK
    <3>3. \A c \in Conns : conn[c].by = t => conn'[c] = conn[c]
      BY <2>2
    <3>. QED  BY <3>1, <3>2, <3>3, OthersUndisturbed
  <2>. QED  BY <2>1, <2>2
<1>3. PoolHoldsNoState'
  BY DEF PoolHoldsNoState, Clean
<1>. QED  BY <1>1, <1>2, <1>3 DEF RelayInv

\* A client's frame: relay::on_client and what follows it.
LEMMA ClientSendsKeeps ==
    ASSUME RelayInv, NEW s \in Sessions, NEW f \in ClientFrames(s),
           ClientSends(s, f)
    PROVE  RelayInv'
<1>. DEFINE y == OnClient(ses[s], f)
            x == [y EXCEPT !.frame = f]
<1>1. /\ ses[s] \in SessionRecords /\ ses \in [Sessions -> SessionRecords]
      /\ conn \in [Conns -> Backends]
      /\ cancels \in [Sessions -> Conns \union {NoConn}] /\ RestTypeOK
      /\ HoldsWell(s, ses[s], conn, cancels[s])
      /\ \A c \in Conns : conn[c].by = "idle" => Clean(conn[c])
  BY DEF RelayInv, RelayTypeOK, RestTypeOK, PoolHoldsNoState, Clean
<1>2. /\ f \in Frames
      /\ f.kind \in {"Query", "Parse"} \/ f.sql = ses[s].parsed \/ f.sql = None
  BY ClientFramesTyped DEF RelayInv
<1>3. /\ y \in SessionRecords /\ y.target \in Targets
      /\ y.conn = ses[s].conn /\ y.held = ses[s].held /\ y.pc = ses[s].pc
      /\ y.parsed = ses[s].parsed
      /\ ses[s].pinned => y.pinned
      /\ f.kind \in {"Query", "Parse"} /\ Pins(f.sql) => y.pinned
  BY <1>1, <1>2, OnClientKeeps
<1>. HIDE DEF y
<1>4. /\ x \in SessionRecords
      /\ x.target = y.target /\ x.conn = y.conn /\ x.held = y.held
      /\ x.pc = y.pc /\ x.parsed = y.parsed /\ x.pinned = y.pinned
      /\ x.frame = f
  BY <1>2, <1>3 DEF SessionRecords
<1>5. /\ ses[s].pc = "idle"
      /\ IF x.held # x.target
         THEN ses' = [ses EXCEPT ![s] = [x EXCEPT !.pc = "acquiring"]]
              /\ conn' = conn
         ELSE Forward(s, x, conn)
      /\ cancels' = cancels /\ RestTypeOK'
  BY <1>1 DEF ClientSends, RestTypeOK, y
<1>. HIDE DEF x
<1>6. Pins(f.sql) => x.pinned
  BY <1>1, <1>2, <1>3, <1>4, SMT DEF HoldsWell, Pins, None, Op
<1>7. /\ x.conn = ses[s].conn /\ x.held = ses[s].held /\ x.target \in Targets
      /\ x.parsed = ses[s].parsed /\ (ses[s].pinned => x.pinned)
  BY <1>3, <1>4
<1>8. CASE x.held # x.target
  <2>. DEFINE z == [x EXCEPT !.pc = "acquiring"]
  <2>1. /\ z \in SessionRecords /\ z.pc = "acquiring"
        /\ z.conn = x.conn /\ z.held = x.held /\ z.parsed = x.parsed
        /\ z.pinned = x.pinned /\ z.frame = f
    BY <1>4 DEF SessionRecords
  <2>. HIDE DEF z
  <2>2. HoldsWell(s, z, conn, cancels[s])
    BY <2>1, <1>1, <1>5, <1>6, <1>7 DEF HoldsWell, Owns
  <2>3. ses' = [ses EXCEPT ![s] = z] /\ conn' = conn /\ cancels' = cancels
    BY <1>5, <1>8 DEF z
  <2>4. ses'[s] = z
    BY <2>3, <1>1
  <2>. QED  BY <2>1, <2>2, <2>3, <2>4, <1>1, <1>5, SessionStep
<1>9. CASE x.held = x.target
  <2>1. x.conn \in Conns
    BY <1>1, <1>4, <1>7, <1>9, RelayAssumption, SMT
    DEF HoldsWell, SessionRecords, Targets, NoTarget, Primary
  <2>2. Owns(s, ses[s], conn[x.conn])
    BY <1>1, <1>7, <2>1, RelayAssumption DEF HoldsWell
  <2>3. MaySend(s, x, conn, cancels[s])
    BY <2>1, <2>2, <1>1, <1>4, <1>6, <1>7 DEF Owns, HoldsWell, MaySend
  <2>4. /\ Forwarded(x) \in SessionRecords
        /\ Delivered(x, conn) \in [Conns -> Backends]
        /\ HoldsWell(s, Forwarded(x), Delivered(x, conn), cancels[s])
        /\ \A c \in Conns : c # x.conn => Delivered(x, conn)[c] = conn[c]
        /\ Delivered(x, conn)[x.conn].by = s
    BY <1>1, <1>4, <2>3, ForwardKeeps
  <2>5. /\ ses' = [ses EXCEPT ![s] = Forwarded(x)] /\ ses'[s] = Forwarded(x)
        /\ conn' = Delivered(x, conn) /\ cancels' = cancels
    BY <1>1, <1>5, <1>9 DEF Forward
  <2>6. \A t \in Sessions \ {s} : \A c \in Conns :
            conn[c].by = t => conn'[c] = conn[c]
    BY <2>3, <2>4, <2>5 DEF MaySend
  <2>7. \A c \in Conns : conn'[c].by = "idle" => Clean(conn'[c])
    BY <1>1, <2>4, <2>5, RelayAssumption
  <2>8. /\ ses' = [ses EXCEPT ![s] = ses'[s]]
        /\ cancels' = [cancels EXCEPT ![s] = cancels'[s]]
        /\ cancels'[s] \in Conns \union {NoConn}
    BY <1>1, <2>5
  <2>9. /\ ses'[s] \in SessionRecords /\ conn' \in [Conns -> Backends]
        /\ HoldsWell(s, ses'[s], conn', cancels'[s])
    BY <2>4, <2>5
  <2>. QED  BY <1>5, <2>6, <2>7, <2>8, <2>9, SessionStep
<1>. QED  BY <1>8, <1>9

\* The facts every step starts from.
LEMMA InvFacts ==
    ASSUME RelayInv, NEW s \in Sessions
    PROVE  /\ ses[s] \in SessionRecords /\ ses \in [Sessions -> SessionRecords]
           /\ conn \in [Conns -> Backends]
           /\ cancels \in [Sessions -> Conns \union {NoConn}] /\ RestTypeOK
           /\ HoldsWell(s, ses[s], conn, cancels[s])
           /\ \A c \in Conns : conn[c].by = "idle" => Clean(conn[c])
           /\ ses[s].conn \in Conns \union {NoConn}
           /\ ses[s].conn # NoConn => Owns(s, ses[s], conn[ses[s].conn])
BY DEF RelayInv, RelayTypeOK, RestTypeOK, PoolHoldsNoState, Clean, HoldsWell,
       SessionRecords

\* A connection that is not open is clean.
LEMMA ClosedTyped ==
    Closed \in Backends /\ Closed.by = "closed" /\ Clean(Closed)
BY DEF Closed, Backends, Clean, None, Op, AllStatements

\* A routing hint is answered by the proxy and reaches no server.
LEMMA ClientHintsKeeps ==
    ASSUME RelayInv, NEW s \in Sessions, ClientHints(s)
    PROVE  RelayInv'
<1>. DEFINE z == [ses[s] EXCEPT !.hint = "replica"]
<1>1. /\ z \in SessionRecords /\ z.pc = ses[s].pc /\ z.conn = ses[s].conn
      /\ z.held = ses[s].held /\ z.parsed = ses[s].parsed
      /\ z.pinned = ses[s].pinned /\ z.frame = ses[s].frame
  BY InvFacts, SMTT(30) DEF SessionRecords
<1>2. /\ ses' = [ses EXCEPT ![s] = z] /\ conn' = conn /\ cancels' = cancels
      /\ RestTypeOK'
  BY InvFacts DEF ClientHints, RestTypeOK
<1>. HIDE DEF z
<1>3. HoldsWell(s, z, conn, cancels[s])
  BY <1>1, InvFacts DEF HoldsWell, Owns
<1>4. ses'[s] = z
  BY <1>2, InvFacts
<1>. QED  BY <1>1, <1>2, <1>3, <1>4, InvFacts, SessionStep

\* Taking connection c, idle or newly opened, in place of the one held.
LEMMA InstallKeeps ==
    ASSUME RelayInv, NEW s \in Sessions, NEW c \in Conns,
           NEW cn \in Backends, Clean(cn),
           ses[s].pc = "acquiring", conn[c].by \in {"idle", "closed"},
           Install(s, c, cn)
    PROVE  RelayInv'
<1>. DEFINE x == ses[s]
            old == IF x.conn = NoConn THEN {} ELSE {x.conn}
            mine == [cn EXCEPT !.by = s]
            dn == Resume(mine, x)
            cs == [d \in Conns |-> IF d = c THEN dn
                                   ELSE IF d \in old THEN Closed ELSE conn[d]]
            y == [x EXCEPT !.held = x.target, !.conn = c]
<1>0. /\ x \in SessionRecords /\ x.params \in Vals \union {Default}
      /\ x.target \in Targets \union {NoTarget}
  <2>1. x \in SessionRecords
    BY InvFacts
  <2>. QED  BY <2>1 DEF SessionRecords
<1>1. /\ mine \in Backends /\ mine.by = s /\ mine.tx = "I"
      /\ mine.todo = None /\ mine.bound = {}
  BY DEF Backends, Clean
<1>. HIDE DEF mine
<1>2. /\ dn \in Backends /\ dn.by = s /\ dn.todo = None /\ dn.bound = {}
  <2>. DEFINE param == IF x.params = Default THEN mine.param ELSE x.params
  <2>1. dn = [mine EXCEPT !.param = param]
    BY DEF Resume
  <2>2. param \in Vals \union {Default}
    BY <1>0, <1>1 DEF Backends
  <2>. HIDE DEF param, dn
  <2>. QED  BY <1>1, <2>1, <2>2 DEF Backends
<1>3. /\ y \in SessionRecords /\ y.conn = c /\ y.parsed = x.parsed
      /\ y.frame = x.frame /\ y.pinned = x.pinned
  BY <1>0 DEF SessionRecords
<1>4. /\ ses' = [ses EXCEPT ![s] = Forwarded(y)] /\ conn' = Delivered(y, cs)
      /\ cancels' = [cancels EXCEPT ![s] = c] /\ RestTypeOK'
  BY InvFacts DEF Install, Forward, RestTypeOK, mine
<1>. HIDE DEF dn, y
<1>5. /\ cs \in [Conns -> Backends] /\ cs[c] = dn
      /\ \A d \in Conns : d # c => cs[d] = Closed \/ cs[d] = conn[d]
  BY <1>2, InvFacts, ClosedTyped
<1>6. \A t \in Sessions \ {s} : \A d \in Conns :
          conn[d].by = t => cs[d] = conn[d] /\ d # c
  BY InvFacts, RelayAssumption DEF Owns
<1>. HIDE DEF cs
<1>7. MaySend(s, y, cs, c)
  BY <1>2, <1>3, <1>5, InvFacts, SMT DEF MaySend, HoldsWell, Pins, None, Op
<1>8. /\ Forwarded(y) \in SessionRecords
      /\ Delivered(y, cs) \in [Conns -> Backends]
      /\ HoldsWell(s, Forwarded(y), Delivered(y, cs), c)
      /\ \A d \in Conns : d # y.conn => Delivered(y, cs)[d] = cs[d]
      /\ Delivered(y, cs)[y.conn].by = s
  BY <1>3, <1>5, <1>7, ForwardKeeps, SMT
<1>9. ses'[s] = Forwarded(y) /\ cancels'[s] = c
  BY <1>4, InvFacts
<1>10. \A t \in Sessions \ {s} : \A d \in Conns :
          conn[d].by = t => conn'[d] = conn[d]
  BY <1>3, <1>4, <1>6, <1>8, SMT
<1>11. \A d \in Conns : conn'[d].by = "idle" => Clean(conn'[d])
  BY <1>3, <1>4, <1>5, <1>8, InvFacts, ClosedTyped, RelayAssumption, SMT
<1>12. /\ ses' = [ses EXCEPT ![s] = ses'[s]]
       /\ cancels' = [cancels EXCEPT ![s] = cancels'[s]]
       /\ cancels'[s] \in Conns \union {NoConn}
       /\ ses'[s] \in SessionRecords /\ conn' \in [Conns -> Backends]
       /\ HoldsWell(s, ses'[s], conn', cancels'[s])
  BY <1>4, <1>8, <1>9
<1>. QED  BY <1>4, <1>10, <1>11, <1>12, SessionStep

\* Both ways of acquiring: off the pool, or newly opened.
LEMMA AcquireKeeps ==
    ASSUME RelayInv, NEW s \in Sessions, NEW c \in Conns,
           AcquireIdle(s, c) \/ AcquireNew(s, c)
    PROVE  RelayInv'
<1>1. CASE AcquireIdle(s, c)
  <2>1. /\ conn[c] \in Backends /\ Clean(conn[c])
        /\ ses[s].pc = "acquiring" /\ conn[c].by \in {"idle", "closed"}
        /\ Install(s, c, conn[c])
    BY <1>1, InvFacts DEF AcquireIdle
  <2>. QED  BY <2>1, InstallKeeps
<1>2. CASE AcquireNew(s, c)
  <2>. DEFINE cn == Opened(s, ses[s].target)
  <2>1. ses[s].target \in Targets \union {NoTarget}
    BY InvFacts DEF SessionRecords
  <2>2. cn \in Backends /\ Clean(cn)
    BY <2>1, ClosedTyped DEF Opened, Backends, Clean
  <2>3. /\ ses[s].pc = "acquiring" /\ conn[c].by \in {"idle", "closed"}
        /\ Install(s, c, cn)
    BY <1>2 DEF AcquireNew
  <2>. HIDE DEF cn
  <2>. QED  BY <2>2, <2>3, InstallKeeps
<1>. QED  BY <1>1, <1>2

\* A ReadyForQuery as the relay takes it.
LEMMA AtReadyKeeps ==
    ASSUME NEW s \in Sessions, NEW x \in SessionRecords,
           NEW status \in {"I", "T", "E"}
    PROVE  LET z == AtReady(s, x, status) IN
           /\ z \in SessionRecords
           /\ z.conn = x.conn /\ z.held = x.held /\ z.pinned = x.pinned
           /\ z.parsed = None /\ z.pc \in {"releasing", "idle"}
           /\ z.pc = "releasing" => status = "I" /\ ~x.pinned
<1>. DEFINE fixed == IF status = "I" THEN NoTarget ELSE x.fixed
            readOnly == x.readOnly /\ status # "I"
            inSequence == FALSE
            y == [x EXCEPT !.tx = status, !.inSequence = inSequence,
                           !.fixed = fixed, !.readOnly = readOnly,
                           !.parsed = None]
            pc == IF ReleaseAtReady(y) /\ s \notin Dedicated
                  THEN "releasing" ELSE "idle"
<1>1. /\ fixed \in Targets \union {NoTarget} /\ readOnly \in BOOLEAN
      /\ inSequence \in BOOLEAN
  BY DEF SessionRecords
<1>2. None \in AllStatements
  BY DEF None, Op, AllStatements
<1>3. AtReady(s, x, status) = [y EXCEPT !.pc = pc]
  BY DEF AtReady
<1>. HIDE DEF fixed, readOnly, inSequence
<1>4. /\ y \in SessionRecords /\ y.conn = x.conn /\ y.held = x.held
      /\ y.pinned = x.pinned /\ y.parsed = None /\ y.tx = status
  <2>1. y \in SessionRecords
    BY <1>1, <1>2, ZenonT(30) DEF SessionRecords
  <2>2. y.conn = x.conn /\ y.held = x.held /\ y.pinned = x.pinned
    BY DEF SessionRecords
  <2>3. y.parsed = None /\ y.tx = status
    BY DEF SessionRecords
  <2>. QED  BY <2>1, <2>2, <2>3
<1>. HIDE DEF y
<1>5. /\ pc \in {"releasing", "idle"}
      /\ pc = "releasing" => y.tx = "I" /\ ~y.pinned
  BY DEF ReleaseAtReady, Releasable
<1>. HIDE DEF pc
<1>. QED  BY <1>3, <1>4, <1>5, SMT DEF SessionRecords

\* The answer is read to its end: a connection about to be released is clean.
LEMMA ServerAnswersKeeps ==
    ASSUME RelayInv, NEW s \in Sessions, NEW ok \in BOOLEAN,
           ServerAnswers(s, ok)
    PROVE  RelayInv'
<1>. DEFINE x == ses[s]
            c == x.conn
            cn == conn[c]
            q == cn.todo
            ran == Run(cn, s, q, ok)
            dn == [ran EXCEPT !.todo = None]
            z == AtReady(s, x, Status(ran))
<1>1. x.pc = "sent" /\ x \in SessionRecords
  BY InvFacts DEF ServerAnswers
<1>2. c \in Conns /\ c # NoConn /\ Owns(s, x, cn) /\ cn \in Backends
  BY <1>1, InvFacts DEF HoldsWell
<1>3. q \in AllStatements
  BY <1>2 DEF Backends
<1>4. /\ ran \in Backends /\ ran.by = cn.by
      /\ ran.bound = cn.bound
           \/ (ran.bound = cn.bound \union {s} /\ q.op = "pin")
  BY <1>2, <1>3, RunKeeps, SMT
<1>5. /\ ses' = [ses EXCEPT ![s] = z] /\ conn' = [conn EXCEPT ![c] = dn]
      /\ cancels' = cancels
  BY DEF ServerAnswers
<1>6. RestTypeOK'
  <2>1. Run(direct[s], s, q, ok) \in Backends
    BY <1>3, InvFacts, RunKeeps DEF RestTypeOK
  <2>2. direct' \in [Sessions -> Backends]
    BY <2>1, InvFacts DEF ServerAnswers, RestTypeOK
  <2>3. /\ lsn' \in 0 .. MaxLsn /\ written' \in [Sessions -> 0 .. MaxLsn]
        /\ replayed' = replayed /\ seen' = seen
    BY InvFacts, RelayAssumption, SMT DEF ServerAnswers, RestTypeOK
  <2>. QED  BY <2>2, <2>3, InvFacts DEF RestTypeOK
<1>. HIDE DEF ran
<1>7. Status(ran) \in {"I", "T", "E"} /\ (Status(ran) = "I" => ran.tx = "I")
  BY <1>4 DEF Status, Backends
<1>8. /\ dn \in Backends /\ dn.by = ran.by /\ dn.bound = ran.bound
      /\ dn.tx = ran.tx /\ dn.todo = None
  BY <1>4 DEF Backends, None, Op, AllStatements
<1>. HIDE DEF dn
<1>9. /\ z \in SessionRecords /\ z.conn = c /\ z.held = x.held
      /\ z.pinned = x.pinned /\ z.parsed = None
      /\ z.pc \in {"releasing", "idle"}
      /\ z.pc = "releasing" => Status(ran) = "I" /\ ~x.pinned
  BY <1>1, <1>7, AtReadyKeeps
<1>. HIDE DEF z
<1>10. dn.bound \subseteq {s} /\ (s \in dn.bound => x.pinned)
  BY <1>2, <1>4, <1>8 DEF Owns, Pins
<1>11. ~Pins(None)
  BY DEF Pins, None, Op
<1>12. Owns(s, z, dn)
  BY <1>2, <1>4, <1>7, <1>8, <1>9, <1>10, <1>11 DEF Owns, Clean
<1>13. HoldsWell(s, z, conn', cancels[s])
  <2>1. conn'[c] = dn
    BY <1>2, <1>5, InvFacts
  <2>. QED  BY <1>2, <1>9, <1>11, <1>12, <2>1, InvFacts DEF HoldsWell
<1>14. /\ ses'[s] = z /\ conn' \in [Conns -> Backends]
       /\ \A d \in Conns : d # c => conn'[d] = conn[d]
       /\ conn'[c].by = s
  BY <1>2, <1>4, <1>5, <1>8, InvFacts DEF Owns
<1>15. \A t \in Sessions \ {s} : \A d \in Conns :
          conn[d].by = t => conn'[d] = conn[d]
  BY <1>2, <1>14 DEF Owns
<1>16. \A d \in Conns : conn'[d].by = "idle" => Clean(conn'[d])
  BY <1>14, InvFacts, RelayAssumption
<1>17. /\ ses' = [ses EXCEPT ![s] = ses'[s]]
       /\ cancels' = [cancels EXCEPT ![s] = cancels'[s]]
       /\ cancels'[s] \in Conns \union {NoConn}
       /\ ses'[s] \in SessionRecords
       /\ HoldsWell(s, ses'[s], conn', cancels'[s])
  BY <1>5, <1>9, <1>13, <1>14, InvFacts
<1>. QED  BY <1>6, <1>14, <1>15, <1>16, <1>17, SessionStep

\* A step in which only one idle connection changes, and stays clean if it
\* stays in the pool.
LEMMA IdleStep ==
    ASSUME RelayInv, NEW c \in Conns, conn[c].by = "idle",
           UNCHANGED <<ses, cancels, lsn, replayed, seen, direct, written>>,
           NEW d \in Backends, conn' = [conn EXCEPT ![c] = d],
           d.by = "idle" => Clean(d)
    PROVE  RelayInv'
<1>1. /\ conn \in [Conns -> Backends] /\ RelayTypeOK
      /\ \A e \in Conns : conn[e].by = "idle" => Clean(conn[e])
  BY DEF RelayInv, RelayTypeOK, PoolHoldsNoState, Clean
<1>2. /\ conn' \in [Conns -> Backends] /\ conn'[c] = d
      /\ \A e \in Conns : e # c => conn'[e] = conn[e]
  BY <1>1
<1>3. RelayTypeOK'
  BY <1>1, <1>2 DEF RelayTypeOK
<1>4. ASSUME NEW t \in Sessions
      PROVE  HoldsWell(t, ses'[t], conn', cancels'[t])
  <2>1. \A e \in Conns : conn[e].by = t => conn'[e] = conn[e]
    BY <1>2, RelayAssumption
  <2>2. ses[t] \in SessionRecords /\ HoldsWell(t, ses[t], conn, cancels[t])
    BY DEF RelayInv, RelayTypeOK
  <2>3. HoldsWell(t, ses[t], conn', cancels[t])
    BY <2>1, <2>2, OthersUndisturbed
  <2>. QED  BY <2>3
<1>5. PoolHoldsNoState'
  BY <1>1, <1>2 DEF PoolHoldsNoState, Clean
<1>. QED  BY <1>3, <1>4, <1>5 DEF RelayInv

\* What takes an idle connection away, or marks it as having been spoken to.
LEMMA IdleConnectionKeeps ==
    ASSUME RelayInv, NEW c \in Conns,
           \/ \E s \in Sessions : DiscardUnfit(s, c)
           \/ ServerSpeaks(c)
           \/ Reap(c)
    PROVE  RelayInv'
<1>1. conn[c] \in Backends /\ (conn[c].by = "idle" => Clean(conn[c]))
  BY DEF RelayInv, RelayTypeOK, PoolHoldsNoState, Clean
<1>2. CASE ServerSpeaks(c)
  <2>. DEFINE d == [conn[c] EXCEPT !.unread = "socket"]
  <2>1. /\ d \in Backends /\ d.tx = conn[c].tx /\ d.todo = conn[c].todo
        /\ d.bound = conn[c].bound
    BY <1>1 DEF Backends
  <2>2. Clean(d)
    BY <1>1, <1>2, <2>1 DEF Clean, ServerSpeaks
  <2>3. /\ conn' = [conn EXCEPT ![c] = d] /\ conn[c].by = "idle"
        /\ UNCHANGED <<ses, cancels, lsn, replayed, seen, direct, written>>
    BY <1>2 DEF ServerSpeaks
  <2>. HIDE DEF d
  <2>. QED  BY <2>1, <2>2, <2>3, IdleStep
<1>3. CASE Reap(c)
  BY <1>3, ClosedTyped, IdleStep DEF Reap
<1>4. CASE \E s \in Sessions : DiscardUnfit(s, c)
  BY <1>4, ClosedTyped, IdleStep DEF DiscardUnfit
<1>. QED  BY <1>2, <1>3, <1>4

\* release: the registry entry goes before the connection can be taken.
LEMMA ReleaseKeeps ==
    ASSUME RelayInv, NEW s \in Sessions, NEW outcome, Release(s, outcome)
    PROVE  RelayInv'
<1>. DEFINE x == ses[s]
            c == x.conn
            y == IF x.wrote THEN RecordWrite(x, outcome) ELSE x
            z == [y EXCEPT !.pc = "returning", !.held = NoTarget]
            d == IF x.wrote THEN AfterProbe(conn[c], outcome) ELSE conn[c]
<1>1. x.pc = "releasing" /\ x \in SessionRecords
  BY InvFacts DEF Release
<1>2. /\ c \in Conns /\ c # NoConn /\ Owns(s, x, conn[c])
      /\ conn[c] \in Backends /\ Clean(conn[c])
  BY <1>1, InvFacts DEF HoldsWell, Owns
<1>3. /\ y \in SessionRecords /\ y.conn = c /\ y.pinned = x.pinned
      /\ y.parsed = x.parsed
  <2>1. lsn \in 0 .. MaxLsn
    BY InvFacts DEF RestTypeOK
  <2>. DEFINE wrote == FALSE
              watermark == IF x.watermark >= lsn THEN x.watermark ELSE lsn
              u == [x EXCEPT !.wrote = wrote, !.watermark = watermark]
  <2>2. wrote \in BOOLEAN /\ watermark \in 0 .. MaxLsn
    BY <1>1, <2>1 DEF SessionRecords
  <2>3. y = x \/ y = u
    BY DEF RecordWrite
  <2>. HIDE DEF wrote, watermark, y
  <2>4. u \in SessionRecords
    BY <1>1, <2>2 DEF SessionRecords
  <2>5. u.conn = c /\ u.pinned = x.pinned /\ u.parsed = x.parsed
    BY <1>1 DEF SessionRecords
  <2>. HIDE DEF u
  <2>. QED  BY <1>1, <2>3, <2>4, <2>5
<1>4. /\ d \in Backends /\ d.by = conn[c].by /\ d.tx = conn[c].tx
      /\ d.todo = conn[c].todo /\ d.bound = conn[c].bound
  <2>. DEFINE a == [conn[c] EXCEPT !.unread = "buffer"]
              b == [conn[c] EXCEPT !.unread = "socket"]
  <2>1. d = conn[c] \/ d = a \/ d = b
    BY DEF AfterProbe
  <2>2. /\ a \in Backends /\ a.by = conn[c].by /\ a.tx = conn[c].tx
        /\ a.todo = conn[c].todo /\ a.bound = conn[c].bound
    BY <1>2 DEF Backends
  <2>3. /\ b \in Backends /\ b.by = conn[c].by /\ b.tx = conn[c].tx
        /\ b.todo = conn[c].todo /\ b.bound = conn[c].bound
    BY <1>2 DEF Backends
  <2>. HIDE DEF a, b, d
  <2>. QED  BY <1>2, <2>1, <2>2, <2>3
<1>5. /\ ses' = [ses EXCEPT ![s] = z]
      /\ cancels' = [cancels EXCEPT ![s] = NoConn]
      /\ UNCHANGED <<lsn, replayed, seen, direct, written>>
  BY DEF Release
<1>6. conn' = [conn EXCEPT ![c] = d]
  BY <1>2, InvFacts DEF Release
<1>. HIDE DEF y, d
<1>7. /\ z \in SessionRecords /\ z.conn = c /\ z.pinned = x.pinned
      /\ z.parsed = x.parsed /\ z.pc = "returning" /\ z.held = NoTarget
  BY <1>3 DEF SessionRecords
<1>. HIDE DEF z
<1>8. Clean(d) /\ Owns(s, z, d)
  BY <1>2, <1>4, <1>7 DEF Owns, Clean
<1>9. /\ ses'[s] = z /\ cancels'[s] = NoConn
      /\ conn' \in [Conns -> Backends] /\ conn'[c] = d
      /\ \A e \in Conns : e # c => conn'[e] = conn[e]
  BY <1>2, <1>4, <1>5, <1>6, InvFacts
<1>10. HoldsWell(s, z, conn', NoConn)
  BY <1>2, <1>7, <1>8, <1>9, InvFacts DEF HoldsWell
<1>11. \A t \in Sessions \ {s} : \A e \in Conns :
          conn[e].by = t => conn'[e] = conn[e]
  BY <1>2, <1>9 DEF Owns
<1>12. \A e \in Conns : conn'[e].by = "idle" => Clean(conn'[e])
  BY <1>8, <1>9, InvFacts
<1>13. RestTypeOK'
  BY <1>5, InvFacts DEF RestTypeOK
<1>. QED  BY <1>5, <1>7, <1>9, <1>10, <1>11, <1>12, <1>13, SessionStep

\* UpstreamGuard::drop: what comes back to the pool is clean.
LEMMA GuardDropsKeeps ==
    ASSUME RelayInv, NEW s \in Sessions, GuardDrops(s)
    PROVE  RelayInv'
<1>. DEFINE x == ses[s]
            c == x.conn
            z == [x EXCEPT !.pc = "idle", !.conn = NoConn]
            d == [conn[c] EXCEPT !.by = "idle"]
<1>1. x.pc = "returning" /\ x \in SessionRecords
  BY InvFacts DEF GuardDrops
<1>2. /\ c \in Conns /\ c # NoConn /\ Owns(s, x, conn[c])
      /\ conn[c] \in Backends /\ Clean(conn[c])
      /\ x.held = NoTarget /\ cancels[s] = NoConn
  BY <1>1, InvFacts DEF HoldsWell, Owns
<1>3. /\ z \in SessionRecords /\ z.conn = NoConn /\ z.pinned = x.pinned
      /\ z.parsed = x.parsed /\ z.pc = "idle" /\ z.held = x.held
  BY <1>1 DEF SessionRecords
<1>4. /\ d \in Backends /\ d.tx = conn[c].tx
      /\ d.todo = conn[c].todo /\ d.bound = conn[c].bound
  BY <1>2 DEF Backends
<1>5. /\ ses' = [ses EXCEPT ![s] = z] /\ conn' = [conn EXCEPT ![c] = d]
      /\ UNCHANGED <<cancels, lsn, replayed, seen, direct, written>>
  BY DEF GuardDrops
<1>. HIDE DEF z, d
<1>6. /\ ses'[s] = z /\ cancels'[s] = NoConn
      /\ conn' \in [Conns -> Backends] /\ conn'[c] = d
      /\ \A e \in Conns : e # c => conn'[e] = conn[e]
  BY <1>2, <1>4, <1>5, InvFacts
<1>7. HoldsWell(s, z, conn', NoConn)
  BY <1>2, <1>3, InvFacts DEF HoldsWell
<1>8. \A t \in Sessions \ {s} : \A e \in Conns :
         conn[e].by = t => conn'[e] = conn[e]
  BY <1>2, <1>6 DEF Owns
<1>9. Clean(d)
  BY <1>2, <1>4 DEF Clean
<1>10. \A e \in Conns : conn'[e].by = "idle" => Clean(conn'[e])
  BY <1>6, <1>9, InvFacts
<1>11. RestTypeOK'
  BY <1>5, InvFacts DEF RestTypeOK
<1>12. cancels' = [cancels EXCEPT ![s] = cancels'[s]]
  BY <1>5, InvFacts
<1>. QED  BY <1>3, <1>5, <1>6, <1>7, <1>8, <1>10, <1>11, <1>12, SessionStep

\* A session as it starts, or is left when it is gone.
LEMMA NewSessionTyped ==
    /\ NewSession \in SessionRecords
    /\ NewSession.conn = NoConn /\ NewSession.held = NoTarget
    /\ NewSession.pc = "idle" /\ ~Pins(NewSession.parsed)
<1>1. NoFrame \in Frames /\ None \in AllStatements /\ ~Pins(None)
  BY DEF NoFrame, Frame, Frames, None, Op, AllStatements, Pins
<1>2. 0 \in 0 .. MaxLsn
  BY RelayAssumption, SMT
<1>. QED  BY <1>1, <1>2 DEF NewSession, SessionRecords

\* A session that ends takes its connection with it.
LEMMA EndsKeeps ==
    ASSUME RelayInv, NEW s \in Sessions, Ends(s)
    PROVE  RelayInv'
<1>. DEFINE c == ses[s].conn
            z == [NewSession EXCEPT !.pc = "gone"]
<1>1. /\ z \in SessionRecords /\ z.conn = NoConn /\ z.held = NoTarget
      /\ z.pc = "gone" /\ ~Pins(z.parsed)
  BY NewSessionTyped, SMT DEF SessionRecords
<1>2. /\ ses' = [ses EXCEPT ![s] = z]
      /\ cancels' = [cancels EXCEPT ![s] = NoConn]
      /\ conn' = IF c = NoConn THEN conn ELSE [conn EXCEPT ![c] = Closed]
  BY DEF Ends
<1>. HIDE DEF z
<1>3. /\ ses'[s] = z /\ cancels'[s] = NoConn
      /\ conn' \in [Conns -> Backends]
      /\ \A e \in Conns : conn'[e] = conn[e] \/ (e = c /\ conn'[e] = Closed)
  BY <1>2, ClosedTyped, InvFacts
<1>4. HoldsWell(s, z, conn', NoConn)
  BY <1>1 DEF HoldsWell
<1>5. \A t \in Sessions \ {s} : \A e \in Conns :
         conn[e].by = t => conn'[e] = conn[e]
  <2>1. c # NoConn => c \in Conns /\ conn[c].by = s
    BY InvFacts DEF Owns
  <2>. QED  BY <1>2, <2>1, SMT
<1>6. \A e \in Conns : conn'[e].by = "idle" => Clean(conn'[e])
  BY <1>3, ClosedTyped, InvFacts
<1>7. RestTypeOK'
  <2>1. 0 \in 0 .. MaxLsn
    BY RelayAssumption, SMT
  <2>. QED  BY <2>1, ClosedTyped, InvFacts DEF RestTypeOK, Ends
<1>. QED  BY <1>1, <1>2, <1>3, <1>4, <1>5, <1>6, <1>7, SessionStep

\* What the replicas and their poller do touches no session.
LEMMA ReplicaKeeps ==
    ASSUME RelayInv, NEW r \in Replicas, Replay(r) \/ Poll(r) \/ PollFails(r)
    PROVE  RelayInv'
<1>1. UNCHANGED <<ses, conn, cancels, lsn, direct, written>>
  BY DEF Replay, Poll, PollFails
<1>2. RelayTypeOK'
  BY <1>1, RelayAssumption, SMT
     DEF RelayInv, RelayTypeOK, Replay, Poll, PollFails, Unheard
<1>. QED  BY <1>1, <1>2 DEF RelayInv, PoolHoldsNoState

\* No session holds anything at the start, and no connection is open.
LEMMA RelayInvInit == Init => RelayInv
<1>. SUFFICES ASSUME Init PROVE RelayInv
  OBVIOUS
<1>1. ASSUME NEW s \in Sessions PROVE Opened(s, Primary) \in Backends
  BY ClosedTyped DEF Opened, Backends, Targets
<1>2. 0 \in 0 .. MaxLsn /\ -1 \in -1 .. MaxLsn
  BY RelayAssumption, SMT
<1>3. RelayTypeOK
  BY <1>1, <1>2, ClosedTyped, NewSessionTyped
     DEF Init, RelayTypeOK, Unheard
<1>4. ASSUME NEW s \in Sessions
      PROVE  HoldsWell(s, ses[s], conn, cancels[s])
  BY NewSessionTyped DEF Init, HoldsWell
<1>5. PoolHoldsNoState
  BY ClosedTyped DEF Init, PoolHoldsNoState
<1>. QED  BY <1>3, <1>4, <1>5 DEF RelayInv

\* Every action keeps the invariant.
LEMMA RelayInvStep == RelayInv /\ [Next]_vars => RelayInv'
<1>. SUFFICES ASSUME RelayInv, [Next]_vars PROVE RelayInv'
  OBVIOUS
<1>1. ASSUME NEW s \in Sessions, NEW f \in ClientFrames(s),
             ClientSends(s, f)
      PROVE  RelayInv'
  BY <1>1, ClientSendsKeeps
<1>2. ASSUME NEW s \in Sessions, ClientHints(s)
      PROVE  RelayInv'
  BY <1>2, ClientHintsKeeps
<1>3. ASSUME NEW s \in Sessions, NEW c \in Conns,
             AcquireIdle(s, c) \/ AcquireNew(s, c)
      PROVE  RelayInv'
  BY <1>3, AcquireKeeps
<1>4. ASSUME NEW c \in Conns,
             \/ \E s \in Sessions : DiscardUnfit(s, c)
             \/ ServerSpeaks(c)
             \/ Reap(c)
      PROVE  RelayInv'
  BY <1>4, IdleConnectionKeeps
<1>5. ASSUME NEW s \in Sessions, NEW ok \in BOOLEAN, ServerAnswers(s, ok)
      PROVE  RelayInv'
  BY <1>5, ServerAnswersKeeps
<1>6. ASSUME NEW s \in Sessions, NEW outcome \in ProbeResults,
             Release(s, outcome)
      PROVE  RelayInv'
  BY <1>6, ReleaseKeeps
<1>7. ASSUME NEW s \in Sessions, GuardDrops(s)
      PROVE  RelayInv'
  BY <1>7, GuardDropsKeeps
<1>8. ASSUME NEW s \in Sessions, Ends(s)
      PROVE  RelayInv'
  BY <1>8, EndsKeeps
<1>9. ASSUME NEW r \in Replicas, Replay(r) \/ Poll(r) \/ PollFails(r)
      PROVE  RelayInv'
  BY <1>9, ReplicaKeeps
<1>10. CASE UNCHANGED vars
  <2>1. UNCHANGED <<ses, conn, cancels, lsn, replayed, seen, direct, written>>
    BY <1>10 DEF vars
  <2>. QED  BY <2>1 DEF RelayInv, RelayTypeOK, PoolHoldsNoState
<1>. QED  BY <1>1, <1>2, <1>3, <1>4, <1>5, <1>6, <1>7, <1>8, <1>9, <1>10
             DEF Next

\* The inductive invariant, for every set of sessions, connections, replicas
\* and statements.
THEOREM RelayInvariant == Spec => []RelayInv
BY RelayInvInit, RelayInvStep, PTL DEF Spec

\* Live, Relay, the router and the registry keep their types.
THEOREM RelayTypeCorrect == Spec => []RelayTypeOK
<1>1. RelayInv => RelayTypeOK
  BY DEF RelayInv
<1>. QED  BY <1>1, RelayInvariant, PTL

\* release gives back no connection with a transaction open on it, with an
\* answer still to come, or with anything bound to the session that had it.
THEOREM PoolAlwaysClean == Spec => []PoolHoldsNoState
<1>1. RelayInv => PoolHoldsNoState
  BY DEF RelayInv
<1>. QED  BY <1>1, RelayInvariant, PTL

\* CancelRegistry: a cancel request that finds its session's backend finds
\* the one that session holds, never one that has gone to another.
THEOREM CancelsAlwaysNameTheHolder == Spec => []CancelsNameTheHolder
<1>1. RelayInv => CancelsNameTheHolder
  BY InvFacts DEF CancelsNameTheHolder, HoldsWell, Owns
<1>. QED  BY <1>1, RelayInvariant, PTL


-----------------------------------------------------------------------------
(* What a frame makes of the session that sends it, field by field.        *)

\* The primary is not one of the replicas, nor is having no target.
LEMMA PrimaryIsNoReplica == Primary \notin Replicas /\ NoTarget \notin Replicas
  BY RelayAssumption, SMT DEF Primary, NoTarget

\* The rule sends a statement to a replica only for a session that is neither
\* pinned nor waiting for the position of a write, and only to one seen to
\* have replayed what the session wrote.
LEMMA DecideFacts ==
    ASSUME NEW x, NEW class, NEW r, r = Decide(x, class), r # Primary
    PROVE  /\ r \in Replicas /\ ~x.pinned /\ ~x.wrote
           /\ x.hint = "replica" \/ class = "read"
           /\ class # "write"
           /\ seen[r] # Unheard /\ seen[r] >= x.watermark
<1>. DEFINE fit == {t \in Replicas : CanServe(t, x.watermark)}
<1>1. /\ ~x.pinned /\ ~x.wrote /\ fit # {} /\ r = FirstOf(fit)
      /\ x.hint = "replica" \/ class = "read"
      /\ class # "write"
  BY DEF Decide
<1>2. fit \in SUBSET Nat
  BY RelayAssumption
<1>3. r \in fit
  BY <1>1, <1>2, FirstOfMember
<1>. QED  BY <1>1, <1>3 DEF CanServe

\* SessionRouter::route inside a transaction: the target stays.
LEMMA RouteFixed ==
    ASSUME NEW x \in SessionRecords, NEW q \in AllStatements, x.fixed # NoTarget,
           NEW y, y = Route(x, q)
    PROVE  /\ y.target = x.fixed /\ y.fixed = x.fixed
           /\ y.readOnly = x.readOnly
           /\ y.wrote <=> x.wrote \/ (~x.readOnly /\ q.op = "write")
           /\ y.tx = x.tx /\ y.hint = x.hint /\ y.watermark = x.watermark
           /\ y.params = x.params /\ y.frame = x.frame
<1>. DEFINE wrote == x.wrote \/ (~x.readOnly /\ Class(q) = "write")
<1>1. wrote <=> x.wrote \/ (~x.readOnly /\ q.op = "write")
  BY DEF Class
<1>2. y = [x EXCEPT !.wrote = wrote, !.target = x.fixed]
  BY DEF Route
<1>. HIDE DEF wrote
<1>3. y.wrote = wrote
  BY <1>2 DEF SessionRecords
<1>4. /\ y.target = x.fixed /\ y.fixed = x.fixed
      /\ y.readOnly = x.readOnly
      /\ y.tx = x.tx /\ y.hint = x.hint /\ y.watermark = x.watermark
      /\ y.params = x.params /\ y.frame = x.frame
  BY <1>2 DEF SessionRecords
<1>. QED  BY <1>1, <1>3, <1>4

\* And outside one: the rule decides, and a statement that begins one fixes it.
LEMMA RouteFree ==
    ASSUME NEW x \in SessionRecords, NEW q \in AllStatements, x.fixed = NoTarget,
           NEW y, y = Route(x, q)
    PROVE  /\ y.readOnly <=> x.readOnly \/ q.op = "begin_ro"
           /\ y.wrote <=> x.wrote \/ (~y.readOnly /\ q.op = "write")
           /\ y.fixed = IF x.tx = "T" \/ BeginsTransaction(q) THEN y.target
                        ELSE NoTarget
           /\ y.target # Primary =>
                /\ y.target \in Replicas /\ ~x.pinned /\ ~y.wrote
                /\ x.hint = "replica" \/ y.readOnly \/ q.op = "read"
                /\ seen[y.target] # Unheard /\ seen[y.target] >= x.watermark
           /\ y.tx = x.tx /\ y.hint = x.hint /\ y.watermark = x.watermark
           /\ y.params = x.params /\ y.frame = x.frame
<1>. DEFINE readOnly == x.readOnly \/ BeginsReadOnly(q)
            class == IF readOnly THEN "read" ELSE Class(q)
            target == Decide(x, class)
            wrote == x.wrote \/ class = "write"
            fixed == IF x.tx = "T" \/ BeginsTransaction(q)
                     THEN target ELSE NoTarget
<1>1. y = [x EXCEPT !.readOnly = readOnly, !.wrote = wrote,
                    !.target = target, !.fixed = fixed]
  BY DEF Route
<1>2. readOnly <=> x.readOnly \/ q.op = "begin_ro"
  BY DEF BeginsReadOnly
<1>3. /\ class = "write" <=> ~readOnly /\ q.op = "write"
      /\ class = "read" => readOnly \/ q.op = "read"
  BY DEF Class
<1>4. target # Primary =>
        /\ target \in Replicas /\ ~x.pinned /\ ~x.wrote
        /\ x.hint = "replica" \/ class = "read"
        /\ class # "write"
        /\ seen[target] # Unheard /\ seen[target] >= x.watermark
  BY DecideFacts, SMT
<1>5. wrote <=> x.wrote \/ class = "write"
  OBVIOUS
<1>6. readOnly \in BOOLEAN /\ wrote \in BOOLEAN
  BY DEF SessionRecords, BeginsReadOnly
<1>. HIDE DEF readOnly, class, target, wrote
<1>7. y.readOnly = readOnly /\ y.wrote = wrote /\ y.target = target
  BY <1>1 DEF SessionRecords
<1>8. y.fixed = fixed
  BY <1>1 DEF SessionRecords
<1>9. /\ y.tx = x.tx /\ y.hint = x.hint /\ y.watermark = x.watermark
      /\ y.params = x.params /\ y.frame = x.frame
  BY <1>1 DEF SessionRecords
<1>10. y.readOnly <=> x.readOnly \/ q.op = "begin_ro"
  BY <1>2, <1>7
<1>11. y.wrote <=> x.wrote \/ (~y.readOnly /\ q.op = "write")
  BY <1>3, <1>5, <1>7
<1>12. y.target # Primary =>
        /\ y.target \in Replicas /\ ~x.pinned /\ ~y.wrote
        /\ x.hint = "replica" \/ y.readOnly \/ q.op = "read"
        /\ seen[y.target] # Unheard /\ seen[y.target] >= x.watermark
  BY <1>3, <1>4, <1>5, <1>7
<1>. QED  BY <1>7, <1>8, <1>9, <1>10, <1>11, <1>12

\* A frame of session x, decided, as Relay::on_client leaves it.
Aim(x, f) == [OnClient(x, f) EXCEPT !.frame = f, !.pc = "acquiring"]

\* What a decision leaves alone, for every frame.
Keeps(x, a) ==
    /\ a.conn = x.conn /\ a.held = x.held /\ a.parsed = x.parsed
    /\ a.tx = x.tx /\ a.hint = x.hint /\ a.watermark = x.watermark

\* What it makes of one with SQL.
Decided(x, q, a) ==
    /\ a.pinned <=> x.pinned \/ Pins(q)
    /\ a.params = Recorded(x.params, q)
    /\ x.fixed # NoTarget =>
         /\ a.target = x.fixed /\ a.fixed = x.fixed
         /\ a.readOnly = x.readOnly
         /\ a.wrote <=> x.wrote \/ (~x.readOnly /\ q.op = "write")
    /\ x.fixed = NoTarget =>
         /\ a.readOnly <=> x.readOnly \/ q.op = "begin_ro"
         /\ a.wrote <=> x.wrote \/ (~a.readOnly /\ q.op = "write")
         /\ a.fixed = IF x.tx = "T" \/ BeginsTransaction(q) THEN a.target
                      ELSE NoTarget
         /\ a.target # Primary =>
              /\ a.target \in Replicas /\ ~a.pinned /\ ~a.wrote
              /\ x.hint = "replica" \/ a.readOnly \/ q.op = "read"
              /\ seen[a.target] # Unheard /\ seen[a.target] >= x.watermark

\* And of one without.
PassedOn(x, a) ==
    /\ a.target = Primary /\ a.pinned = x.pinned /\ a.params = x.params
    /\ a.fixed = x.fixed /\ a.readOnly = x.readOnly /\ a.wrote = x.wrote

\* What Relay::on_client decides for a frame, field by field.
LEMMA AimFacts ==
    ASSUME NEW x \in SessionRecords, NEW f \in Frames, NEW a, a = Aim(x, f)
    PROVE  /\ a \in SessionRecords /\ a.frame = f /\ a.pc = "acquiring"
           /\ a.target \in Targets
           /\ Keeps(x, a)
           /\ f.kind \in {"Query", "Parse"} => Decided(x, f.sql, a)
           /\ f.kind \notin {"Query", "Parse"} => PassedOn(x, a)
<1>. DEFINE z == OnClient(x, f)
<1>0. f.sql \in AllStatements
  BY DEF Frames
<1>1. /\ z \in SessionRecords /\ z.target \in Targets
      /\ z.conn = x.conn /\ z.held = x.held /\ z.parsed = x.parsed
  BY OnClientKeeps
<1>2. /\ z.tx = x.tx /\ z.hint = x.hint /\ z.watermark = x.watermark
      /\ f.kind \in {"Query", "Parse"} => Decided(x, f.sql, z)
      /\ f.kind \notin {"Query", "Parse"} => PassedOn(x, z)
  <2>1. CASE f.kind \in {"Query", "Parse"}
    <3>. DEFINE inSequence == x.inSequence \/ f.kind = "Parse"
                pinned == x.pinned \/ Pins(f.sql)
                params == Recorded(x.params, f.sql)
                y == [x EXCEPT !.inSequence = inSequence, !.pinned = pinned,
                               !.params = params]
    <3>1. inSequence \in BOOLEAN /\ pinned \in BOOLEAN
      OBVIOUS
    <3>2. params \in Vals \union {Default}
      BY <1>0 DEF Recorded, AllStatements, SessionRecords
    <3>3. z = Route(y, f.sql)
      BY <2>1 DEF OnClient, OnStatement
    <3>4. pinned <=> x.pinned \/ Pins(f.sql)
      OBVIOUS
    <3>5. params = Recorded(x.params, f.sql)
      OBVIOUS
    <3>. HIDE DEF inSequence, pinned, params
    <3>6. y \in SessionRecords
      BY <3>1, <3>2 DEF SessionRecords
    <3>7. /\ y.tx = x.tx /\ y.hint = x.hint /\ y.watermark = x.watermark
          /\ y.fixed = x.fixed /\ y.readOnly = x.readOnly /\ y.wrote = x.wrote
      BY DEF SessionRecords
    <3>8. y.pinned = pinned /\ y.params = params
      BY DEF SessionRecords
    <3>. HIDE DEF y, z
    <3>9. z.pinned = y.pinned
      BY <1>0, <3>3, <3>6, RouteKeeps
    <3>10. CASE x.fixed # NoTarget
      <4>1. /\ z.target = y.fixed /\ z.fixed = y.fixed
            /\ z.readOnly = y.readOnly
            /\ z.wrote <=> y.wrote \/ (~y.readOnly /\ f.sql.op = "write")
            /\ z.tx = y.tx /\ z.hint = y.hint /\ z.watermark = y.watermark
            /\ z.params = y.params
        BY <1>0, <3>3, <3>6, <3>7, <3>10, RouteFixed, SMT
      <4>2. z.pinned <=> x.pinned \/ Pins(f.sql)
        BY <3>4, <3>8, <3>9
      <4>3. z.params = Recorded(x.params, f.sql)
        BY <3>5, <3>8, <4>1
      <4>. QED  BY <2>1, <3>7, <3>10, <4>1, <4>2, <4>3 DEF Decided
    <3>11. CASE x.fixed = NoTarget
      <4>1. /\ z.readOnly <=> y.readOnly \/ f.sql.op = "begin_ro"
            /\ z.wrote <=> y.wrote \/ (~z.readOnly /\ f.sql.op = "write")
            /\ z.fixed = IF y.tx = "T" \/ BeginsTransaction(f.sql) THEN z.target
                         ELSE NoTarget
            /\ z.target # Primary =>
                 /\ z.target \in Replicas /\ ~y.pinned /\ ~z.wrote
                 /\ y.hint = "replica" \/ z.readOnly \/ f.sql.op = "read"
                 /\ seen[z.target] # Unheard /\ seen[z.target] >= y.watermark
            /\ z.tx = y.tx /\ z.hint = y.hint /\ z.watermark = y.watermark
            /\ z.params = y.params
        BY <1>0, <3>3, <3>6, <3>7, <3>11, RouteFree, SMT
      <4>2. z.pinned <=> x.pinned \/ Pins(f.sql)
        BY <3>4, <3>8, <3>9
      <4>3. z.params = Recorded(x.params, f.sql)
        BY <3>5, <3>8, <4>1
      <4>. QED  BY <2>1, <3>7, <3>9, <3>11, <4>1, <4>2, <4>3 DEF Decided
    <3>. QED  BY <3>10, <3>11
  <2>2. CASE f.kind \notin {"Query", "Parse"}
    <3>. DEFINE inSequence == x.inSequence \/ f.kind # "Sync"
    <3>1. z = [x EXCEPT !.inSequence = inSequence, !.target = Primary]
      BY <2>2 DEF OnClient, ForwardWithoutRouting
    <3>. HIDE DEF inSequence, z
    <3>2. /\ z.tx = x.tx /\ z.hint = x.hint /\ z.watermark = x.watermark
          /\ z.target = Primary /\ z.pinned = x.pinned /\ z.params = x.params
          /\ z.fixed = x.fixed /\ z.readOnly = x.readOnly /\ z.wrote = x.wrote
      BY <3>1 DEF SessionRecords
    <3>. QED  BY <2>2, <3>2 DEF PassedOn
  <2>. QED  BY <2>1, <2>2
<1>3. a = [z EXCEPT !.frame = f, !.pc = "acquiring"]
  BY DEF Aim
<1>. HIDE DEF z
<1>4. a \in SessionRecords /\ a.frame = f /\ a.pc = "acquiring"
  BY <1>1, <1>3, ZenonT(30) DEF SessionRecords
<1>5. /\ a.conn = z.conn /\ a.held = z.held /\ a.parsed = z.parsed
      /\ a.tx = z.tx /\ a.hint = z.hint /\ a.watermark = z.watermark
      /\ a.target = z.target
  BY <1>1, <1>3 DEF SessionRecords
<1>6. /\ a.pinned = z.pinned /\ a.params = z.params /\ a.fixed = z.fixed
      /\ a.readOnly = z.readOnly /\ a.wrote = z.wrote
  BY <1>1, <1>3 DEF SessionRecords
<1>7. Keeps(x, a)
  BY <1>1, <1>2, <1>5 DEF Keeps
<1>8. f.kind \in {"Query", "Parse"} => Decided(x, f.sql, a)
  BY <1>2, <1>5, <1>6 DEF Decided
<1>9. f.kind \notin {"Query", "Parse"} => PassedOn(x, a)
  BY <1>2, <1>5, <1>6 DEF PassedOn
<1>. QED  BY <1>1, <1>4, <1>5, <1>7, <1>8, <1>9

-----------------------------------------------------------------------------
(* Where an extended sequence stands, and what is still to run.            *)

\* Where the session's frames are going.
Going(x) == IF x.pc = "acquiring" THEN x.target ELSE x.held

\* The statement the session is about to send, or has sent.
InHand(x, cs) ==
    IF x.pc = "acquiring" THEN x.frame.sql
    ELSE IF x.conn = NoConn THEN None ELSE cs[x.conn].todo

\* What the session has decided on and has no answer to yet.
Pending(x, cs) == {None, x.parsed, InHand(x, cs)}

\* The frames of session s come in the order of the protocol: Parse, Execute,
\* Sync, and what is parsed or on the server is what they are about.
InStep(s, x, cs) ==
    /\ x.parsed # None \/ x.frame.kind = "Parse" => Parsed[s] # {}
    /\ x.frame.kind = "Execute" => Going(x) = Primary
    /\ x.pc = "idle" =>
         /\ InHand(x, cs) \in {None, x.parsed}
         /\ x.parsed # None =>
              \/ x.frame.kind = "Parse"
              \/ x.frame.kind = "Execute" /\ InHand(x, cs) = x.parsed
    /\ x.pc = "acquiring" =>
         \/ x.frame.kind \in {"Query", "Parse"} /\ x.parsed = None
         \/ x.frame.kind = "Execute" /\ x.frame.sql = x.parsed
    /\ x.pc = "sent" => x.parsed \in {None, InHand(x, cs)}
    /\ x.pc \in {"sent", "releasing", "returning"} => x.frame.kind = "none"
    /\ x.pc \in {"releasing", "returning"} => x.parsed = None

\* The frame of a may go out on the connection cn.
MayGo(s, a, cn) ==
    /\ a.parsed # None => Parsed[s] # {}
    /\ \/ /\ a.frame.kind \in {"Query", "Parse"} /\ a.parsed = None
          /\ cn.todo = None
          /\ a.frame.kind = "Parse" => Parsed[s] # {}
       \/ a.frame.kind = "Execute" /\ a.frame.sql = a.parsed /\ a.held = Primary
       \/ a.frame.kind = "Sync" /\ a.frame.sql = None /\ cn.todo = a.parsed

\* The fields a frame on its way leaves alone.
SameAim(a, z) ==
    /\ z.conn = a.conn /\ z.held = a.held /\ z.tx = a.tx /\ z.hint = a.hint
    /\ z.watermark = a.watermark /\ z.pinned = a.pinned /\ z.params = a.params
    /\ z.fixed = a.fixed /\ z.readOnly = a.readOnly /\ z.wrote = a.wrote

\* The fields of a connection a frame on its way leaves alone.
SameServer(cn, dn) ==
    /\ dn.by = cn.by /\ dn.to = cn.to /\ dn.tx = cn.tx /\ dn.dirty = cn.dirty
    /\ dn.param = cn.param /\ dn.saved = cn.saved /\ dn.bound = cn.bound
    /\ dn.unread = cn.unread

\* A frame that may go out goes out as send_upstream sends it: the server
\* side keeps its state and the session stays in step.
LEMMA ForwardFacts ==
    ASSUME NEW s \in Sessions, NEW a \in SessionRecords,
           NEW cs \in [Conns -> Backends], a.conn \in Conns,
           MayGo(s, a, cs[a.conn]),
           NEW z, z = Forwarded(a), NEW ds, ds = Delivered(a, cs)
    PROVE  /\ SameAim(a, z) /\ z.pc \in {"idle", "sent"}
           /\ SameServer(cs[a.conn], ds[a.conn])
           /\ Pending(z, ds) = {None, a.parsed, a.frame.sql}
           /\ InStep(s, z, ds)
<1>0. a.conn # NoConn /\ a.frame \in Frames
  BY RelayAssumption DEF SessionRecords
<1>. DEFINE f == a.frame
            pc == IF AsksForAnswer(f) THEN "sent" ELSE "idle"
            frame == IF AsksForAnswer(f) THEN NoFrame ELSE f
            parsed == IF f.kind = "Parse" THEN f.sql ELSE a.parsed
<1>1. z = [a EXCEPT !.pc = pc, !.target = NoTarget, !.frame = frame,
                    !.parsed = parsed]
  BY DEF Forwarded
<1>2. /\ pc = "sent" /\ frame = NoFrame <=> f.kind \in {"Query", "Sync"}
      /\ pc = "idle" /\ frame = f <=> f.kind \notin {"Query", "Sync"}
  BY DEF AsksForAnswer
<1>3. parsed = IF f.kind = "Parse" THEN f.sql ELSE a.parsed
  OBVIOUS
<1>. HIDE DEF pc, frame, parsed
<1>4. z.pc = pc /\ z.frame = frame /\ z.parsed = parsed
  BY <1>1 DEF SessionRecords
<1>5. SameAim(a, z)
  BY <1>1 DEF SameAim, SessionRecords
<1>. DEFINE cn == cs[a.conn]
            dn == [cn EXCEPT !.todo = f.sql]
<1>6. cn \in Backends
  OBVIOUS
<1>7. SameServer(cn, dn) /\ dn.todo = f.sql /\ SameServer(cn, cn)
  BY <1>6 DEF SameServer, Backends
<1>8. ds = IF f.kind \in {"Query", "Execute"} THEN [cs EXCEPT ![a.conn] = dn]
           ELSE cs
  BY DEF Delivered
<1>. HIDE DEF dn
<1>9. ds[a.conn] = IF f.kind \in {"Query", "Execute"} THEN dn ELSE cn
  BY <1>8
<1>10. /\ SameServer(cn, ds[a.conn])
       /\ ds[a.conn].todo = IF f.kind \in {"Query", "Execute"} THEN f.sql ELSE cn.todo
  BY <1>7, <1>9
<1>11. z.pc \in {"idle", "sent"} /\ z.conn = a.conn /\ z.held = a.held
  BY <1>2, <1>4, <1>5 DEF SameAim, MayGo
<1>12. InHand(z, ds) = ds[a.conn].todo /\ Going(z) = a.held
  BY <1>0, <1>11 DEF InHand, Going
<1>13. Pending(z, ds) = {None, a.parsed, a.frame.sql}
  BY <1>3, <1>4, <1>10, <1>12 DEF Pending, MayGo
<1>14. NoFrame.kind = "none"
  BY DEF NoFrame, Frame
<1>15. InStep(s, z, ds)
  <2>1. CASE f.kind \in {"Query", "Sync"}
    BY <2>1, <1>2, <1>3, <1>4, <1>10, <1>12, <1>14 DEF InStep, MayGo
  <2>2. CASE f.kind \in {"Parse", "Execute"}
    BY <2>2, <1>2, <1>3, <1>4, <1>10, <1>12 DEF InStep, MayGo
  <2>. QED  BY <2>1, <2>2 DEF MayGo
<1>. QED  BY <1>5, <1>10, <1>11, <1>13, <1>15

-----------------------------------------------------------------------------
(* What each action does, to the session that takes it and to the others.  *)

\* Session t, its connection and its direct backend are left alone.
Apart(t) ==
    /\ ses'[t] = ses[t] /\ direct'[t] = direct[t] /\ written'[t] = written[t]
    /\ ses[t].conn # NoConn => conn'[ses[t].conn] = conn[ses[t].conn]

\* A connection held is a connection, and its holder's.
LEMMA HeldFacts ==
    ASSUME RelayInv, NEW t \in Sessions
    PROVE  /\ ses[t] \in SessionRecords /\ direct[t] \in Backends
           /\ ses[t].conn # NoConn =>
                /\ ses[t].conn \in Conns /\ conn[ses[t].conn] \in Backends
                /\ conn[ses[t].conn].by = t
           /\ ses[t].pc \in {"sent", "releasing", "returning"}
                => ses[t].conn # NoConn
           /\ ses[t].held # NoTarget => ses[t].conn # NoConn
<1>1. /\ ses[t] \in SessionRecords /\ direct[t] \in Backends
      /\ conn \in [Conns -> Backends] /\ HoldsWell(t, ses[t], conn, cancels[t])
  BY DEF RelayInv, RelayTypeOK
<1>2. ses[t].conn \in Conns \union {NoConn}
  BY <1>1 DEF SessionRecords
<1>. QED  BY <1>1, <1>2 DEF HoldsWell, Owns

\* What a session does to connections of its own, and to those in the pool,
\* no other session notices.
LEMMA OthersApart ==
    ASSUME RelayInv, NEW s \in Sessions,
           \A t \in Sessions \ {s} :
              ses'[t] = ses[t] /\ direct'[t] = direct[t] /\ written'[t] = written[t],
           \A c \in Conns :
              conn'[c] = conn[c] \/ conn[c].by \in {s, "idle", "closed"}
    PROVE  \A t \in Sessions \ {s} : Apart(t)
<1>. SUFFICES ASSUME NEW t \in Sessions \ {s} PROVE Apart(t)
  OBVIOUS
<1>1. ses[t].conn # NoConn => ses[t].conn \in Conns /\ conn[ses[t].conn].by = t
  BY HeldFacts
<1>2. t \notin {s, "idle", "closed"}
  BY RelayAssumption
<1>. QED  BY <1>1, <1>2 DEF Apart

\* The statements of session s.
SentBy(s) == Queried[s] \union Parsed[s]

\* A frame from the client, with the session after it, waiting for a
\* connection or with the frame on its way.
SendEffect(s, f, a) ==
    LET x == ses[s]
        z == ses'[s]
    IN  /\ x.pc = "idle" /\ Wellbehaved(s, f)
        /\ a \in SessionRecords /\ a.target \in Targets /\ Keeps(x, a)
        /\ \/ /\ f.kind \in {"Query", "Parse"} /\ Decided(x, f.sql, a)
              /\ x.parsed = None /\ Pending(x, conn) = {None}
              /\ f.sql \in SentBy(s)
           \/ /\ f.kind \in {"Execute", "Sync"} /\ PassedOn(x, a)
              /\ x.parsed # None /\ Pending(x, conn) = {None, x.parsed}
              /\ f.sql \in {None, x.parsed}
        /\ SameAim(a, z) /\ Going(z) = a.target
        /\ z.pc \in {"idle", "sent"} => z.conn # NoConn /\ a.held = a.target
        /\ z.pc \in {"idle", "sent", "acquiring"}
        /\ z.pc = "acquiring" => a.held # a.target
        /\ Pending(z, conn') = {None, x.parsed, f.sql}
        /\ InStep(s, z, conn')
        /\ x.conn # NoConn => SameServer(conn[x.conn], conn'[x.conn])
        /\ \A c \in Conns : c # x.conn => conn'[c] = conn[c]
        /\ UNCHANGED <<lsn, replayed, seen, direct, written>>
        /\ \A t \in Sessions \ {s} : Apart(t)

\* The frames a client may send, by where its sequence stands.
LEMMA FrameCases ==
    ASSUME RelayInv, NEW s \in Sessions, InStep(s, ses[s], conn),
           ses[s].pc = "idle", NEW f \in ClientFrames(s)
    PROVE  LET x == ses[s] IN
           \/ /\ f.kind \in {"Query", "Parse"} /\ x.parsed = None
              /\ Pending(x, conn) = {None} /\ InHand(x, conn) = None
              /\ f.sql \in SentBy(s)
              /\ f.kind = "Parse" => Parsed[s] # {}
           \/ /\ f.kind = "Execute" /\ x.parsed # None /\ f.sql = x.parsed
              /\ Pending(x, conn) = {None, x.parsed}
           \/ /\ f.kind = "Sync" /\ x.parsed # None /\ f.sql = None
              /\ Pending(x, conn) = {None, x.parsed}
              /\ x.held = Primary /\ InHand(x, conn) = x.parsed
<1>. DEFINE x == ses[s]
<1>1. CASE x.parsed = None
  <2>0. ClientFrames(s) = {Frame("Query", q) : q \in Queried[s]}
                            \union {Frame("Parse", q) : q \in Parsed[s]}
    BY <1>1 DEF ClientFrames
  <2>1. \/ \E q \in Queried[s] : f = Frame("Query", q)
        \/ \E q \in Parsed[s] : f = Frame("Parse", q)
    BY <2>0
  <2>2. /\ f.kind \in {"Query", "Parse"} /\ f.sql \in SentBy(s)
        /\ f.kind = "Parse" => Parsed[s] # {}
    BY <2>1, SMT DEF Frame, SentBy
  <2>3. InHand(x, conn) = None /\ Pending(x, conn) = {None}
    BY <1>1 DEF InStep, Pending
  <2>. QED  BY <1>1, <2>2, <2>3
<1>2. CASE x.parsed # None /\ x.frame.kind = "Parse"
  <2>1. f = Frame("Execute", x.parsed)
    BY <1>2 DEF ClientFrames
  <2>2. Pending(x, conn) = {None, x.parsed}
    BY DEF InStep, Pending
  <2>. QED  BY <1>2, <2>1, <2>2 DEF Frame
<1>3. CASE x.parsed # None /\ x.frame.kind # "Parse"
  <2>1. f = Frame("Sync", None)
    BY <1>3 DEF ClientFrames
  <2>2. Pending(x, conn) = {None, x.parsed}
    BY DEF InStep, Pending
  <2>3. x.held = Primary /\ InHand(x, conn) = x.parsed
    BY <1>3 DEF InStep, Going
  <2>. QED  BY <1>3, <2>1, <2>2, <2>3 DEF Frame
<1>. QED  BY <1>1, <1>2, <1>3

\* ClientSends has the effect of a send, whether or not it must first
\* acquire a connection.
LEMMA SendHasEffect ==
    ASSUME RelayInv, NEW s \in Sessions, InStep(s, ses[s], conn),
           NEW f \in ClientFrames(s), ClientSends(s, f)
    PROVE  SendEffect(s, f, Aim(ses[s], f))
<1>. DEFINE x == ses[s]
            a == Aim(x, f)
            y == [OnClient(x, f) EXCEPT !.frame = f]
<1>. SUFFICES SendEffect(s, f, a)
  OBVIOUS
<1>1. /\ x \in SessionRecords /\ ses \in [Sessions -> SessionRecords]
      /\ conn \in [Conns -> Backends] /\ f \in Frames
      /\ x.pc = "idle" /\ Wellbehaved(s, f)
  BY InvFacts, ClientFramesTyped DEF RelayInv, ClientSends
<1>2. /\ a \in SessionRecords /\ a.frame = f /\ a.pc = "acquiring"
      /\ a.target \in Targets /\ Keeps(x, a)
      /\ f.kind \in {"Query", "Parse"} => Decided(x, f.sql, a)
      /\ f.kind \notin {"Query", "Parse"} => PassedOn(x, a)
  BY <1>1, AimFacts, SMT
<1>3. OnClient(x, f) \in SessionRecords
  BY <1>1, OnClientKeeps
<1>4. /\ a = [y EXCEPT !.pc = "acquiring"]
      /\ y.held = a.held /\ y.target = a.target /\ y.conn = a.conn
      /\ Forwarded(y) = Forwarded(a) /\ Delivered(y, conn) = Delivered(a, conn)
  <2>1. a = [y EXCEPT !.pc = "acquiring"]
    BY <1>3 DEF Aim, SessionRecords
  <2>3. y \in SessionRecords
    BY <1>1, <1>3, SMT DEF SessionRecords
  <2>. HIDE DEF y, a
  <2>4. /\ y.held = a.held /\ y.target = a.target /\ y.conn = a.conn
        /\ y.frame = a.frame /\ y.parsed = a.parsed
    BY <2>1, <2>3 DEF SessionRecords
  <2>5. Delivered(y, conn) = Delivered(a, conn)
    BY <2>4 DEF Delivered
  <2>6. Forwarded(y) = Forwarded(a)
    <3>. DEFINE pc == IF AsksForAnswer(y.frame) THEN "sent" ELSE "idle"
                frame == IF AsksForAnswer(y.frame) THEN NoFrame ELSE y.frame
                parsed == IF y.frame.kind = "Parse" THEN y.frame.sql ELSE y.parsed
    <3>1. Forwarded(y) = [y EXCEPT !.pc = pc, !.target = NoTarget,
                                   !.frame = frame, !.parsed = parsed]
      BY DEF Forwarded
    <3>2. Forwarded(a) = [a EXCEPT !.pc = pc, !.target = NoTarget,
                                   !.frame = frame, !.parsed = parsed]
      BY <2>4 DEF Forwarded
    <3>. HIDE DEF pc, frame, parsed
    <3>. QED  BY <2>1, <2>3, <3>1, <3>2, ZenonT(30) DEF SessionRecords
  <2>. QED  BY <2>1, <2>4, <2>5, <2>6
<1>5. /\ IF y.held # y.target
         THEN ses' = [ses EXCEPT ![s] = [y EXCEPT !.pc = "acquiring"]] /\ conn' = conn
         ELSE ses' = [ses EXCEPT ![s] = Forwarded(y)] /\ conn' = Delivered(y, conn)
      /\ UNCHANGED <<lsn, replayed, seen, direct, written>>
  BY DEF ClientSends, Forward
<1>. HIDE DEF a, y
<1>6. IF a.held # a.target
      THEN ses' = [ses EXCEPT ![s] = a] /\ conn' = conn
      ELSE ses' = [ses EXCEPT ![s] = Forwarded(a)] /\ conn' = Delivered(a, conn)
  BY <1>4, <1>5
<1>7. \/ /\ f.kind \in {"Query", "Parse"} /\ x.parsed = None
         /\ Pending(x, conn) = {None} /\ InHand(x, conn) = None
         /\ f.sql \in SentBy(s)
         /\ f.kind = "Parse" => Parsed[s] # {}
      \/ /\ f.kind = "Execute" /\ x.parsed # None /\ f.sql = x.parsed
         /\ Pending(x, conn) = {None, x.parsed}
      \/ /\ f.kind = "Sync" /\ x.parsed # None /\ f.sql = None
         /\ Pending(x, conn) = {None, x.parsed}
         /\ x.held = Primary /\ InHand(x, conn) = x.parsed
  BY <1>1, FrameCases
<1>8. x.parsed # None => Parsed[s] # {}
  BY DEF InStep
<1>9. \/ /\ f.kind \in {"Query", "Parse"} /\ Decided(x, f.sql, a)
         /\ x.parsed = None /\ Pending(x, conn) = {None}
         /\ f.sql \in SentBy(s)
      \/ /\ f.kind \in {"Execute", "Sync"} /\ PassedOn(x, a)
         /\ x.parsed # None /\ Pending(x, conn) = {None, x.parsed}
         /\ f.sql \in {None, x.parsed}
  BY <1>2, <1>7
<1>10. CASE a.held # a.target
  <2>1. ses'[s] = a /\ conn' = conn
    BY <1>1, <1>6, <1>10
  <2>2. SameAim(a, a) /\ Going(a) = a.target
    BY <1>2 DEF SameAim, Going
  <2>3. Pending(a, conn) = {None, x.parsed, f.sql}
    BY <1>2 DEF Pending, InHand, Keeps
  <2>4. InStep(s, a, conn)
    <3>1. f.kind # "Sync"
      BY <1>2, <1>7, <1>10 DEF PassedOn, Keeps
    <3>2. f.kind = "Execute" => a.target = Primary
      BY <1>2 DEF PassedOn
    <3>. QED  BY <1>2, <1>7, <1>8, <2>2, <3>1, <3>2 DEF InStep, Keeps
  <2>5. x.conn # NoConn => SameServer(conn[x.conn], conn'[x.conn])
    BY <2>1 DEF SameServer
  <2>6. \A t \in Sessions \ {s} : Apart(t)
    BY <1>1, <1>5, <1>6, <1>10 DEF Apart
  <2>. QED  BY <1>1, <1>2, <1>5, <1>9, <1>10, <2>1, <2>2, <2>3, <2>4, <2>5, <2>6
               DEF SendEffect
<1>11. CASE a.held = a.target
  <2>1. /\ ses' = [ses EXCEPT ![s] = Forwarded(a)] /\ ses'[s] = Forwarded(a)
        /\ conn' = Delivered(a, conn)
    BY <1>1, <1>6, <1>11
  <2>2. x.held = a.held /\ x.conn = a.conn /\ x.parsed = a.parsed
    BY <1>2 DEF Keeps
  <2>3. x.held # NoTarget
    BY <1>2, <1>11, <2>2, RelayAssumption, SMT DEF Targets, Primary, NoTarget
  <2>4. a.conn \in Conns /\ a.conn # NoConn /\ conn[a.conn].by = s
    BY <2>2, <2>3, HeldFacts
  <2>5. InHand(x, conn) = conn[a.conn].todo
    BY <1>1, <2>2, <2>4 DEF InHand
  <2>6. MayGo(s, a, conn[a.conn])
    <3>1. f.kind = "Execute" => a.held = Primary
      BY <1>2, <1>11 DEF PassedOn
    <3>. QED  BY <1>2, <1>7, <1>8, <2>2, <2>5, <3>1 DEF MayGo
  <2>. DEFINE z == ses'[s]
  <2>7. /\ SameAim(a, z) /\ z.pc \in {"idle", "sent"}
        /\ SameServer(conn[a.conn], conn'[a.conn])
        /\ Pending(z, conn') = {None, a.parsed, a.frame.sql}
        /\ InStep(s, z, conn')
    BY <1>1, <1>2, <2>1, <2>4, <2>6, ForwardFacts, SMT
  <2>8. Going(z) = a.target /\ z.conn # NoConn
    BY <1>11, <2>4, <2>7 DEF Going, SameAim
  <2>9. \A c \in Conns : c # x.conn => conn'[c] = conn[c]
    BY <1>1, <2>1, <2>2 DEF Delivered
  <2>10. \A t \in Sessions \ {s} :
           ses'[t] = ses[t] /\ direct'[t] = direct[t] /\ written'[t] = written[t]
    BY <1>1, <1>5, <2>1
  <2>11. \A t \in Sessions \ {s} : Apart(t)
    BY <2>2, <2>4, <2>9, <2>10, OthersApart
  <2>. HIDE DEF z
  <2>. QED  BY <1>1, <1>2, <1>5, <1>9, <1>11, <2>2, <2>7, <2>8, <2>9, <2>11
               DEF SendEffect, z
<1>. QED  BY <1>10, <1>11

\* A connection taken, off the pool or newly opened, and the frame sent on it.
InstallEffect(s, c, cn) ==
    LET x == ses[s]
        z == ses'[s]
        dn == conn'[c]
    IN  /\ x.pc = "acquiring" /\ c \in Conns
        /\ cn \in Backends /\ Clean(cn) /\ cn.to = x.target
        /\ (cn = conn[c] /\ Fit(cn)) \/ cn = Opened(s, x.target)
        /\ SameAim([x EXCEPT !.held = x.target, !.conn = c], z)
        /\ z.conn = c /\ z.held = x.target /\ Going(z) = x.target
        /\ z.pc \in {"idle", "sent"}
        /\ Pending(z, conn') = Pending(x, conn)
        /\ InStep(s, z, conn')
        /\ SameServer(Resume([cn EXCEPT !.by = s], x), dn)
        /\ \A d \in Conns \ {c} : conn'[d] = conn[d] \/ conn'[d] = Closed
        /\ UNCHANGED <<lsn, replayed, seen, direct, written>>
        /\ \A t \in Sessions \ {s} : Apart(t)

\* Installing a connection and sending the frame in hand on it.
LEMMA InstallHasEffect ==
    ASSUME RelayInv, NEW s \in Sessions, InStep(s, ses[s], conn),
           NEW c \in Conns, conn[c].by \in {"idle", "closed"},
           NEW cn \in Backends, Clean(cn), cn.to = ses[s].target,
           (cn = conn[c] /\ Fit(cn)) \/ cn = Opened(s, ses[s].target),
           ses[s].pc = "acquiring", Install(s, c, cn)
    PROVE  InstallEffect(s, c, cn)
<1>. DEFINE x == ses[s]
            old == IF x.conn = NoConn THEN {} ELSE {x.conn}
            mine == [cn EXCEPT !.by = s]
            dn == Resume(mine, x)
            cs == [d \in Conns |-> IF d = c THEN dn
                                   ELSE IF d \in old THEN Closed ELSE conn[d]]
            y == [x EXCEPT !.held = x.target, !.conn = c]
<1>0. /\ x \in SessionRecords /\ ses \in [Sessions -> SessionRecords]
      /\ conn \in [Conns -> Backends]
  BY InvFacts
<1>1. mine \in Backends /\ mine.todo = None
  BY DEF Backends, Clean
<1>. HIDE DEF mine
<1>2. dn \in Backends /\ dn.todo = None
  <2>. DEFINE param == IF x.params = Default THEN mine.param ELSE x.params
  <2>1. dn = [mine EXCEPT !.param = param]
    BY DEF Resume
  <2>2. x.params \in Vals \union {Default}
    BY <1>0 DEF SessionRecords
  <2>3. param \in Vals \union {Default}
    BY <1>1, <2>2 DEF Backends
  <2>. HIDE DEF param, dn
  <2>. QED  BY <1>1, <2>1, <2>3 DEF Backends
<1>3. /\ y \in SessionRecords /\ y.conn = c /\ y.parsed = x.parsed
      /\ y.frame = x.frame /\ y.held = x.target
  <2>1. x.target \in Targets \union {NoTarget}
    BY <1>0 DEF SessionRecords
  <2>. QED  BY <1>0, <2>1 DEF SessionRecords
<1>4. /\ ses' = [ses EXCEPT ![s] = Forwarded(y)] /\ conn' = Delivered(y, cs)
      /\ UNCHANGED <<lsn, replayed, seen, direct, written>>
  BY DEF Install, Forward, mine
<1>5. SameAim(y, y)
  BY DEF SameAim
<1>. HIDE DEF dn, y
<1>6. /\ cs \in [Conns -> Backends] /\ cs[c] = dn
      /\ \A d \in Conns : d # c => cs[d] = conn[d] \/ (cs[d] = Closed /\ d = x.conn)
  BY <1>0, <1>2, ClosedTyped
<1>. HIDE DEF cs
<1>7. MayGo(s, y, dn)
  <2>1. \/ x.frame.kind \in {"Query", "Parse"} /\ x.parsed = None
        \/ x.frame.kind = "Execute" /\ x.frame.sql = x.parsed /\ x.target = Primary
    BY DEF InStep, Going
  <2>2. x.parsed # None => Parsed[s] # {}
    BY DEF InStep
  <2>3. x.frame.kind = "Parse" => Parsed[s] # {}
    BY DEF InStep
  <2>. QED  BY <1>2, <1>3, <2>1, <2>2, <2>3 DEF MayGo
<1>. DEFINE z == ses'[s]
<1>8. z = Forwarded(y)
  BY <1>0, <1>4
<1>9. /\ SameAim(y, z) /\ z.pc \in {"idle", "sent"}
      /\ SameServer(dn, conn'[c])
      /\ Pending(z, conn') = {None, y.parsed, y.frame.sql}
      /\ InStep(s, z, conn')
  BY <1>3, <1>4, <1>6, <1>7, <1>8, ForwardFacts, SMT
<1>10. Pending(z, conn') = Pending(x, conn)
  BY <1>3, <1>9 DEF Pending, InHand
<1>11. z.conn = c /\ z.held = x.target /\ Going(z) = x.target
  BY <1>3, <1>9 DEF SameAim, Going
<1>12. \A d \in Conns \ {c} : conn'[d] = cs[d]
  BY <1>3, <1>4, <1>6 DEF Delivered
<1>13. \A t \in Sessions \ {s} :
         ses'[t] = ses[t] /\ direct'[t] = direct[t] /\ written'[t] = written[t]
  BY <1>0, <1>4
<1>14. x.conn # NoConn => conn[x.conn].by = s
  BY HeldFacts
<1>15. \A d \in Conns :
         conn'[d] = conn[d] \/ conn[d].by \in {s, "idle", "closed"}
  BY <1>6, <1>12, <1>14, RelayAssumption
<1>16. \A t \in Sessions \ {s} : Apart(t)
  BY <1>13, <1>15, OthersApart
<1>17. \A d \in Conns \ {c} : conn'[d] = conn[d] \/ conn'[d] = Closed
  BY <1>6, <1>12
<1>. HIDE DEF z
<1>. QED  BY <1>4, <1>9, <1>10, <1>11, <1>16, <1>17
             DEF InstallEffect, z, y, dn, mine

\* Acquire installs an idle connection or one just opened.
LEMMA AcquireHasEffect ==
    ASSUME RelayInv, NEW s \in Sessions, InStep(s, ses[s], conn),
           NEW c \in Conns, AcquireIdle(s, c) \/ AcquireNew(s, c)
    PROVE  \E cn : InstallEffect(s, c, cn)
<1>1. CASE AcquireIdle(s, c)
  <2>1. /\ conn[c] \in Backends /\ Clean(conn[c])
        /\ ses[s].pc = "acquiring" /\ conn[c].by \in {"idle", "closed"}
        /\ conn[c].to = ses[s].target /\ Fit(conn[c])
        /\ Install(s, c, conn[c])
    BY <1>1, InvFacts DEF AcquireIdle
  <2>2. InstallEffect(s, c, conn[c])
    BY <2>1, InstallHasEffect
  <2>. QED  BY <2>2
<1>2. CASE AcquireNew(s, c)
  <2>. DEFINE cn == Opened(s, ses[s].target)
  <2>1. ses[s].target \in Targets \union {NoTarget}
    BY InvFacts DEF SessionRecords
  <2>2. cn \in Backends /\ Clean(cn) /\ cn.to = ses[s].target
    BY <2>1, ClosedTyped DEF Opened, Backends, Clean
  <2>3. /\ ses[s].pc = "acquiring" /\ conn[c].by \in {"idle", "closed"}
        /\ Install(s, c, cn)
    BY <1>2 DEF AcquireNew
  <2>4. cn = Opened(s, ses[s].target)
    OBVIOUS
  <2>. HIDE DEF cn
  <2>5. InstallEffect(s, c, cn)
    BY <2>2, <2>3, <2>4, InstallHasEffect
  <2>. QED  BY <2>5
<1>. QED  BY <1>1, <1>2

\* A statement on a backend, field by field.
Runs(cn, q, ok) == ok /\ (cn.tx = "E" => q.op \in {"commit", "rollback"})

\* The transaction state after a statement.
TxAfter(tx, q, ok) ==
    IF tx = "E" /\ q.op \notin {"commit", "rollback"} THEN "E"
    ELSE IF ~ok THEN IF tx = "I" THEN "I" ELSE "E"
    ELSE IF q.op = "begin_ro" THEN IF tx = "I" THEN "R" ELSE tx
    ELSE IF q.op \in {"begin", "late_begin"} THEN IF tx = "I" THEN "T" ELSE tx
    ELSE IF q.op \in {"commit", "rollback"} THEN "I" ELSE tx

\* The backend r is what running statement q of session s makes of cn.
AfterRun(cn, s, q, ok, r) ==
    /\ r.by = cn.by /\ r.to = cn.to /\ r.unread = cn.unread
    /\ r.tx = TxAfter(cn.tx, q, ok)
    /\ r.bound = IF Runs(cn, q, ok) /\ q.op = "pin" THEN cn.bound \union {s}
                 ELSE cn.bound
    /\ r.dirty => cn.dirty \/ (ok /\ Writes(q) /\ cn.tx = "T")
    /\ r.dirty => r.tx # "I" \/ cn.tx = "I"
    /\ q.op \notin {"set", "reset", "commit", "rollback"} => r.param = cn.param
    /\ Runs(cn, q, ok) /\ q.op = "set" => r.param = q.val
    /\ Runs(cn, q, ok) /\ q.op = "reset" => r.param = Default
    /\ q.op \in {"commit", "rollback"} =>
         r.param = cn.param \/ (cn.tx # "I" /\ r.param = cn.saved)
    /\ r.tx = cn.tx => r.saved = cn.saved \/ cn.tx = "I"
    /\ r.tx # cn.tx /\ r.tx # "I" => r.saved = cn.param \/ (cn.tx # "I" /\ r.saved = cn.saved)

\* One statement run on a backend, field by field.
LEMMA RunFacts ==
    ASSUME NEW cn \in Backends, NEW s \in Sessions, NEW q \in AllStatements,
           NEW ok \in BOOLEAN, NEW r, r = Run(cn, s, q, ok)
    PROVE  AfterRun(cn, s, q, ok, r)
<1>. USE DEF AfterRun, Runs, TxAfter, Backends
<1>1. CASE cn.tx = "E" /\ q.op \notin {"commit", "rollback"}
  <2>1. r = cn
    BY <1>1 DEF Run
  <2>. QED  BY <1>1, <2>1
<1>2. CASE ~(cn.tx = "E" /\ q.op \notin {"commit", "rollback"}) /\ ~ok
  <2>1. r = [cn EXCEPT !.tx = IF cn.tx = "I" THEN "I" ELSE "E"]
    BY <1>2 DEF Run
  <2>. QED  BY <1>2, <2>1
<1>3. CASE ~(cn.tx = "E" /\ q.op \notin {"commit", "rollback"}) /\ ok
  <2>1. CASE q.op = "begin_ro"
    <3>1. r = OpenTx(cn, "R")
      BY <1>3, <2>1 DEF Run, Writes
    <3>. QED  BY <1>3, <2>1, <3>1 DEF OpenTx
  <2>2. CASE q.op \in {"begin", "late_begin"}
    <3>1. r = OpenTx(cn, "T")
      BY <1>3, <2>2 DEF Run, Writes
    <3>. QED  BY <1>3, <2>2, <3>1 DEF OpenTx
  <2>3. CASE q.op = "commit"
    <3>1. r = EndTx(cn, IF cn.tx = "E" THEN cn.saved ELSE cn.param)
      BY <1>3, <2>3 DEF Run, Writes
    <3>. QED  BY <1>3, <2>3, <3>1 DEF EndTx
  <2>4. CASE q.op = "rollback"
    <3>1. r = EndTx(cn, IF cn.tx = "I" THEN cn.param ELSE cn.saved)
      BY <1>3, <2>4 DEF Run, Writes
    <3>. QED  BY <1>3, <2>4, <3>1 DEF EndTx
  <2>5. CASE q.op = "set"
    <3>1. r = [cn EXCEPT !.param = q.val]
      BY <1>3, <2>5 DEF Run, Writes
    <3>. QED  BY <1>3, <2>5, <3>1
  <2>6. CASE q.op = "reset"
    <3>1. r = [cn EXCEPT !.param = Default]
      BY <1>3, <2>6 DEF Run, Writes
    <3>. QED  BY <1>3, <2>6, <3>1
  <2>7. CASE q.op = "pin"
    <3>1. r = [cn EXCEPT !.bound = @ \union {s}]
      BY <1>3, <2>7 DEF Run, Writes
    <3>. QED  BY <1>3, <2>7, <3>1
  <2>8. CASE Writes(q)
    <3>. DEFINE dirty == cn.tx = "T"
    <3>1. r = [cn EXCEPT !.dirty = dirty]
      BY <1>3, <2>8 DEF Run, Writes
    <3>2. dirty <=> cn.tx = "T"
      OBVIOUS
    <3>. HIDE DEF dirty
    <3>3. r.dirty = dirty
      BY <3>1
    <3>4. /\ r.by = cn.by /\ r.to = cn.to /\ r.unread = cn.unread
          /\ r.tx = cn.tx /\ r.bound = cn.bound /\ r.param = cn.param
          /\ r.saved = cn.saved
      BY <3>1
    <3>. QED  BY <1>3, <2>8, <3>2, <3>3, <3>4 DEF Writes
  <2>9. CASE /\ ~Writes(q)
             /\ q.op \notin {"begin", "begin_ro", "late_begin", "commit",
                             "rollback", "set", "reset", "pin"}
    <3>1. r = cn
      BY <1>3, <2>9 DEF Run, Writes
    <3>. QED  BY <1>3, <2>9, <3>1
  <2>. QED  BY <2>1, <2>2, <2>3, <2>4, <2>5, <2>6, <2>7, <2>8, <2>9
<1>. QED  BY <1>1, <1>2, <1>3

\* The session as a ReadyForQuery leaves it.
LEMMA AtReadyFacts ==
    ASSUME NEW s \in Sessions, NEW x \in SessionRecords,
           NEW status \in {"I", "T", "E"}, NEW z, z = AtReady(s, x, status)
    PROVE  /\ z.hint = x.hint /\ z.watermark = x.watermark
           /\ z.params = x.params /\ z.wrote = x.wrote /\ z.frame = x.frame
           /\ z.tx = status
           /\ z.fixed = IF status = "I" THEN NoTarget ELSE x.fixed
           /\ z.readOnly <=> x.readOnly /\ status # "I"
           /\ z.pc = "releasing" => x.held # NoTarget
<1>. DEFINE fixed == IF status = "I" THEN NoTarget ELSE x.fixed
            readOnly == x.readOnly /\ status # "I"
            inSequence == FALSE
            y == [x EXCEPT !.tx = status, !.inSequence = inSequence,
                           !.fixed = fixed, !.readOnly = readOnly,
                           !.parsed = None]
            pc == IF ReleaseAtReady(y) /\ s \notin Dedicated
                  THEN "releasing" ELSE "idle"
<1>1. z = [y EXCEPT !.pc = pc]
  BY DEF AtReady
<1>2. /\ fixed = IF status = "I" THEN NoTarget ELSE x.fixed
      /\ readOnly <=> x.readOnly /\ status # "I"
  OBVIOUS
<1>3. pc = "releasing" => y.held # NoTarget
  BY DEF ReleaseAtReady
<1>. HIDE DEF fixed, readOnly, inSequence, pc
<1>4. DOMAIN y = DOMAIN x
  OBVIOUS
<1>5. /\ y.hint = x.hint /\ y.watermark = x.watermark
      /\ y.params = x.params /\ y.wrote = x.wrote /\ y.frame = x.frame
      /\ y.tx = status /\ y.fixed = fixed /\ y.readOnly = readOnly
      /\ y.held = x.held
  BY DEF SessionRecords
<1>. HIDE DEF y
<1>6. /\ z.hint = y.hint /\ z.watermark = y.watermark
      /\ z.params = y.params /\ z.wrote = y.wrote /\ z.frame = y.frame
      /\ z.tx = y.tx /\ z.fixed = y.fixed /\ z.readOnly = y.readOnly
      /\ z.pc = pc
  BY <1>1, <1>4 DEF SessionRecords
<1>. QED  BY <1>2, <1>3, <1>5, <1>6

\* The answer to what was sent, on the connection and on the direct backend.
AnswerEffect(s, ok) ==
    LET x == ses[s]
        z == ses'[s]
        cn == conn[x.conn]
        q == cn.todo
        dn == conn'[x.conn]
    IN  /\ x.pc = "sent" /\ x.conn \in Conns /\ x.conn # NoConn
        /\ cn \in Backends /\ q \in AllStatements /\ q \in Pending(x, conn)
        /\ ok \in Outcomes(cn, q)
        /\ z.conn = x.conn /\ z.held = x.held /\ z.pinned = x.pinned
        /\ z.hint = x.hint /\ z.watermark = x.watermark
        /\ z.params = x.params /\ z.wrote = x.wrote
        /\ z.tx = Status(dn)
        /\ z.fixed = IF dn.tx = "I" THEN NoTarget ELSE x.fixed
        /\ z.readOnly <=> x.readOnly /\ dn.tx # "I"
        /\ z.pc \in {"releasing", "idle"}
        /\ z.pc = "releasing" => dn.tx = "I" /\ ~x.pinned /\ x.held # NoTarget
        /\ Pending(z, conn') = {None} /\ InStep(s, z, conn')
        /\ AfterRun(cn, s, q, ok, dn)
        /\ AfterRun(direct[s], s, q, ok, direct'[s])
        /\ IF Commits(cn, q, ok)
           THEN lsn' = lsn + 1 /\ written'[s] = lsn + 1
           ELSE lsn' = lsn /\ written'[s] = written[s]
        /\ \A c \in Conns : c # x.conn => conn'[c] = conn[c]
        /\ replayed' = replayed /\ seen' = seen
        /\ \A t \in Sessions \ {s} : Apart(t)

\* ServerAnswers runs the statement here and on the client's own backend.
LEMMA AnswerHasEffect ==
    ASSUME RelayInv, NEW s \in Sessions, InStep(s, ses[s], conn),
           NEW ok \in BOOLEAN, ServerAnswers(s, ok)
    PROVE  AnswerEffect(s, ok)
<1>. DEFINE x == ses[s]
            c == x.conn
            cn == conn[c]
            q == cn.todo
            ran == Run(cn, s, q, ok)
            dn == [ran EXCEPT !.todo = None]
            z == AtReady(s, x, Status(ran))
            d == direct[s]
            e == Run(d, s, q, ok)
<1>1. /\ x.pc = "sent" /\ x \in SessionRecords /\ d \in Backends
      /\ ses \in [Sessions -> SessionRecords] /\ conn \in [Conns -> Backends]
      /\ direct \in [Sessions -> Backends]
      /\ written \in [Sessions -> 0 .. MaxLsn]
  BY InvFacts DEF ServerAnswers, RestTypeOK
<1>2. c \in Conns /\ c # NoConn /\ cn \in Backends /\ cn.by = s
  BY <1>1, HeldFacts
<1>3. q \in AllStatements
  BY <1>2 DEF Backends
<1>4. ran \in Backends /\ AfterRun(cn, s, q, ok, ran)
  BY <1>2, <1>3, RunKeeps, RunFacts, SMT
<1>5. AfterRun(d, s, q, ok, e)
  BY <1>1, <1>3, RunFacts
<1>6. /\ ses' = [ses EXCEPT ![s] = z] /\ conn' = [conn EXCEPT ![c] = dn]
      /\ direct' = [direct EXCEPT ![s] = e]
      /\ ok \in Outcomes(cn, q)
      /\ replayed' = replayed /\ seen' = seen
      /\ lsn' = IF Commits(cn, q, ok) THEN lsn + 1 ELSE lsn
      /\ written' = IF Commits(cn, q, ok) THEN [written EXCEPT ![s] = lsn + 1]
                                          ELSE written
  BY DEF ServerAnswers
<1>. HIDE DEF ran, e
<1>7. Status(ran) \in {"I", "T", "E"} /\ (Status(ran) = "I" <=> ran.tx = "I")
  BY <1>4 DEF Status, Backends
<1>8. /\ z.hint = x.hint /\ z.watermark = x.watermark
      /\ z.params = x.params /\ z.wrote = x.wrote /\ z.frame = x.frame
      /\ z.tx = Status(ran)
      /\ z.fixed = IF Status(ran) = "I" THEN NoTarget ELSE x.fixed
      /\ z.readOnly <=> x.readOnly /\ Status(ran) # "I"
      /\ z.pc = "releasing" => x.held # NoTarget
  BY <1>1, <1>7, AtReadyFacts, SMT
<1>9. /\ z.conn = c /\ z.held = x.held /\ z.pinned = x.pinned
      /\ z.parsed = None /\ z.pc \in {"releasing", "idle"}
      /\ z.pc = "releasing" => Status(ran) = "I" /\ ~x.pinned
  BY <1>1, <1>7, AtReadyKeeps
<1>10. SameServer(ran, dn) /\ dn.todo = None
  BY <1>4 DEF SameServer, Backends
<1>. HIDE DEF z, dn
<1>11. /\ ses'[s] = z /\ conn'[c] = dn /\ direct'[s] = e
       /\ \A b \in Conns : b # c => conn'[b] = conn[b]
  BY <1>1, <1>2, <1>6
<1>12. AfterRun(cn, s, q, ok, dn) /\ Status(dn) = Status(ran) /\ dn.tx = ran.tx
  BY <1>4, <1>10, ZenonT(30) DEF AfterRun, SameServer, Status
<1>13. InHand(z, conn') = None
  BY <1>2, <1>9, <1>10, <1>11 DEF InHand
<1>14. Pending(z, conn') = {None}
  BY <1>9, <1>13 DEF Pending
<1>15. x.frame.kind = "none"
  BY <1>1 DEF InStep
<1>16. InStep(s, z, conn')
  BY <1>8, <1>9, <1>13, <1>15 DEF InStep
<1>17. q \in Pending(x, conn)
  BY <1>1, <1>2 DEF Pending, InHand
<1>18. IF Commits(cn, q, ok)
       THEN lsn' = lsn + 1 /\ written'[s] = lsn + 1
       ELSE lsn' = lsn /\ written'[s] = written[s]
  BY <1>1, <1>6
<1>19. \A t \in Sessions \ {s} :
         ses'[t] = ses[t] /\ direct'[t] = direct[t] /\ written'[t] = written[t]
  BY <1>1, <1>6
<1>20. \A t \in Sessions \ {s} : Apart(t)
  BY <1>2, <1>11, <1>19, OthersApart
<1>21. /\ z.tx = Status(dn)
       /\ z.fixed = IF dn.tx = "I" THEN NoTarget ELSE x.fixed
       /\ z.readOnly <=> x.readOnly /\ dn.tx # "I"
       /\ z.pc = "releasing" => dn.tx = "I" /\ ~x.pinned
  BY <1>7, <1>8, <1>9, <1>12
<1>22. AfterRun(direct[s], s, q, ok, direct'[s])
  BY <1>5, <1>11
<1>. HIDE DEF x
<1>. QED  BY <1>1, <1>2, <1>3, <1>6, <1>8, <1>9, <1>11, <1>12, <1>14, <1>16,
             <1>17, <1>18, <1>20, <1>21, <1>22 DEF AnswerEffect, x

\* The position asked for and the connection given back, in two steps.
ReleaseEffect(s) ==
    LET x == ses[s]
        z == ses'[s]
        cn == conn[x.conn]
    IN  /\ x.pc = "releasing" /\ x.conn \in Conns /\ x.conn # NoConn
        /\ cn \in Backends /\ Clean(cn)
        /\ z.pc = "returning" /\ z.held = NoTarget /\ z.conn = x.conn
        /\ z.pinned = x.pinned /\ z.hint = x.hint /\ z.params = x.params
        /\ z.tx = x.tx /\ z.fixed = x.fixed /\ z.readOnly = x.readOnly
        /\ \/ z.wrote = x.wrote /\ z.watermark = x.watermark
           \/ ~z.wrote /\ z.watermark \in Nat /\ z.watermark >= lsn
        /\ Pending(z, conn') = Pending(x, conn) /\ InStep(s, z, conn')
        /\ conn'[x.conn] = cn \/ conn'[x.conn] = [cn EXCEPT !.unread = "socket"]
             \/ /\ conn'[x.conn] = [cn EXCEPT !.unread = "buffer"]
                /\ x.wrote /\ cn.to # Primary
        /\ \A c \in Conns : c # x.conn => conn'[c] = conn[c]
        /\ UNCHANGED <<lsn, replayed, seen, direct, written>>
        /\ \A t \in Sessions \ {s} : Apart(t)

\* Release runs on a clean connection and learns a position or not.
LEMMA ReleaseHasEffect ==
    ASSUME RelayInv, NEW s \in Sessions, InStep(s, ses[s], conn),
           NEW outcome, Release(s, outcome)
    PROVE  ReleaseEffect(s)
<1>. DEFINE x == ses[s]
            c == x.conn
            cn == conn[c]
            y == IF x.wrote THEN RecordWrite(x, outcome) ELSE x
            z == [y EXCEPT !.pc = "returning", !.held = NoTarget]
            dn == IF x.wrote THEN AfterProbe(cn, outcome) ELSE cn
<1>1. /\ x.pc = "releasing" /\ x \in SessionRecords
      /\ ses \in [Sessions -> SessionRecords] /\ conn \in [Conns -> Backends]
      /\ lsn \in 0 .. MaxLsn
  BY InvFacts DEF Release, RestTypeOK
<1>2. /\ c \in Conns /\ c # NoConn /\ cn \in Backends /\ cn.by = s
  BY <1>1, HeldFacts
<1>3. Clean(cn)
  BY <1>1, <1>2, InvFacts DEF Owns
<1>4. /\ y \in SessionRecords /\ y.conn = c /\ y.pinned = x.pinned
      /\ y.hint = x.hint /\ y.params = x.params /\ y.tx = x.tx
      /\ y.fixed = x.fixed /\ y.readOnly = x.readOnly
      /\ y.parsed = x.parsed /\ y.frame = x.frame
      /\ \/ y.wrote = x.wrote /\ y.watermark = x.watermark
         \/ ~y.wrote /\ y.watermark \in Nat /\ y.watermark >= lsn
  <2>. DEFINE wrote == FALSE
              watermark == IF x.watermark >= lsn THEN x.watermark ELSE lsn
              u == [x EXCEPT !.wrote = wrote, !.watermark = watermark]
  <2>1. wrote \in BOOLEAN /\ watermark \in 0 .. MaxLsn /\ watermark >= lsn /\ ~wrote
    BY <1>1, SMT DEF SessionRecords
  <2>2. y = x \/ y = u
    BY DEF RecordWrite
  <2>. HIDE DEF wrote, watermark, y
  <2>3. u \in SessionRecords
    BY <1>1, <2>1 DEF SessionRecords
  <2>4. /\ u.conn = c /\ u.pinned = x.pinned
        /\ u.hint = x.hint /\ u.params = x.params /\ u.tx = x.tx
        /\ u.fixed = x.fixed /\ u.readOnly = x.readOnly
        /\ u.parsed = x.parsed /\ u.frame = x.frame
    BY <1>1 DEF SessionRecords
  <2>5. u.wrote = wrote /\ u.watermark = watermark
    BY <1>1 DEF SessionRecords
  <2>. HIDE DEF u
  <2>6. ~u.wrote /\ u.watermark \in Nat /\ u.watermark >= lsn
    BY <2>1, <2>5, RelayAssumption, SMT
  <2>. QED  BY <1>1, <2>2, <2>3, <2>4, <2>6
<1>5. \/ dn = cn \/ dn = [cn EXCEPT !.unread = "socket"]
      \/ /\ dn = [cn EXCEPT !.unread = "buffer"]
         /\ x.wrote /\ cn.to # Primary
  BY DEF AfterProbe, Release, ProbeOutcomes
<1>6. /\ ses' = [ses EXCEPT ![s] = z]
      /\ UNCHANGED <<lsn, replayed, seen, direct, written>>
  BY DEF Release
<1>7. conn' = [conn EXCEPT ![c] = dn]
  BY <1>1, <1>2 DEF Release
<1>. HIDE DEF y, dn
<1>8. /\ z.pc = "returning" /\ z.held = NoTarget
      /\ z.conn = y.conn /\ z.pinned = y.pinned
      /\ z.hint = y.hint /\ z.params = y.params /\ z.tx = y.tx
      /\ z.fixed = y.fixed /\ z.readOnly = y.readOnly
      /\ z.parsed = y.parsed /\ z.frame = y.frame
      /\ z.wrote = y.wrote /\ z.watermark = y.watermark
  BY <1>4 DEF SessionRecords
<1>. HIDE DEF z
<1>9. /\ ses'[s] = z /\ conn'[c] = dn
      /\ \A b \in Conns : b # c => conn'[b] = conn[b]
  BY <1>1, <1>2, <1>6, <1>7
<1>10. dn.todo = cn.todo
  BY <1>2, <1>5 DEF Backends
<1>11. InHand(z, conn') = InHand(x, conn)
  BY <1>1, <1>2, <1>4, <1>8, <1>9, <1>10 DEF InHand
<1>12. Pending(z, conn') = Pending(x, conn)
  BY <1>4, <1>8, <1>11 DEF Pending
<1>13. InStep(s, z, conn')
  BY <1>1, <1>4, <1>8 DEF InStep
<1>14. \A t \in Sessions \ {s} :
         ses'[t] = ses[t] /\ direct'[t] = direct[t] /\ written'[t] = written[t]
  BY <1>1, <1>6
<1>15. \A t \in Sessions \ {s} : Apart(t)
  BY <1>2, <1>9, <1>14, OthersApart
<1>. HIDE DEF x
<1>. QED  BY <1>1, <1>2, <1>3, <1>4, <1>5, <1>6, <1>8, <1>9, <1>12, <1>13,
             <1>15, SMT DEF ReleaseEffect, x

\* The hint: only it changes.
HintEffect(s) ==
    LET x == ses[s]
        z == ses'[s]
    IN  /\ x.pc = "idle" /\ x.parsed = None /\ z.pc = "idle"
        /\ Op("route_replica") \in Queried[s]
        /\ z.conn = x.conn /\ z.held = x.held /\ z.tx = x.tx
        /\ z.watermark = x.watermark /\ z.pinned = x.pinned
        /\ z.params = x.params /\ z.fixed = x.fixed
        /\ z.readOnly = x.readOnly /\ z.wrote = x.wrote
        /\ z.hint = "replica"
        /\ Pending(x, conn) = {None} /\ Pending(z, conn') = {None}
        /\ InStep(s, z, conn')
        /\ UNCHANGED <<conn, lsn, replayed, seen, direct, written>>
        /\ \A t \in Sessions \ {s} : Apart(t)

\* A route hint changes the hint and nothing else.
LEMMA HintHasEffect ==
    ASSUME RelayInv, NEW s \in Sessions, InStep(s, ses[s], conn),
           ClientHints(s)
    PROVE  HintEffect(s)
<1>. DEFINE x == ses[s]
            z == [x EXCEPT !.hint = "replica"]
<1>1. /\ x \in SessionRecords /\ ses \in [Sessions -> SessionRecords]
      /\ x.pc = "idle" /\ x.parsed = None /\ Op("route_replica") \in Queried[s]
      /\ ses' = [ses EXCEPT ![s] = z]
      /\ UNCHANGED <<conn, lsn, replayed, seen, direct, written>>
  BY InvFacts DEF ClientHints
<1>2. /\ z.pc = x.pc /\ z.conn = x.conn /\ z.held = x.held /\ z.tx = x.tx
      /\ z.watermark = x.watermark /\ z.pinned = x.pinned
      /\ z.params = x.params /\ z.fixed = x.fixed
      /\ z.readOnly = x.readOnly /\ z.wrote = x.wrote
      /\ z.hint = "replica" /\ z.parsed = x.parsed /\ z.frame = x.frame
      /\ z.target = x.target
  BY <1>1 DEF SessionRecords
<1>. HIDE DEF z
<1>3. ses'[s] = z
  BY <1>1
<1>4. InHand(z, conn) = InHand(x, conn) /\ Going(z) = Going(x)
  BY <1>2 DEF InHand, Going
<1>5. InStep(s, z, conn)
  BY <1>2, <1>4 DEF InStep
<1>6. InHand(x, conn) = None
  BY <1>1 DEF InStep
<1>7. Pending(x, conn) = {None} /\ Pending(z, conn) = {None}
  BY <1>1, <1>2, <1>4, <1>6 DEF Pending
<1>8. conn' = conn
  BY <1>1
<1>9. \A t \in Sessions \ {s} : Apart(t)
  BY <1>1 DEF Apart
<1>. HIDE DEF x
<1>. QED  BY <1>1, <1>2, <1>3, <1>5, <1>7, <1>8, <1>9 DEF HintEffect, x

\* The guard of a clean connection dropped.
DropEffect(s) ==
    LET x == ses[s]
        z == ses'[s]
        cn == conn[x.conn]
    IN  /\ x.pc = "returning" /\ x.conn \in Conns /\ x.conn # NoConn
        /\ cn \in Backends /\ Clean(cn)
        /\ z.pc = "idle" /\ z.conn = NoConn
        /\ x.held = NoTarget /\ z.held = NoTarget
        /\ z.tx = x.tx /\ z.hint = x.hint
        /\ z.watermark = x.watermark /\ z.pinned = x.pinned
        /\ z.params = x.params /\ z.fixed = x.fixed
        /\ z.readOnly = x.readOnly /\ z.wrote = x.wrote
        /\ Pending(x, conn) = {None} /\ Pending(z, conn') = {None}
        /\ InStep(s, z, conn')
        /\ conn'[x.conn] = [cn EXCEPT !.by = "idle"]
        /\ \A c \in Conns : c # x.conn => conn'[c] = conn[c]
        /\ UNCHANGED <<lsn, replayed, seen, direct, written>>
        /\ \A t \in Sessions \ {s} : Apart(t)

\* The guard puts a clean connection back.
LEMMA DropHasEffect ==
    ASSUME RelayInv, NEW s \in Sessions, InStep(s, ses[s], conn),
           GuardDrops(s)
    PROVE  DropEffect(s)
<1>. DEFINE x == ses[s]
            c == x.conn
            cn == conn[c]
            z == [x EXCEPT !.pc = "idle", !.conn = NoConn]
<1>1. /\ x \in SessionRecords /\ ses \in [Sessions -> SessionRecords]
      /\ conn \in [Conns -> Backends]
      /\ x.pc = "returning" /\ ses' = [ses EXCEPT ![s] = z]
      /\ conn' = [conn EXCEPT ![c].by = "idle"]
      /\ UNCHANGED <<lsn, replayed, seen, direct, written>>
  BY InvFacts DEF GuardDrops
<1>2. c \in Conns /\ c # NoConn /\ cn \in Backends /\ cn.by = s
  BY <1>1, HeldFacts
<1>3. Clean(cn) /\ x.held = NoTarget
  BY <1>1, <1>2, InvFacts DEF Owns, HoldsWell
<1>4. /\ z.pc = "idle" /\ z.conn = NoConn /\ z.held = x.held /\ z.tx = x.tx
      /\ z.watermark = x.watermark /\ z.pinned = x.pinned
      /\ z.params = x.params /\ z.fixed = x.fixed
      /\ z.readOnly = x.readOnly /\ z.wrote = x.wrote
      /\ z.hint = x.hint /\ z.parsed = x.parsed /\ z.frame = x.frame
  BY <1>1 DEF SessionRecords
<1>. HIDE DEF z
<1>5. /\ ses'[s] = z /\ conn'[c] = [cn EXCEPT !.by = "idle"]
      /\ \A d \in Conns : d # c => conn'[d] = conn[d]
  BY <1>1, <1>2
<1>6. x.parsed = None /\ x.frame.kind = "none"
  BY <1>1 DEF InStep
<1>7. InHand(x, conn) = None /\ InHand(z, conn') = None
  BY <1>1, <1>2, <1>3, <1>4 DEF InHand, Clean
<1>8. Pending(x, conn) = {None} /\ Pending(z, conn') = {None}
  BY <1>4, <1>6, <1>7 DEF Pending
<1>9. InStep(s, z, conn')
  BY <1>4, <1>6, <1>7 DEF InStep
<1>10. \A t \in Sessions \ {s} :
         ses'[t] = ses[t] /\ direct'[t] = direct[t] /\ written'[t] = written[t]
  BY <1>1
<1>11. \A t \in Sessions \ {s} : Apart(t)
  BY <1>2, <1>5, <1>10, OthersApart
<1>. HIDE DEF x
<1>. QED  BY <1>1, <1>2, <1>3, <1>4, <1>5, <1>8, <1>9, <1>11
             DEF DropEffect, x

\* The session over: nothing is left of it.
EndEffect(s) ==
    LET z == ses'[s] IN
    /\ z.pc = "gone" /\ z.conn = NoConn /\ z.held = NoTarget /\ z.tx = "I"
    /\ z.hint = "auto" /\ z.watermark = 0 /\ ~z.pinned /\ z.params = Default
    /\ z.fixed = NoTarget /\ ~z.readOnly /\ ~z.wrote
    /\ Pending(z, conn') = {None} /\ InStep(s, z, conn')
    /\ direct'[s] = Closed /\ written'[s] = 0
    /\ \A c \in Conns : conn'[c] = conn[c] \/ conn'[c] = Closed
    /\ UNCHANGED <<lsn, replayed, seen>>
    /\ \A t \in Sessions \ {s} : Apart(t)

\* A session that ends leaves nothing behind, here or at its connection.
LEMMA EndHasEffect ==
    ASSUME RelayInv, NEW s \in Sessions, Ends(s)
    PROVE  EndEffect(s)
<1>. DEFINE x == ses[s]
            z == [NewSession EXCEPT !.pc = "gone"]
<1>1. /\ x \in SessionRecords /\ ses \in [Sessions -> SessionRecords]
      /\ conn \in [Conns -> Backends] /\ direct \in [Sessions -> Backends]
      /\ written \in [Sessions -> 0 .. MaxLsn]
      /\ ses' = [ses EXCEPT ![s] = z]
      /\ conn' = IF x.conn = NoConn THEN conn ELSE [conn EXCEPT ![x.conn] = Closed]
      /\ direct' = [direct EXCEPT ![s] = Closed]
      /\ written' = [written EXCEPT ![s] = 0]
      /\ UNCHANGED <<lsn, replayed, seen>>
  BY InvFacts DEF Ends, RestTypeOK
<1>2. /\ z.pc = "gone" /\ z.conn = NoConn /\ z.held = NoTarget /\ z.tx = "I"
      /\ z.hint = "auto" /\ z.watermark = 0 /\ ~z.pinned /\ z.params = Default
      /\ z.fixed = NoTarget /\ ~z.readOnly /\ ~z.wrote
      /\ z.parsed = None /\ z.frame = NoFrame
  BY DEF NewSession
<1>. HIDE DEF z
<1>3. ses'[s] = z /\ direct'[s] = Closed /\ written'[s] = 0
  BY <1>1
<1>4. x.conn # NoConn => x.conn \in Conns /\ conn[x.conn].by = s
  BY HeldFacts
<1>5. \A c \in Conns : conn'[c] = conn[c] \/ (conn'[c] = Closed /\ conn[c].by = s)
  BY <1>1, <1>4
<1>6. NoFrame.kind = "none"
  BY DEF NoFrame, Frame
<1>7. InHand(z, conn') = None /\ Pending(z, conn') = {None}
  BY <1>2 DEF InHand, Pending
<1>8. InStep(s, z, conn')
  BY <1>2, <1>6 DEF InStep
<1>9. \A t \in Sessions \ {s} :
        ses'[t] = ses[t] /\ direct'[t] = direct[t] /\ written'[t] = written[t]
  BY <1>1
<1>10. \A t \in Sessions \ {s} : Apart(t)
  BY <1>5, <1>9, OthersApart
<1>. QED  BY <1>1, <1>2, <1>3, <1>5, <1>7, <1>8, <1>10 DEF EndEffect

\* What no session does: something happens to a connection in the pool, or
\* to what is known of a replica, or nothing happens.
AmbientEffect ==
    /\ \A c \in Conns : \/ conn'[c] = conn[c] \/ conn'[c] = Closed
                        \/ conn'[c] = [conn[c] EXCEPT !.unread = "socket"]
    /\ \A r \in Replicas :
         /\ replayed'[r] >= replayed[r]
         /\ seen'[r] \in {seen[r], replayed[r], Unheard}
    /\ UNCHANGED lsn
    /\ \A t \in Sessions : Apart(t)

\* Discards, reaps, replays and polls touch no session and no connection
\* in use.
LEMMA AmbientHasEffect ==
    ASSUME RelayInv,
           \/ \E s \in Sessions, c \in Conns : DiscardUnfit(s, c)
           \/ \E c \in Conns : ServerSpeaks(c) \/ Reap(c)
           \/ \E r \in Replicas : Replay(r) \/ Poll(r) \/ PollFails(r)
           \/ UNCHANGED vars
    PROVE  AmbientEffect
<1>0. /\ conn \in [Conns -> Backends]
      /\ replayed \in [Replicas -> 0 .. MaxLsn]
      /\ seen \in [Replicas -> -1 .. MaxLsn]
  BY DEF RelayInv, RelayTypeOK
<1>1. ASSUME NEW c \in Conns, conn[c].by = "idle",
             NEW dn, dn = Closed \/ dn = [conn[c] EXCEPT !.unread = "socket"],
             conn' = [conn EXCEPT ![c] = dn],
             UNCHANGED <<ses, lsn, replayed, seen, direct, written>>
      PROVE  AmbientEffect
  <2>1. \A t \in Sessions : Apart(t)
    <3>. SUFFICES ASSUME NEW t \in Sessions PROVE Apart(t)
      OBVIOUS
    <3>1. ses[t].conn # NoConn => ses[t].conn \in Conns /\ conn[ses[t].conn].by = t
      BY HeldFacts
    <3>2. t # "idle"
      BY RelayAssumption
    <3>3. ses[t].conn # NoConn => ses[t].conn # c
      BY <1>1, <3>1, <3>2
    <3>. QED  BY <1>0, <1>1, <3>1, <3>3 DEF Apart
  <2>2. \A d \in Conns : conn'[d] = IF d = c THEN dn ELSE conn[d]
    BY <1>0, <1>1
  <2>3. \A r \in Replicas : replayed'[r] = replayed[r] /\ seen'[r] = seen[r]
          /\ replayed[r] \in Int
    BY <1>0, <1>1, SMT
  <2>. QED  BY <1>1, <2>1, <2>2, <2>3, SMT DEF AmbientEffect
<1>2. CASE \E s \in Sessions, c \in Conns : DiscardUnfit(s, c)
  BY <1>1, <1>2 DEF DiscardUnfit
<1>3. CASE \E c \in Conns : Reap(c)
  BY <1>1, <1>3 DEF Reap
<1>4. CASE \E c \in Conns : ServerSpeaks(c)
  <2>1. PICK c \in Conns : ServerSpeaks(c)
    BY <1>4
  <2>2. /\ conn[c].by = "idle"
        /\ conn' = [conn EXCEPT ![c] = [conn[c] EXCEPT !.unread = "socket"]]
        /\ UNCHANGED <<ses, lsn, replayed, seen, direct, written>>
    BY <1>0, <2>1 DEF ServerSpeaks
  <2>. QED  BY <1>1, <2>2
<1>5. CASE \/ \E r \in Replicas : Replay(r) \/ Poll(r) \/ PollFails(r)
           \/ UNCHANGED vars
  <2>1. UNCHANGED <<ses, conn, lsn, direct, written>>
    BY <1>5 DEF Replay, Poll, PollFails, vars
  <2>2. \A t \in Sessions : Apart(t)
    BY <2>1 DEF Apart
  <2>3. \A r \in Replicas :
          /\ replayed'[r] >= replayed[r]
          /\ seen'[r] \in {seen[r], replayed[r], Unheard}
    BY <1>0, <1>5, SMT DEF Replay, Poll, PollFails, vars
  <2>. QED  BY <2>1, <2>2, <2>3 DEF AmbientEffect
<1>. QED  BY <1>2, <1>3, <1>4, <1>5

\* A step is session t's own, or leaves t alone.
ActsOn(t) ==
    \/ \E f \in Frames : SendEffect(t, f, Aim(ses[t], f))
    \/ HintEffect(t)
    \/ \E c \in Conns, cn \in Backends : InstallEffect(t, c, cn)
    \/ \E ok \in BOOLEAN : AnswerEffect(t, ok)
    \/ ReleaseEffect(t)
    \/ DropEffect(t)
    \/ EndEffect(t)

\* What a step does: one session acts, or none does.
StepEffect == (\E s \in Sessions : ActsOn(s)) \/ AmbientEffect

\* A session acts in a step or is left apart by it.
LEMMA ActsOrApart ==
    ASSUME StepEffect, NEW t \in Sessions
    PROVE  ActsOn(t) \/ Apart(t)
<1>1. CASE AmbientEffect
  BY <1>1 DEF AmbientEffect
<1>2. ASSUME NEW s \in Sessions, ActsOn(s)
      PROVE  \A u \in Sessions \ {s} : Apart(u)
  BY <1>2 DEF ActsOn, SendEffect, HintEffect, InstallEffect, AnswerEffect,
              ReleaseEffect, DropEffect, EndEffect
<1>. QED  BY <1>1, <1>2 DEF StepEffect

\* Every step of the relay has one of these effects.
LEMMA StepHasEffect ==
    ASSUME RelayInv, [Next]_vars,
           \A s \in Sessions : InStep(s, ses[s], conn)
    PROVE  StepEffect
<1>1. CASE \/ \E s \in Sessions, c \in Conns : DiscardUnfit(s, c)
           \/ \E c \in Conns : ServerSpeaks(c) \/ Reap(c)
           \/ \E r \in Replicas : Replay(r) \/ Poll(r) \/ PollFails(r)
           \/ UNCHANGED vars
  BY <1>1, AmbientHasEffect DEF StepEffect, ActsOn
<1>2. ASSUME NEW s \in Sessions,
             \/ \E f \in ClientFrames(s) : ClientSends(s, f)
             \/ ClientHints(s)
             \/ \E c \in Conns : AcquireIdle(s, c) \/ AcquireNew(s, c)
             \/ \E ok \in BOOLEAN : ServerAnswers(s, ok)
             \/ \E outcome \in ProbeResults : Release(s, outcome)
             \/ GuardDrops(s)
             \/ Ends(s)
      PROVE  StepEffect
  <2>1. CASE \E f \in ClientFrames(s) : ClientSends(s, f)
    <3>1. PICK f \in ClientFrames(s) : ClientSends(s, f)
      BY <2>1
    <3>2. f \in Frames
      BY ClientFramesTyped DEF RelayInv
    <3>. QED  BY <3>1, <3>2, SendHasEffect DEF StepEffect, ActsOn
  <2>2. CASE ClientHints(s)
    BY <2>2, HintHasEffect DEF StepEffect, ActsOn
  <2>3. CASE \E c \in Conns : AcquireIdle(s, c) \/ AcquireNew(s, c)
    <3>1. PICK c \in Conns : AcquireIdle(s, c) \/ AcquireNew(s, c)
      BY <2>3
    <3>2. PICK cn : InstallEffect(s, c, cn)
      BY <3>1, AcquireHasEffect
    <3>3. cn \in Backends
      BY <3>2 DEF InstallEffect
    <3>. QED  BY <3>2, <3>3 DEF StepEffect, ActsOn
  <2>4. CASE \E ok \in BOOLEAN : ServerAnswers(s, ok)
    BY <2>4, AnswerHasEffect DEF StepEffect, ActsOn
  <2>5. CASE \E outcome \in ProbeResults : Release(s, outcome)
    BY <2>5, ReleaseHasEffect DEF StepEffect, ActsOn
  <2>6. CASE GuardDrops(s)
    BY <2>6, DropHasEffect DEF StepEffect, ActsOn
  <2>7. CASE Ends(s)
    BY <2>7, EndHasEffect DEF StepEffect, ActsOn
  <2>. QED  BY <1>2, <2>1, <2>2, <2>3, <2>4, <2>5, <2>6, <2>7
<1>. QED  BY <1>1, <1>2 DEF Next
=============================================================================
