----------------------------- MODULE NodeProofs -----------------------------
(***************************************************************************)
(* Theorems about the smaller components of a node: the front door         *)
(* (FrontDoor), the wire buffers of its sessions (WireBuffers) and the     *)
(* digests it keeps of a peer (Digests), for every value of their          *)
(* constants.                                                              *)
(***************************************************************************)
EXTENDS FrontDoor, WireBuffers, Digests, FiniteSetTheorems, SequenceTheorems, TLAPS

\* First-order leaves go to Zenon, the others to the SMT solver.
USE ZenonT(3), SMTT(20)

(***************************************************************************)
(* FrontDoor.                                                              *)
(***************************************************************************)

VisitorType == [at : VisitorPlace, held : BOOLEAN, woken : SUBSET Reasons, cut : Reasons \cup {"no"}]
TickerType == [at : TickerPlace, todo : SUBSET Visitors, due : BOOLEAN, grace : Nat]

\* The shapes the proofs need: FrontTypeOK without its bounds.
Shape ==
  /\ visitor \in [Visitors -> VisitorType]
  /\ registry \in [Visitors -> Entries \cup {NoEntry}]
  /\ gate \in [live : Int, ceiling : Nat]
  /\ signal \in [draining : BOOLEAN, closing : BOOLEAN, stop : BOOLEAN]
  /\ document \in Documents /\ mode \in {"Active", "Draining"}
  /\ ticker \in TickerType

-----------------------------------------------------------------------------
(* The helpers keep the shapes.                                            *)

\* An entry of the registry is not the absence of one.
LEMMA EntriesAreThere == \A e \in Entries : e # NoEntry
BY SMT DEF Entries, NoEntry

\* An entry whose state changes is an entry (Sessions::set_state).
LEMMA EntriesStayEntries ==
  ASSUME NEW e \in Entries, NEW state \in {"Idle", "Active"}
  PROVE  [e EXCEPT !.state = state, !.since = 0] \in Entries
<1>1. 0 \in 0..IdleTimeout
  BY FrontAssumption, SMT
<1>2. [e EXCEPT !.state = state] \in Entries
  BY DEF Entries
<1>3. \A f \in Entries : [f EXCEPT !.since = 0] \in Entries
  BY <1>1 DEF Entries
<1> QED BY <1>2, <1>3

\* A signal wakes tasks and changes nothing else of them (Shutdown::fire, clear).
LEMMA SentOnlyWakes ==
  ASSUME visitor \in [Visitors -> VisitorType], NEW s \in Reasons
  PROVE  /\ Sent(s) \in [Visitors -> VisitorType]
         /\ \A v \in Visitors : Sent(s)[v].at = visitor[v].at /\ Sent(s)[v].cut = visitor[v].cut
<1>1. ASSUME NEW v \in Visitors
      PROVE  LET w == [visitor[v] EXCEPT !.woken = @ \cup {s}]
             IN  w \in VisitorType /\ w.at = visitor[v].at /\ w.cut = visitor[v].cut
  BY DEF VisitorType
<1>2. \A v \in Visitors : Sent(s)[v] = IF visitor[v].at = "waiting"
                                       THEN [visitor[v] EXCEPT !.woken = @ \cup {s}] ELSE visitor[v]
  BY DEF Sent
<1>3. \A v \in Visitors : Sent(s)[v] \in VisitorType /\ Sent(s)[v].at = visitor[v].at /\ Sent(s)[v].cut = visitor[v].cut
  BY <1>1, <1>2
<1> QED BY <1>3 DEF Sent

\* What a session finds fired is one of the reasons to go.
LEMMA FiredType == \A e : AlreadyFired(e) \in SUBSET Reasons
BY DEF AlreadyFired, Reasons

\* A close signal changes a client's wake-ups and its entry's flag, and makes
\* no entry (Sessions::shed, close_idle).
LEMMA FiresOnlyWakes ==
  ASSUME Shape, NEW v \in Visitors, Fires(v)
  PROVE  /\ visitor' \in [Visitors -> VisitorType]
         /\ registry' \in [Visitors -> Entries \cup {NoEntry}]
         /\ \A u \in Visitors : visitor'[u].at = visitor[u].at /\ visitor'[u].cut = visitor[u].cut
         /\ \A u \in Visitors : registry'[u] = NoEntry <=> registry[u] = NoEntry
<1>1. CASE Registered(v)
  <2>1. registry[v] \in Entries /\ [registry[v] EXCEPT !.close = TRUE] \in Entries
    BY <1>1 DEF Registered, Shape, Entries
  <2>2. registry' = [registry EXCEPT ![v] = [registry[v] EXCEPT !.close = TRUE]]
    BY <1>1 DEF Fires
  <2>3. /\ registry' \in [Visitors -> Entries \cup {NoEntry}]
        /\ \A u \in Visitors : registry'[u] = NoEntry <=> registry[u] = NoEntry
    BY <2>1, <2>2, EntriesAreThere DEF Shape
  <2> DEFINE w == [visitor[v] EXCEPT !.woken = @ \cup {"close"}]
  <2>4. w \in VisitorType /\ w.at = visitor[v].at /\ w.cut = visitor[v].cut
    BY SMT DEF Shape, VisitorType, Reasons
  <2>5. visitor' \in {visitor, [visitor EXCEPT ![v] = w]}
    BY <1>1 DEF Fires
  <2> HIDE DEF w
  <2> QED BY <2>3, <2>4, <2>5, SMT DEF Shape
<1>2. CASE ~Registered(v)
  BY <1>2 DEF Fires, Shape
<1> QED BY <1>1, <1>2

-----------------------------------------------------------------------------
(* Counting.                                                               *)

AdmittedAt == {"login", "waiting", "serving", "leaving"}
RegisteredAt == {"waiting", "serving", "leaving", "left"}
Admitted == {v \in Visitors : visitor[v].at \in AdmittedAt}

\* Nobody moves: the counts stand.
LEMMA NobodyMoves ==
  ASSUME Shape, GateCountsTheAdmitted, gate'.live = gate.live,
         \A u \in Visitors : visitor'[u].at = visitor[u].at,
         \A u \in Visitors : registry'[u] = NoEntry <=> registry[u] = NoEntry
  PROVE  GateCountsTheAdmitted'
<1>1. Admitted' = Admitted
  BY DEF Admitted
<1>2. gate.live = Cardinality(Admitted)
  BY DEF GateCountsTheAdmitted, Admitted, AdmittedAt
<1>3. gate'.live = Cardinality(Admitted')
  BY <1>1, <1>2
<1>4. \A u \in Visitors : Registered(u)' <=> visitor'[u].at \in RegisteredAt
  BY DEF GateCountsTheAdmitted, Registered, RegisteredAt
<1> QED BY <1>3, <1>4 DEF GateCountsTheAdmitted, Admitted, AdmittedAt, RegisteredAt

Weight(place) == IF place \in AdmittedAt THEN 1 ELSE 0

\* One client moves, and the gate and the registry with it.
LEMMA OneMoves ==
  ASSUME Shape, GateCountsTheAdmitted, NEW v \in Visitors, NEW w \in VisitorType,
         NEW e \in Entries \cup {NoEntry},
         visitor' = [visitor EXCEPT ![v] = w], registry' = [registry EXCEPT ![v] = e],
         e # NoEntry <=> w.at \in RegisteredAt,
         gate'.live = gate.live + Weight(w.at) - Weight(visitor[v].at)
  PROVE  /\ visitor' \in [Visitors -> VisitorType] /\ registry' \in [Visitors -> Entries \cup {NoEntry}]
         /\ GateCountsTheAdmitted'
<1>1. visitor' \in [Visitors -> VisitorType] /\ registry' \in [Visitors -> Entries \cup {NoEntry}]
  BY DEF Shape
<1>2. \A u \in Visitors : Registered(u)' <=> visitor'[u].at \in RegisteredAt
  BY DEF GateCountsTheAdmitted, Registered, RegisteredAt, Shape
<1>3. IsFiniteSet(Admitted) /\ gate.live = Cardinality(Admitted) /\ Cardinality(Admitted) \in Nat
  <2>1. Admitted \subseteq Visitors
    BY DEF Admitted
  <2>2. gate.live = Cardinality(Admitted)
    BY DEF GateCountsTheAdmitted, Admitted, AdmittedAt
  <2> QED BY <2>1, <2>2, FrontAssumption, FS_Subset, FS_CardinalityType
<1>4. gate'.live = Cardinality(Admitted')
  <2>1. CASE w.at \in AdmittedAt /\ v \notin Admitted
    <3>1. Admitted' = Admitted \cup {v}
      BY <2>1 DEF Admitted, Shape
    <3>2. Cardinality(Admitted \cup {v}) = Cardinality(Admitted) + 1
      BY <1>3, <2>1, FS_AddElement
    <3>3. Weight(w.at) = 1 /\ Weight(visitor[v].at) = 0
      BY <2>1 DEF Weight, Admitted
    <3> QED BY <1>3, <3>1, <3>2, <3>3, SMT
  <2>2. CASE w.at \notin AdmittedAt /\ v \in Admitted
    <3>1. Admitted' = Admitted \ {v}
      BY <2>2 DEF Admitted, Shape
    <3>2. Cardinality(Admitted \ {v}) = Cardinality(Admitted) - 1
      BY <1>3, <2>2, FS_RemoveElement
    <3>3. Weight(w.at) = 0 /\ Weight(visitor[v].at) = 1
      BY <2>2 DEF Weight, Admitted
    <3> QED BY <1>3, <3>1, <3>2, <3>3, SMT
  <2>3. CASE w.at \in AdmittedAt <=> v \in Admitted
    <3>1. Admitted' = Admitted
      BY <2>3 DEF Admitted, Shape
    <3>2. Weight(w.at) = Weight(visitor[v].at) /\ Weight(w.at) \in Nat
      BY <2>3 DEF Weight, Admitted
    <3> QED BY <1>3, <3>1, <3>2, SMT
  <2> QED BY <2>1, <2>2, <2>3
<1> QED BY <1>1, <1>2, <1>4 DEF GateCountsTheAdmitted, Admitted, AdmittedAt, RegisteredAt

-----------------------------------------------------------------------------
(* The invariant.                                                          *)

\* Where the ticker is in a drain tells what it has said so far.
DrainInOrder ==
  /\ ticker.at \in {"announcing", "settling"} => mode = "Draining"
  /\ ticker.at = "clearing" => ~signal.draining

FrontInv == Shape /\ GateCountsTheAdmitted /\ OnlyTheGraceCuts /\ PeersHearFirst /\ DrainInOrder

\* The node starts empty.
LEMMA InitFrontInv == FrontInit => FrontInv
<1> SUFFICES ASSUME FrontInit PROVE FrontInv
  OBVIOUS
<1>1. Away \in VisitorType /\ Away.at = "away" /\ Away.cut = "no"
  BY DEF Away, VisitorType, VisitorPlace, Reasons
<1>2. visitor \in [Visitors -> VisitorType] /\ \A v \in Visitors : visitor[v] = Away /\ registry[v] = NoEntry
  BY <1>1 DEF FrontInit
<1>3. document \in Documents /\ gate = [live |-> 0, ceiling |-> document.ceiling] /\ document.ceiling \in Nat
  BY FrontAssumption DEF FrontInit
<1>4. Shape
  BY <1>2, <1>3, SMT DEF FrontInit, Shape, TickerType, TickerPlace
<1>5. Admitted = {} /\ Cardinality({}) = 0
  BY <1>1, <1>2, FS_EmptySet DEF Admitted, AdmittedAt
<1>6. GateCountsTheAdmitted
  BY <1>1, <1>2, <1>3, <1>5 DEF GateCountsTheAdmitted, Admitted, AdmittedAt, Registered
<1>7. OnlyTheGraceCuts
  BY <1>1, <1>2 DEF OnlyTheGraceCuts
<1>8. PeersHearFirst /\ DrainInOrder
  BY DEF FrontInit, PeersHearFirst, DrainInOrder
<1> QED BY <1>4, <1>6, <1>7, <1>8 DEF FrontInv

-----------------------------------------------------------------------------
(* The session's steps.                                                    *)

\* A session's step moves it, its entry and its admission together, and tells
\* nobody else (serve.rs session and relay, sessions.rs).
LEMMA SessionKeepsInv ==
  ASSUME FrontInv, NEW v \in Visitors, SessionStep(v)
  PROVE  FrontInv'
<1> DEFINE Moved(w, e) ==
      /\ w \in VisitorType /\ e \in Entries \cup {NoEntry}
      /\ visitor' = [visitor EXCEPT ![v] = w] /\ registry' = [registry EXCEPT ![v] = e]
      /\ e # NoEntry <=> w.at \in RegisteredAt
      /\ w.cut \in {"no", "closing"}
      /\ gate'.live = gate.live + Weight(w.at) - Weight(visitor[v].at)
      /\ gate' \in [live : Int, ceiling : Nat]
<1>0. /\ visitor[v] \in VisitorType /\ registry[v] \in Entries \cup {NoEntry}
      /\ gate.live \in Int /\ gate.ceiling \in Nat /\ visitor[v].cut \in {"no", "closing"}
      /\ registry[v] # NoEntry <=> visitor[v].at \in RegisteredAt
      /\ visitor[v].at \in VisitorPlace /\ visitor[v].held \in BOOLEAN
  BY DEF FrontInv, Shape, OnlyTheGraceCuts, GateCountsTheAdmitted, Registered, RegisteredAt, VisitorType
<1>1. UNCHANGED <<signal, document, mode, ticker>>
  BY DEF SessionStep, Accept, Admit, LoginEnds, Reads, AnswersItself, Releases, Vanishes, GivesBackAdmission,
         Deregisters, RegisterSession, Keeps, SendsAway, node
<1>2. ASSUME NEW w, NEW e, Moved(w, e) PROVE FrontInv'
  <2>1. /\ visitor' \in [Visitors -> VisitorType] /\ registry' \in [Visitors -> Entries \cup {NoEntry}]
        /\ GateCountsTheAdmitted'
    BY <1>2, OneMoves DEF FrontInv
  <2>2. Shape'
    BY <1>1, <1>2, <2>1 DEF FrontInv, Shape
  <2>3. OnlyTheGraceCuts'
    BY <1>2 DEF FrontInv, Shape, OnlyTheGraceCuts
  <2>4. PeersHearFirst' /\ DrainInOrder'
    BY <1>1 DEF FrontInv, PeersHearFirst, DrainInOrder
  <2> QED BY <2>1, <2>2, <2>3, <2>4 DEF FrontInv
<1>3. CASE Accept(v)
  <2>1. Moved([visitor[v] EXCEPT !.at = "cleared"], registry[v])
    BY <1>0, <1>3, SMT DEF Accept, VisitorType, VisitorPlace, RegisteredAt, AdmittedAt, Weight, FrontInv, Shape
  <2> QED BY <1>2, <2>1
<1>4. CASE Admit(v)
  <2>1. CASE gate.live < gate.ceiling
    <3>1. Moved([visitor[v] EXCEPT !.at = "login"], registry[v])
      BY <1>0, <1>4, <2>1, SMTT(30) DEF Admit, VisitorType, VisitorPlace, RegisteredAt, AdmittedAt, Weight, FrontInv, Shape
    <3> QED BY <1>2, <3>1
  <2>2. CASE ~(gate.live < gate.ceiling)
    <3>1. Moved([visitor[v] EXCEPT !.at = "away"], registry[v])
      BY <1>0, <1>4, <2>2, SMT DEF Admit, VisitorType, VisitorPlace, RegisteredAt, AdmittedAt, Weight, FrontInv, Shape
    <3> QED BY <1>2, <3>1
  <2> QED BY <2>1, <2>2
<1>5. CASE LoginEnds(v)
  <2>1. Moved([visitor[v] EXCEPT !.at = "away"], registry[v])
    BY <1>0, <1>5, SMT DEF LoginEnds, GivenBack, VisitorType, VisitorPlace, RegisteredAt, AdmittedAt, Weight, FrontInv, Shape
  <2> QED BY <1>2, <2>1
<1>6. ASSUME NEW pinned \in BOOLEAN, RegisterSession(v, pinned) PROVE FrontInv'
  <2> DEFINE entry == [state |-> "Idle", since |-> 0, pinned |-> pinned, close |-> FALSE]
             w == [visitor[v] EXCEPT !.at = "waiting", !.woken = AlreadyFired(entry)]
  <2>1. entry \in Entries /\ AlreadyFired(entry) \in SUBSET Reasons
    BY FrontAssumption, FiredType, SMT DEF Entries
  <2>2. registry' = [registry EXCEPT ![v] = entry] /\ UNCHANGED gate /\ visitor[v].at = "login"
        /\ visitor' = [visitor EXCEPT ![v] = w]
    BY <1>6 DEF RegisterSession, FrontInv, Shape
  <2>3. w \in VisitorType /\ w.at = "waiting" /\ w.cut = visitor[v].cut
    BY <1>0, <2>1 DEF VisitorType, VisitorPlace
  <2> HIDE DEF entry, w
  <2>4. Moved(w, entry)
    BY <1>0, <2>1, <2>2, <2>3, EntriesAreThere, SMT DEF RegisteredAt, AdmittedAt, Weight, FrontInv, Shape
  <2> QED BY <1>2, <2>4
<1>7. CASE Reads(v)
  <2> DEFINE e == IF registry[v].state = "Active" THEN registry[v] ELSE [registry[v] EXCEPT !.state = "Active", !.since = 0]
             w == [visitor[v] EXCEPT !.at = "serving", !.held = TRUE, !.woken = {}]
  <2>1. visitor[v].at = "waiting" /\ registry[v] \in Entries
    BY <1>0, <1>7 DEF Reads, RegisteredAt
  <2>2. e \in Entries
    BY <2>1, EntriesStayEntries
  <2>3. registry' = [registry EXCEPT ![v] = e] /\ UNCHANGED gate
        /\ visitor' = [visitor EXCEPT ![v] = w]
    BY <1>7 DEF Reads, FrontInv, Shape
  <2>4. w \in VisitorType /\ w.at = "serving" /\ w.cut = visitor[v].cut
    BY <1>0 DEF VisitorType, VisitorPlace
  <2> HIDE DEF e, w
  <2>5. Moved(w, e)
    BY <1>0, <2>1, <2>2, <2>3, <2>4, EntriesAreThere, SMT DEF RegisteredAt, AdmittedAt, Weight, FrontInv, Shape
  <2> QED BY <1>2, <2>5
<1>8. ASSUME NEW held \in BOOLEAN, NEW e \in Entries, WaitsAgain(v, held, e), registry' = [registry EXCEPT ![v] = e],
             UNCHANGED gate, visitor[v].at \in {"waiting", "serving"}
      PROVE  FrontInv'
  <2> DEFINE w == [visitor[v] EXCEPT !.at = "waiting", !.held = held, !.woken = AlreadyFired(e)]
  <2>1. visitor' = [visitor EXCEPT ![v] = w]
    BY <1>8 DEF WaitsAgain, FrontInv, Shape
  <2>2. w \in VisitorType /\ w.at = "waiting" /\ w.cut = visitor[v].cut
    BY <1>0, FiredType DEF VisitorType, VisitorPlace
  <2> HIDE DEF w
  <2>3. Moved(w, e)
    BY <1>0, <1>8, <2>1, <2>2, EntriesAreThere, SMT DEF RegisteredAt, AdmittedAt, Weight, FrontInv, Shape
  <2> QED BY <1>2, <2>3
<1>9. CASE AnswersItself(v)
  <2>1. registry[v] \in Entries /\ registry' = [registry EXCEPT ![v] = registry[v]]
    BY <1>0, <1>9 DEF AnswersItself, RegisteredAt, FrontInv, Shape
  <2> QED BY <1>8, <1>9, <2>1 DEF AnswersItself
<1>10. CASE Releases(v)
  <2>1. registry[v] \in Entries /\ visitor[v].at = "serving"
    BY <1>0, <1>10 DEF Releases, RegisteredAt
  <2>2. [registry[v] EXCEPT !.state = "Idle", !.since = 0] \in Entries
    BY <2>1, EntriesStayEntries
  <2> QED BY <1>8, <1>10, <2>1, <2>2 DEF Releases
<1>11. ASSUME NEW pins \in BOOLEAN, Keeps(v, pins) PROVE FrontInv'
  <2>1. registry[v] \in Entries /\ visitor[v].at = "serving"
    BY <1>0, <1>11 DEF Keeps, RegisteredAt
  <2>2. [registry[v] EXCEPT !.pinned = @ \/ pins] \in Entries
    BY <2>1 DEF Entries
  <2> QED BY <1>8, <1>11, <2>1, <2>2 DEF Keeps
<1>12. CASE Vanishes(v)
  <2> DEFINE w == [visitor[v] EXCEPT !.at = "leaving", !.woken = {}, !.held = FALSE]
  <2>1. visitor' = [visitor EXCEPT ![v] = w] /\ visitor[v].at \in {"waiting", "serving"} /\ UNCHANGED <<registry, gate>>
    BY <1>12 DEF Vanishes, FrontInv, Shape
  <2>2. w \in VisitorType /\ w.at = "leaving" /\ w.cut = visitor[v].cut
    BY <1>0 DEF VisitorType, VisitorPlace
  <2> HIDE DEF w
  <2>3. Moved(w, registry[v])
    BY <1>0, <2>1, <2>2, SMT DEF RegisteredAt, AdmittedAt, Weight, FrontInv, Shape
  <2> QED BY <1>2, <2>3
<1>13. ASSUME NEW s \in Reasons, SendsAway(v, s) PROVE FrontInv'
  <2> DEFINE c == IF visitor[v].held THEN s ELSE "no"
             w == [visitor[v] EXCEPT !.at = "leaving", !.woken = {}, !.held = FALSE, !.cut = c]
  <2>1. c \in {"no", "closing"} /\ c \in Reasons \cup {"no"}
    BY <1>13 DEF SendsAway, Heard, Reasons
  <2>2. visitor' = [visitor EXCEPT ![v] = w] /\ visitor[v].at = "waiting" /\ UNCHANGED <<registry, gate>>
    BY <1>13 DEF SendsAway, FrontInv, Shape
  <2> HIDE DEF c
  <2>3. w \in VisitorType /\ w.at = "leaving" /\ w.cut = c
    BY <1>0, <2>1 DEF VisitorType, VisitorPlace
  <2> HIDE DEF w
  <2>4. Moved(w, registry[v])
    BY <1>0, <2>1, <2>2, <2>3, SMT DEF RegisteredAt, AdmittedAt, Weight, FrontInv, Shape
  <2> QED BY <1>2, <2>4
<1>14. CASE GivesBackAdmission(v)
  <2>1. Moved([visitor[v] EXCEPT !.at = "left"], registry[v])
    BY <1>0, <1>14, SMTT(30) DEF GivesBackAdmission, GivenBack, VisitorType, VisitorPlace, RegisteredAt, AdmittedAt, Weight, FrontInv, Shape
  <2> QED BY <1>2, <2>1
<1>15. CASE Deregisters(v)
  <2>1. Moved(Away, NoEntry)
    BY <1>0, <1>15, SMT DEF Deregisters, Away, VisitorType, VisitorPlace, Reasons, RegisteredAt, AdmittedAt, Weight, FrontInv, Shape
  <2> QED BY <1>2, <2>1
<1> QED BY <1>3, <1>4, <1>5, <1>6, <1>7, <1>9, <1>10, <1>11, <1>12, <1>13, <1>14, <1>15 DEF SessionStep

-----------------------------------------------------------------------------
(* The ticker, the clock and the world outside.                            *)

\* What the steps below share: nobody moves, whatever they are told.
LEMMA NobodyMovesInv ==
  ASSUME FrontInv,
         visitor' \in [Visitors -> VisitorType], registry' \in [Visitors -> Entries \cup {NoEntry}],
         \A u \in Visitors : visitor'[u].at = visitor[u].at /\ visitor'[u].cut = visitor[u].cut,
         \A u \in Visitors : registry'[u] = NoEntry <=> registry[u] = NoEntry,
         gate'.live = gate.live, gate' \in [live : Int, ceiling : Nat],
         signal' \in [draining : BOOLEAN, closing : BOOLEAN, stop : BOOLEAN],
         document' \in Documents, mode' \in {"Active", "Draining"}, ticker' \in TickerType,
         PeersHearFirst', DrainInOrder'
  PROVE  FrontInv'
<1>1. GateCountsTheAdmitted'
  BY NobodyMoves DEF FrontInv
<1>2. OnlyTheGraceCuts'
  BY DEF FrontInv, OnlyTheGraceCuts
<1>3. Shape'
  BY DEF Shape
<1> QED BY <1>1, <1>2, <1>3 DEF FrontInv

\* A signal sent leaves everyone where they are (Shutdown::fire, clear).
LEMMA SendMovesNobody ==
  ASSUME Shape, NEW s \in {"draining", "closing"}, NEW value \in BOOLEAN, Send(s, value)
  PROVE  /\ visitor' \in [Visitors -> VisitorType]
         /\ \A u \in Visitors : visitor'[u].at = visitor[u].at /\ visitor'[u].cut = visitor[u].cut
         /\ signal' \in [draining : BOOLEAN, closing : BOOLEAN, stop : BOOLEAN]
         /\ signal' = [signal EXCEPT ![s] = value]
BY SentOnlyWakes DEF Send, Shape, Reasons

\* The clock ages entries and makes none (Sessions::views).
LEMMA ClockKeepsInv == ASSUME FrontInv, Clock PROVE FrontInv'
<1>1. ASSUME NEW e \in Entries PROVE [e EXCEPT !.since = Older(@, IdleTimeout)] \in Entries
  <2>1. \A n \in 0..IdleTimeout : Older(n, IdleTimeout) \in 0..IdleTimeout
    BY FrontAssumption, SMT DEF Older
  <2> QED BY <2>1 DEF Entries
<1>2. /\ registry' \in [Visitors -> Entries \cup {NoEntry}]
      /\ \A u \in Visitors : registry'[u] = NoEntry <=> registry[u] = NoEntry
  BY <1>1, EntriesAreThere DEF Clock, FrontInv, Shape, Registered
<1>3. ticker' \in TickerType /\ ticker'.at = ticker.at
  <2>1. Sooner(ticker.grace) \in Nat
    BY SMT DEF FrontInv, Shape, TickerType, Sooner
  <2> QED BY <2>1 DEF Clock, FrontInv, Shape, TickerType
<1>4. UNCHANGED <<visitor, gate, signal, document, mode>>
  BY DEF Clock
<1>5. PeersHearFirst' /\ DrainInOrder'
  BY <1>3, <1>4 DEF FrontInv, PeersHearFirst, DrainInOrder
<1> QED BY <1>2, <1>3, <1>4, <1>5, NobodyMovesInv DEF FrontInv, Shape

\* Documents, overlays and SIGTERM reach the sessions only through the ticker.
LEMMA OutsideKeepsInv == ASSUME FrontInv, Outside PROVE FrontInv'
<1>1. UNCHANGED <<visitor, registry, gate, mode, ticker>> /\ document' \in Documents
  BY DEF Outside, PostDrain, PostUndrain, Terminate, Publish, node, FrontInv, Shape
<1>2. \/ UNCHANGED signal
      \/ signal' = [signal EXCEPT !.stop = TRUE]
  BY DEF Outside, PostDrain, PostUndrain, Terminate, Publish
<1>3. /\ signal' \in [draining : BOOLEAN, closing : BOOLEAN, stop : BOOLEAN]
      /\ signal'.draining = signal.draining /\ (signal'.stop \/ signal' = signal)
  BY <1>2 DEF FrontInv, Shape
<1>4. PeersHearFirst' /\ DrainInOrder'
  BY <1>1, <1>3 DEF FrontInv, PeersHearFirst, DrainInOrder
<1> QED BY <1>1, <1>3, <1>4, NobodyMovesInv DEF FrontInv, Shape

\* The ticker tells peers before clients, and clears its signals before it says
\* that it serves again (run.rs ticker, drain.rs Drain::run and undrain).
LEMMA TickerKeepsInv == ASSUME FrontInv, TickerStep PROVE FrontInv'
<1>0. Shape /\ PeersHearFirst /\ DrainInOrder
  BY DEF FrontInv
<1>1. ASSUME UNCHANGED <<visitor, registry, signal, document, mode>>, gate'.live = gate.live,
             gate' \in [live : Int, ceiling : Nat], ticker' \in TickerType,
             ticker'.at \notin {"announcing", "settling", "clearing"}
      PROVE  FrontInv'
  <2>1. PeersHearFirst' /\ DrainInOrder'
    BY <1>0, <1>1 DEF PeersHearFirst, DrainInOrder
  <2> QED BY <1>0, <1>1, <2>1, NobodyMovesInv DEF Shape
<1>2. CASE TickStarts
  <2>1. document.ceiling \in Nat
    BY <1>0, FrontAssumption DEF Shape
  <2>2. gate' \in [live : Int, ceiling : Nat] /\ gate'.live = gate.live
    BY <1>0, <1>2, <2>1 DEF Shape, TickStarts
  <2>3. ticker' \in TickerType /\ ticker'.at = "gossiping"
    BY <1>0, <1>2 DEF Shape, TickStarts, TickerType, TickerPlace
  <2> QED BY <1>1, <1>2, <2>2, <2>3 DEF TickStarts
<1>3. CASE TakesShedViews
  <2> DEFINE todo == IF IsDraining THEN {} ELSE {v \in Visitors : MaySend(v)}
  <2>1. todo \in SUBSET Visitors
    OBVIOUS
  <2>2. ticker' = [ticker EXCEPT !.at = "shedding", !.todo = todo] /\ UNCHANGED <<visitor, registry, gate, signal, document, mode>>
    BY <1>3 DEF TakesShedViews
  <2> HIDE DEF todo
  <2>3. ticker' \in TickerType /\ ticker'.at = "shedding"
    BY <1>0, <2>1, <2>2 DEF Shape, TickerType, TickerPlace
  <2> QED BY <1>0, <1>1, <2>2, <2>3 DEF Shape
<1>4. CASE TakesIdleViews
  <2> DEFINE todo == {v \in Visitors : Registered(v) /\ registry[v].state = "Idle" /\ registry[v].since >= IdleTimeout}
  <2>1. todo \in SUBSET Visitors
    OBVIOUS
  <2>2. ticker' = [ticker EXCEPT !.at = "closing", !.todo = todo] /\ UNCHANGED <<visitor, registry, gate, signal, document, mode>>
    BY <1>4 DEF TakesIdleViews
  <2> HIDE DEF todo
  <2>3. ticker' \in TickerType /\ ticker'.at = "closing"
    BY <1>0, <2>1, <2>2 DEF Shape, TickerType, TickerPlace
  <2> QED BY <1>0, <1>1, <2>2, <2>3 DEF Shape
<1>5. CASE NothingToFollow
  <2>1. ticker' \in TickerType /\ ticker'.at = "asleep"
    BY <1>0, <1>5 DEF NothingToFollow, Shape, TickerType, TickerPlace
  <2> QED BY <1>0, <1>1, <1>5, <2>1 DEF NothingToFollow, Shape
<1>6. CASE Settled
  <2>1. ticker' \in TickerType /\ ticker'.at = "asleep"
    BY <1>0, <1>6 DEF Settled, Shape, TickerType, TickerPlace
  <2> QED BY <1>0, <1>1, <1>6, <2>1 DEF Settled, Shape
<1>7. ASSUME NEW v \in Visitors, Fires(v) \/ UNCHANGED <<visitor, registry>>,
             ticker' = [ticker EXCEPT !.todo = @ \ {v}], ticker.at \in {"shedding", "closing"},
             UNCHANGED <<gate, signal, document, mode>>
      PROVE  FrontInv'
  <2>1. /\ visitor' \in [Visitors -> VisitorType] /\ registry' \in [Visitors -> Entries \cup {NoEntry}]
        /\ \A u \in Visitors : visitor'[u].at = visitor[u].at /\ visitor'[u].cut = visitor[u].cut
        /\ \A u \in Visitors : registry'[u] = NoEntry <=> registry[u] = NoEntry
    BY <1>0, <1>7, FiresOnlyWakes DEF Shape
  <2>2. ticker' \in TickerType /\ ticker'.at = ticker.at
    BY <1>0, <1>7 DEF Shape, TickerType
  <2>3. PeersHearFirst' /\ DrainInOrder'
    BY <1>0, <1>7, <2>2 DEF PeersHearFirst, DrainInOrder
  <2> QED BY <1>0, <1>7, <2>1, <2>2, <2>3, NobodyMovesInv DEF Shape
<1>8. ASSUME NEW v \in Visitors, ClosesIdle(v) PROVE FrontInv'
  BY <1>7, <1>8 DEF ClosesIdle
<1>9. ASSUME NEW v \in Visitors, NEW decision, Sheds(v, decision) PROVE FrontInv'
  BY <1>7, <1>9 DEF Sheds
<1>10. CASE StartsDrain
  <2>1. ticker' \in TickerType /\ ticker'.at = "announcing"
    BY <1>0, <1>10 DEF StartsDrain, Shape, TickerType, TickerPlace
  <2>2. UNCHANGED <<visitor, registry, gate, signal, document>> /\ mode' = "Draining"
    BY <1>10 DEF StartsDrain
  <2>3. PeersHearFirst' /\ DrainInOrder'
    BY <2>1, <2>2 DEF PeersHearFirst, DrainInOrder
  <2> QED BY <1>0, <2>1, <2>2, <2>3, NobodyMovesInv DEF Shape
<1>11. ASSUME NEW s \in {"draining", "closing"}, NEW value \in BOOLEAN, Send(s, value),
              UNCHANGED <<registry, gate, document>>, mode' \in {"Active", "Draining"}, ticker' \in TickerType,
              PeersHearFirst', DrainInOrder'
       PROVE  FrontInv'
  <2>1. /\ visitor' \in [Visitors -> VisitorType]
        /\ \A u \in Visitors : visitor'[u].at = visitor[u].at /\ visitor'[u].cut = visitor[u].cut
        /\ signal' \in [draining : BOOLEAN, closing : BOOLEAN, stop : BOOLEAN]
    BY <1>0, <1>11, SendMovesNobody
  <2> QED BY <1>0, <1>11, <2>1, NobodyMovesInv DEF Shape
<1>12. CASE StartsUndrain
  <2>1. signal' = [signal EXCEPT !.draining = FALSE] /\ UNCHANGED mode
    BY <1>12 DEF StartsUndrain, Send
  <2>2. ~signal'.draining /\ signal'.closing = signal.closing /\ signal'.stop = signal.stop
    BY <1>0, <2>1 DEF Shape
  <2>3. ticker' \in TickerType /\ ticker'.at = "clearing"
    BY <1>0, <1>12 DEF StartsUndrain, Shape, TickerType, TickerPlace
  <2>4. PeersHearFirst' /\ DrainInOrder'
    BY <1>0, <2>1, <2>2, <2>3 DEF PeersHearFirst, DrainInOrder
  <2> QED BY <1>0, <1>11, <1>12, <2>3, <2>4 DEF StartsUndrain, Shape
<1>13. CASE EndsUndrain
  <2>1. signal' = [signal EXCEPT !.closing = FALSE] /\ mode' = "Active" /\ ticker.at = "clearing"
    BY <1>13 DEF EndsUndrain, Send
  <2>2. ~signal'.closing /\ signal'.draining = signal.draining /\ ~signal.draining
    BY <1>0, <2>1 DEF Shape, DrainInOrder
  <2>3. ticker' \in TickerType /\ ticker'.at = "asleep"
    BY <1>0, <1>13 DEF EndsUndrain, Shape, TickerType, TickerPlace
  <2>4. PeersHearFirst' /\ DrainInOrder'
    BY <2>2, <2>3 DEF PeersHearFirst, DrainInOrder
  <2> QED BY <1>0, <1>11, <1>13, <2>1, <2>3, <2>4 DEF EndsUndrain, Shape
<1>14. CASE Announced
  <2>1. mode = "Draining" /\ UNCHANGED mode
    BY <1>0, <1>14 DEF Announced, DrainInOrder
  <2>2. ticker' \in TickerType /\ ticker'.at = "settling"
    BY <1>0, <1>14, FrontAssumption DEF Announced, Shape, TickerType, TickerPlace
  <2>3. PeersHearFirst' /\ DrainInOrder'
    BY <2>1, <2>2 DEF PeersHearFirst, DrainInOrder
  <2> QED BY <1>0, <1>11, <1>14, <2>1, <2>2, <2>3 DEF Announced, Shape
<1>15. CASE Forced
  <2>1. mode = "Draining" /\ UNCHANGED mode
    BY <1>0, <1>15 DEF Forced, DrainInOrder
  <2>2. ticker' \in TickerType /\ ticker'.at = "asleep"
    BY <1>0, <1>15 DEF Forced, Shape, TickerType, TickerPlace
  <2>3. PeersHearFirst' /\ DrainInOrder'
    BY <2>1, <2>2 DEF PeersHearFirst, DrainInOrder
  <2> QED BY <1>0, <1>11, <1>15, <2>1, <2>2, <2>3 DEF Forced, Shape
<1>16. CASE Stops
  <2>1. signal' = [signal EXCEPT !.closing = TRUE] /\ signal.stop /\ UNCHANGED mode
    BY <1>16 DEF Stops, Send
  <2>2. signal'.stop
    BY <1>0, <2>1 DEF Shape
  <2>3. ticker' \in TickerType /\ ticker'.at = "stopped"
    BY <1>0, <1>16 DEF Stops, Shape, TickerType, TickerPlace
  <2>4. PeersHearFirst' /\ DrainInOrder'
    BY <2>2, <2>3 DEF PeersHearFirst, DrainInOrder
  <2> QED BY <1>0, <1>11, <1>16, <2>1, <2>3, <2>4 DEF Stops, Shape
<1> QED BY <1>2, <1>3, <1>4, <1>5, <1>6, <1>8, <1>9, <1>10, <1>12, <1>13, <1>14, <1>15, <1>16 DEF TickerStep

-----------------------------------------------------------------------------
(* The theorems.                                                           *)

\* The invariant is inductive.
LEMMA FrontInvAlways == FrontSpec => []FrontInv
<1>1. FrontInv /\ [FrontNext]_frontVars => FrontInv'
  <2> SUFFICES ASSUME FrontInv, [FrontNext]_frontVars PROVE FrontInv'
    OBVIOUS
  <2>1. CASE UNCHANGED frontVars
    <3>1. PeersHearFirst' /\ DrainInOrder'
      BY <2>1 DEF FrontInv, frontVars, PeersHearFirst, DrainInOrder
    <3> QED BY <2>1, <3>1, NobodyMovesInv DEF FrontInv, Shape, frontVars
  <2> QED BY <2>1, SessionKeepsInv, ClockKeepsInv, OutsideKeepsInv, TickerKeepsInv DEF FrontNext
<1> QED BY <1>1, InitFrontInv, PTL DEF FrontSpec

\* For any number of clients, whatever ends them and in whatever order they give
\* back their admission and their registration, the gate counts exactly those
\* admitted and the registry lists exactly those with a session (Gate and
\* Admitted in serve.rs, Registration in sessions.rs).
THEOREM GateAlwaysCounts == FrontSpec => []GateCountsTheAdmitted
<1>1. FrontInv => GateCountsTheAdmitted
  BY DEF FrontInv
<1> QED BY <1>1, FrontInvAlways, PTL

\* For any number of clients and however stale the view that chose one, only the
\* closing signal ends a session that holds a connection (relay's select in
\* serve.rs).
THEOREM OnlyTheGraceEverCuts == FrontSpec => []OnlyTheGraceCuts
<1>1. FrontInv => OnlyTheGraceCuts
  BY DEF FrontInv
<1> QED BY <1>1, FrontInvAlways, PTL

\* Whatever documents and overlays come and go, a node that has told a client to
\* leave has told its peers first (Drain::run and undrain in drain.rs).
THEOREM PeersAlwaysHearFirst == FrontSpec => []PeersHearFirst
<1>1. FrontInv => PeersHearFirst
  BY DEF FrontInv
<1> QED BY <1>1, FrontInvAlways, PTL

(***************************************************************************)
(* WireBuffers.                                                            *)
(***************************************************************************)

-----------------------------------------------------------------------------
(* What counts of a flow.                                                  *)

Fields == {"at", "coming", "socket", "chunk", "buffered", "left", "read", "write", "borrow", "owes",
           "streamed", "queued", "spare"}

\* A flow's record, as far as buffers go.  It is in one half of a borrow or of a
\* return at a time, and borrows for a half that holds nothing.
Wired(w) ==
  /\ DOMAIN w = Fields /\ w.read \in BOOLEAN /\ w.write \in BOOLEAN /\ w.owes \in BOOLEAN /\ w.borrow \in Borrows
  /\ w.owes => w.borrow = "none"
  /\ w.borrow \in {"wanting", "reading"} => ~w.read
  /\ w.borrow = "writing" => ~w.write

Bit(b) == IF b THEN 1 ELSE 0
Claimed(w) == w.borrow \in {"reading", "writing"}

\* The buffers a flow holds, and the slots it has claimed.
Holds(w) == Bit(w.read) + Bit(w.write)
Slots(w) == Holds(w) + Bit(w.owes) + Bit(Claimed(w))

Owing == {f \in Flow : flow[f].owes}
Claiming == {f \in Flow : Claimed(flow[f])}

Flows == DOMAIN flow = Flow /\ flow = [f \in Flow |-> flow[f]] /\ \A f \in Flow : Wired(flow[f])

\* A slot is claimed for every buffer held, every return half made and every
\* borrow half made.  SlabIsBounded rests on it: a buffer is made only for a
\* slot, when the list is empty.
WireInv ==
  /\ Flows /\ outstanding \in Nat /\ free \in Nat
  /\ outstanding = Cardinality(Readers) + Cardinality(Writers) + Cardinality(Owing) + Cardinality(Claiming)
  /\ outstanding <= MaxOutstanding
  /\ SlabIsBounded

\* A set in which one element's membership changes.
LEMMA OneElement ==
  ASSUME NEW S, NEW T, IsFiniteSet(S), NEW f, T \ {f} = S \ {f}
  PROVE  /\ IsFiniteSet(T) /\ Cardinality(S) \in Nat /\ Cardinality(T) \in Nat
         /\ Cardinality(T) = Cardinality(S) + Bit(f \in T) - Bit(f \in S)
<1>1. Cardinality(S) \in Nat
  BY FS_CardinalityType
<1>2. CASE f \in S <=> f \in T
  <2>1. T = S
    BY <1>2, SMT
  <2> QED BY <1>1, <1>2, <2>1, SMT DEF Bit
<1>3. CASE f \notin S /\ f \in T
  <2>1. T = S \cup {f}
    BY <1>3
  <2>2. IsFiniteSet(T) /\ Cardinality(T) = Cardinality(S) + 1
    BY <1>3, <2>1, FS_AddElement
  <2> QED BY <1>1, <1>3, <2>2, SMT DEF Bit
<1>4. CASE f \in S /\ f \notin T
  <2>1. T = S \ {f}
    BY <1>4
  <2>2. IsFiniteSet(T) /\ Cardinality(T) = Cardinality(S) - 1
    BY <1>4, <2>1, FS_RemoveElement
  <2>3. Cardinality(T) \in Nat
    BY <2>2, FS_CardinalityType
  <2> QED BY <1>1, <1>4, <2>2, <2>3, SMT DEF Bit
<1> QED BY <1>2, <1>3, <1>4

\* One flow changes, and the slab with it.
LEMMA OneFlowChanges ==
  ASSUME WireInv, NEW f \in Flow, NEW w, Wired(w), Becomes(f, w), outstanding' \in Nat, free' \in Nat,
         outstanding' = outstanding + Slots(w) - Slots(flow[f]), outstanding' <= MaxOutstanding,
         free' = 0 \/ free' + Holds(w) <= free + Holds(flow[f])
  PROVE  WireInv'
<1>0. MaxOutstanding \in Nat
  BY WireAssumption
<1>1. flow' = [flow EXCEPT ![f] = w] /\ Flows /\ Wired(flow[f])
  BY DEF Becomes, WireInv, Flows
<1>2. Flows'
  BY <1>1 DEF Flows
<1>3. flow'[f] = w /\ \A g \in Flow : g # f => flow'[g] = flow[g]
  BY <1>1 DEF Flows
<1>4. IsFiniteSet(Readers) /\ IsFiniteSet(Writers) /\ IsFiniteSet(Owing) /\ IsFiniteSet(Claiming)
  <2>1. Readers \subseteq Flow /\ Writers \subseteq Flow /\ Owing \subseteq Flow /\ Claiming \subseteq Flow
    BY DEF Readers, Writers, Owing, Claiming
  <2> QED BY <2>1, WireAssumption, FS_Subset
<1>5. Cardinality(Readers) \in Nat /\ Cardinality(Readers') \in Nat
      /\ Cardinality(Readers') = Cardinality(Readers) + Bit(w.read) - Bit(flow[f].read)
  <2>1. Readers' \ {f} = Readers \ {f}
    BY <1>3 DEF Readers
  <2>2. Bit(f \in Readers) = Bit(flow[f].read) /\ Bit(f \in Readers') = Bit(w.read)
    BY <1>3 DEF Readers, Bit
  <2>3. /\ Cardinality(Readers) \in Nat /\ Cardinality(Readers') \in Nat
        /\ Cardinality(Readers') = Cardinality(Readers) + Bit(f \in Readers') - Bit(f \in Readers)
    BY <1>4, <2>1, OneElement
  <2> QED BY <2>2, <2>3
<1>6. Cardinality(Writers) \in Nat /\ Cardinality(Writers') \in Nat
      /\ Cardinality(Writers') = Cardinality(Writers) + Bit(w.write) - Bit(flow[f].write)
  <2>1. Writers' \ {f} = Writers \ {f}
    BY <1>3 DEF Writers
  <2>2. Bit(f \in Writers) = Bit(flow[f].write) /\ Bit(f \in Writers') = Bit(w.write)
    BY <1>3 DEF Writers, Bit
  <2>3. /\ Cardinality(Writers) \in Nat /\ Cardinality(Writers') \in Nat
        /\ Cardinality(Writers') = Cardinality(Writers) + Bit(f \in Writers') - Bit(f \in Writers)
    BY <1>4, <2>1, OneElement
  <2> QED BY <2>2, <2>3
<1>7. Cardinality(Owing) \in Nat /\ Cardinality(Owing') \in Nat
      /\ Cardinality(Owing') = Cardinality(Owing) + Bit(w.owes) - Bit(flow[f].owes)
  <2>1. Owing' \ {f} = Owing \ {f}
    BY <1>3 DEF Owing
  <2>2. Bit(f \in Owing) = Bit(flow[f].owes) /\ Bit(f \in Owing') = Bit(w.owes)
    BY <1>3 DEF Owing, Bit
  <2>3. /\ Cardinality(Owing) \in Nat /\ Cardinality(Owing') \in Nat
        /\ Cardinality(Owing') = Cardinality(Owing) + Bit(f \in Owing') - Bit(f \in Owing)
    BY <1>4, <2>1, OneElement
  <2> QED BY <2>2, <2>3
<1>8. Cardinality(Claiming) \in Nat /\ Cardinality(Claiming') \in Nat
      /\ Cardinality(Claiming') = Cardinality(Claiming) + Bit(Claimed(w)) - Bit(Claimed(flow[f]))
  <2>1. Claiming' \ {f} = Claiming \ {f}
    BY <1>3 DEF Claiming, Claimed
  <2>2. Bit(f \in Claiming) = Bit(Claimed(flow[f])) /\ Bit(f \in Claiming') = Bit(Claimed(w))
    BY <1>3 DEF Claiming, Claimed, Bit
  <2>3. /\ Cardinality(Claiming) \in Nat /\ Cardinality(Claiming') \in Nat
        /\ Cardinality(Claiming') = Cardinality(Claiming) + Bit(f \in Claiming') - Bit(f \in Claiming)
    BY <1>4, <2>1, OneElement
  <2> QED BY <2>2, <2>3
<1>9. \A b : Bit(b) \in Nat
  BY DEF Bit
<1>10. outstanding' = Cardinality(Readers') + Cardinality(Writers') + Cardinality(Owing') + Cardinality(Claiming')
  BY <1>5, <1>6, <1>7, <1>8, <1>9, SMT DEF Slots, Holds, WireInv
<1>11. free' + Cardinality(Readers') + Cardinality(Writers') <= MaxOutstanding
  <2>1. CASE free' = 0
    BY <1>0, <1>5, <1>6, <1>7, <1>8, <1>10, <2>1, SMT
  <2>2. CASE free' + Holds(w) <= free + Holds(flow[f])
    BY <1>0, <1>5, <1>6, <1>9, <2>2, SMT DEF Holds, WireInv, SlabIsBounded
  <2> QED BY <2>1, <2>2
<1> QED BY <1>2, <1>10, <1>11 DEF WireInv, SlabIsBounded

-----------------------------------------------------------------------------
(* The steps of a flow.                                                    *)

\* A flow whose buffers and slots stay as they are.
Alike(w, u) == w.read = u.read /\ w.write = u.write /\ w.owes = u.owes /\ Claimed(w) = Claimed(u)

\* A step that leaves the slab and the holders alone leaves the accounts alone.
LEMMA SlabUntouched ==
  ASSUME WireInv, NEW f \in Flow, NEW w, Wired(w), Alike(w, flow[f]), Becomes(f, w), UNCHANGED Slab
  PROVE  WireInv'
<1>1. Slots(w) = Slots(flow[f]) /\ Holds(w) = Holds(flow[f])
  BY DEF Alike, Slots, Holds
<1>2. Slots(w) \in Nat /\ Holds(w) \in Nat
  BY SMT DEF Slots, Holds, Bit
<1>3. outstanding \in Nat /\ free \in Nat /\ outstanding' = outstanding /\ free' = free /\ outstanding <= MaxOutstanding
  BY DEF WireInv, Slab
<1>4. outstanding' = outstanding + Slots(w) - Slots(flow[f]) /\ free' + Holds(w) <= free + Holds(flow[f])
  BY <1>1, <1>2, <1>3, SMT
<1> QED BY <1>3, <1>4, OneFlowChanges

\* A flow that goes on, giving a buffer back on the way or not (give_back's
\* first half): the buffer it gives moves to the list, and its slot stays
\* claimed.
LEMMA DroppingKeepsInv ==
  ASSUME WireInv, NEW f \in Flow, NEW gives \in BOOLEAN, NEW w, Wired(w), w.owes = FALSE, w.borrow = "none",
         Free(flow[f]), Holds(w) = Holds(flow[f]) - Bit(gives), Dropping(f, gives, w)
  PROVE  WireInv'
<1>0. /\ outstanding \in Nat /\ free \in Nat /\ outstanding <= MaxOutstanding /\ MaxOutstanding \in Nat
      /\ Holds(w) \in Nat /\ Holds(flow[f]) \in Nat
  BY WireAssumption, SMT DEF WireInv, Holds, Bit
<1>1. Slots(w) = Holds(w) /\ Slots(flow[f]) = Holds(flow[f])
  <2>1. Bit(w.owes) = 0 /\ Bit(Claimed(w)) = 0 /\ Bit(flow[f].owes) = 0 /\ Bit(Claimed(flow[f])) = 0
    BY DEF Bit, Claimed, Free
  <2> QED BY <1>0, <2>1, SMT DEF Slots
<1>2. CASE gives
  <2> DEFINE u == [w EXCEPT !.owes = TRUE]
  <2>1. Wired(u) /\ u.read = w.read /\ u.write = w.write /\ u.owes = TRUE /\ u.borrow = "none"
    BY DEF Wired, Fields
  <2>2. PICK grown \in BOOLEAN : Becomes(f, u) /\ GiveBack(1, grown)
    BY <1>2 DEF Dropping
  <2>3. outstanding' = outstanding /\ free' \in {free, free + 1}
    BY <2>2 DEF GiveBack
  <2> HIDE DEF u
  <2>4. Holds(u) = Holds(w)
    BY <2>1 DEF Holds
  <2>5. Slots(u) = Holds(w) + 1
    <3>1. Bit(u.owes) = 1 /\ Bit(Claimed(u)) = 0
      BY <2>1 DEF Bit, Claimed
    <3> QED BY <1>0, <2>4, <3>1, SMT DEF Slots
  <2>6. Holds(w) = Holds(flow[f]) - 1
    BY <1>2 DEF Bit
  <2>7. outstanding' = outstanding + Slots(u) - Slots(flow[f]) /\ free' + Holds(u) <= free + Holds(flow[f]) /\ free' \in Nat
    BY <1>0, <1>1, <2>3, <2>4, <2>5, <2>6, SMT
  <2> QED BY <1>0, <2>1, <2>2, <2>3, <2>7, OneFlowChanges
<1>3. CASE ~gives
  <2>1. Becomes(f, w) /\ outstanding' = outstanding /\ free' = free
    BY <1>3 DEF Dropping, Slab
  <2>2. Holds(w) = Holds(flow[f])
    BY <1>0, <1>3, SMT DEF Bit
  <2>3. outstanding' = outstanding + Slots(w) - Slots(flow[f]) /\ free' + Holds(w) <= free + Holds(flow[f])
    BY <1>0, <1>1, <2>1, <2>2, SMT
  <2> QED BY <1>0, <2>1, <2>3, OneFlowChanges
<1> QED BY <1>2, <1>3

\* A flow that goes on after a reclaim.
LEMMA GoesOnKeepsInv ==
  ASSUME WireInv, NEW f \in Flow, NEW w, Wired(w), Free(flow[f]), w.read = flow[f].read, w.write = flow[f].write,
         w.owes = FALSE, w.borrow = "none", GoesOn(f, w)
  PROVE  WireInv'
<1> DEFINE gives == ReclaimedNow(w)
           u == IF gives THEN [w EXCEPT !.read = FALSE] ELSE w
<1>1. gives \in BOOLEAN /\ (gives => w.read)
  BY DEF ReclaimedNow, Wired
<1>2. Wired(u) /\ u.owes = FALSE /\ u.borrow = "none" /\ u.write = w.write /\ u.read = (w.read /\ ~gives)
  BY <1>1 DEF Wired, Fields
<1>3. Dropping(f, gives, u)
  BY DEF GoesOn
<1> HIDE DEF gives, u
<1>4. Holds(u) = Holds(flow[f]) - Bit(gives)
  BY <1>1, <1>2, SMT DEF Holds, Bit, Wired
<1> QED BY <1>1, <1>2, <1>3, <1>4, DroppingKeepsInv

\* A flow that is over keeps what it has yet to give back.
LEMMA ClosingIsWired ==
  ASSUME NEW w, Wired(w), w.borrow \in {"none", "wanting"}, ~w.owes
  PROVE  Wired(Closing(w)) /\ Alike(Closing(w), w)
<1> DEFINE u == Closing(w)
<1>1. u.read = w.read /\ u.write = w.write /\ u.owes = FALSE /\ u.borrow = "none" /\ DOMAIN u = Fields
  BY DEF Closing, Quiet, Fields
<1> HIDE DEF u
<1>2. Wired(u)
  BY <1>1 DEF Wired, Borrows
<1>3. w.owes = FALSE
  BY DEF Wired
<1>4. Claimed(u) = FALSE /\ Claimed(w) = FALSE
  BY <1>1, SMT DEF Claimed
<1>5. Alike(u, w)
  BY <1>1, <1>3, <1>4 DEF Alike
<1> QED BY <1>2, <1>5 DEF u

\* A connection between two commands holds no buffer and claims none.
LEMMA QuietIsWired == Wired(Quiet) /\ Slots(Quiet) = 0 /\ Holds(Quiet) = 0 /\ ~Claimed(Quiet)
<1>1. /\ Quiet.read = FALSE /\ Quiet.write = FALSE /\ Quiet.owes = FALSE /\ Quiet.borrow = "none"
      /\ DOMAIN Quiet = Fields
  BY DEF Quiet, Fields
<1>2. Wired(Quiet) /\ ~Claimed(Quiet)
  BY <1>1 DEF Wired, Claimed, Borrows
<1>3. Bit(Quiet.read) = 0 /\ Bit(Quiet.write) = 0 /\ Bit(Quiet.owes) = 0 /\ Bit(Claimed(Quiet)) = 0
  BY <1>1, <1>2 DEF Bit
<1>4. Holds(Quiet) = 0
  BY <1>3, SMT DEF Holds
<1>5. Slots(Quiet) = 0
  BY <1>3, <1>4, SMT DEF Slots
<1> QED BY <1>2, <1>4, <1>5

\* Before the first command every connection is quiet.
LEMMA InitWireInv == WireInit => WireInv
<1> SUFFICES ASSUME WireInit PROVE WireInv
  OBVIOUS
<1>1. /\ flow = [f \in Flow |-> Quiet] /\ outstanding = 0 /\ free = 0
      /\ ~Quiet.read /\ ~Quiet.write /\ ~Quiet.owes
  BY DEF WireInit, Quiet
<1>2. Flows
  BY <1>1, QuietIsWired DEF Flows
<1>3. Readers = {} /\ Writers = {} /\ Owing = {} /\ Claiming = {}
  BY <1>1, QuietIsWired DEF Readers, Writers, Owing, Claiming
<1>4. Cardinality({}) = 0
  BY FS_EmptySet
<1> QED BY <1>1, <1>2, <1>3, <1>4, WireAssumption, SMT DEF WireInv, SlabIsBounded

\* The steps that move bytes and leave the slab alone.
LEMMA ReadingKeepsInv ==
  ASSUME WireInv, NEW f \in Flow,
         \/ \E body \in Bodies, streamed \in BOOLEAN : PeerSends(f, body, streamed)
         \/ \E n \in 1..FirstRead : FillsCold(f, n)
         \/ \E n \in 1..HeldRead : FillsHeld(f, n)
         \/ BorrowTimesOut(f) \/ TakesChunk(f) \/ Cut(f)
  PROVE  WireInv'
<1> DEFINE w == flow[f]
<1>0. Wired(w)
  BY DEF WireInv, Flows
<1>1. ASSUME NEW body \in Bodies, NEW streamed \in BOOLEAN, PeerSends(f, body, streamed) PROVE WireInv'
  <2> DEFINE u == [w EXCEPT !.coming = Append(@, [body |-> body, streamed |-> streamed]),
                            !.socket = @ + HeaderLen + body]
  <2>1. Becomes(f, u) /\ UNCHANGED Slab
    BY <1>1 DEF PeerSends
  <2>2. Wired(u) /\ Alike(u, w)
    BY <1>0 DEF Wired, Fields, Alike, Claimed
  <2> HIDE DEF u
  <2> QED BY <2>1, <2>2, SlabUntouched
<1>2. ASSUME NEW n \in 1..FirstRead, FillsCold(f, n) PROVE WireInv'
  <2> DEFINE u == [w EXCEPT !.socket = @ - n, !.chunk = n, !.borrow = "wanting"]
  <2>1. Becomes(f, u) /\ UNCHANGED Slab /\ w.borrow = "none" /\ ~w.owes /\ ~w.read
    BY <1>2 DEF FillsCold, Free
  <2>2. /\ DOMAIN u = Fields /\ u.read = w.read /\ u.write = w.write /\ u.owes = w.owes
        /\ u.borrow = "wanting"
    BY <1>0 DEF Wired, Fields
  <2> HIDE DEF u
  <2>3. Wired(u)
    BY <1>0, <2>1, <2>2 DEF Wired, Borrows
  <2>4. Claimed(u) = FALSE /\ Claimed(w) = FALSE
    BY <2>1, <2>2, SMT DEF Claimed
  <2>5. Alike(u, w)
    BY <2>2, <2>4 DEF Alike
  <2> QED BY <2>1, <2>3, <2>5, SlabUntouched
<1>3. ASSUME NEW n \in 1..HeldRead, FillsHeld(f, n) PROVE WireInv'
  <2> DEFINE u == [w EXCEPT !.socket = @ - n, !.buffered = @ + n]
  <2>1. Becomes(f, u) /\ UNCHANGED Slab
    BY <1>3 DEF FillsHeld
  <2>2. Wired(u) /\ Alike(u, w)
    BY <1>0 DEF Wired, Fields, Alike, Claimed
  <2> HIDE DEF u
  <2> QED BY <2>1, <2>2, SlabUntouched
<1>4. CASE BorrowTimesOut(f)
  <2>1. Becomes(f, Closing(w)) /\ UNCHANGED Slab /\ w.borrow = "wanting" /\ ~w.owes
    BY <1>0, <1>4 DEF BorrowTimesOut, Wired
  <2> QED BY <1>0, <2>1, ClosingIsWired, SlabUntouched
<1>5. CASE TakesChunk(f)
  <2> DEFINE n == IF w.left < w.buffered THEN w.left ELSE w.buffered
             u == [w EXCEPT !.buffered = @ - n, !.left = @ - n, !.at = "queue"]
  <2>1. Becomes(f, u) /\ UNCHANGED Slab
    BY <1>5 DEF TakesChunk
  <2> HIDE DEF n
  <2>2. Wired(u) /\ Alike(u, w)
    BY <1>0 DEF Wired, Fields, Alike, Claimed
  <2> HIDE DEF u
  <2> QED BY <2>1, <2>2, SlabUntouched
<1>6. CASE Cut(f)
  <2>1. Becomes(f, Closing(w)) /\ UNCHANGED Slab /\ w.borrow \in {"none", "wanting"} /\ ~w.owes
    BY <1>6 DEF Cut
  <2> QED BY <1>0, <2>1, ClosingIsWired, SlabUntouched
<1> QED BY <1>1, <1>2, <1>3, <1>4, <1>5, <1>6

\* A borrow: the slot, then the buffer.
LEMMA BorrowingKeepsInv ==
  ASSUME WireInv, NEW f \in Flow, Claims(f) \/ TakesBuffer(f) \/ Queues(f)
  PROVE  WireInv'
<1> DEFINE w == flow[f]
<1>0. /\ Wired(w) /\ outstanding \in Nat /\ free \in Nat /\ outstanding <= MaxOutstanding /\ MaxOutstanding \in Nat
      /\ Holds(w) \in Nat /\ Bit(w.owes) \in Nat
  BY WireAssumption, SMT DEF WireInv, Flows, Holds, Bit
<1>1. ASSUME NEW u, Wired(u), Becomes(f, u), u.read = w.read, u.write = w.write, u.owes = w.owes,
             Claimed(u) = TRUE, Claimed(w) = FALSE, HasRoom, outstanding' = outstanding + 1, free' = free
      PROVE  WireInv'
  <2>1. Holds(u) = Holds(w)
    BY <1>1 DEF Holds
  <2>2. Bit(Claimed(u)) = 1 /\ Bit(Claimed(w)) = 0
    BY <1>1 DEF Bit
  <2>3. Slots(u) = Slots(w) + 1 /\ Slots(w) \in Nat
    BY <1>0, <1>1, <2>1, <2>2, SMT DEF Slots
  <2>4. /\ outstanding' = outstanding + Slots(u) - Slots(w) /\ outstanding' <= MaxOutstanding
        /\ outstanding' \in Nat /\ free' \in Nat /\ free' + Holds(u) <= free + Holds(w)
    BY <1>0, <1>1, <2>1, <2>3, SMT DEF HasRoom
  <2> QED BY <1>1, <2>4, OneFlowChanges
<1>2. CASE Claims(f)
  <2> DEFINE u == [w EXCEPT !.borrow = "reading"]
  <2>1. Becomes(f, u) /\ HasRoom /\ outstanding' = outstanding + 1 /\ free' = free /\ w.borrow = "wanting"
    BY <1>2 DEF Claims
  <2>2. /\ DOMAIN u = Fields /\ u.read = w.read /\ u.write = w.write /\ u.owes = w.owes
        /\ u.borrow = "reading"
    BY <1>0 DEF Wired, Fields
  <2> HIDE DEF u
  <2>3. Wired(u)
    BY <1>0, <2>1, <2>2 DEF Wired, Borrows
  <2>4. Claimed(u) = TRUE /\ Claimed(w) = FALSE
    BY <2>1, <2>2, SMT DEF Claimed
  <2> QED BY <1>1, <2>1, <2>2, <2>3, <2>4
<1>3. CASE TakesBuffer(f)
  <2>1. free' = (IF free = 0 THEN 0 ELSE free - 1) /\ outstanding' = outstanding
    BY <1>3 DEF TakesBuffer
  <2>2. ASSUME NEW u, Wired(u), Becomes(f, u), Claimed(u) = FALSE, Claimed(w) = TRUE, u.owes = w.owes,
               Holds(u) = Holds(w) + 1
        PROVE  WireInv'
    <3>1. Bit(Claimed(u)) = 0 /\ Bit(Claimed(w)) = 1
      BY <2>2 DEF Bit
    <3>2. Slots(u) = Slots(w) /\ Slots(w) \in Nat
      BY <1>0, <2>2, <3>1, SMT DEF Slots
    <3>3. /\ outstanding' = outstanding + Slots(u) - Slots(w) /\ outstanding' <= MaxOutstanding
          /\ outstanding' \in Nat /\ free' \in Nat
      BY <1>0, <2>1, <3>2, SMT
    <3>4. free' = 0 \/ free' + Holds(u) <= free + Holds(w)
      BY <1>0, <2>1, <2>2, SMT
    <3> QED BY <2>2, <3>3, <3>4, OneFlowChanges
  <2>3. CASE w.borrow = "reading" /\ Becomes(f, [w EXCEPT !.borrow = "none", !.read = TRUE, !.buffered = w.chunk, !.chunk = 0])
    <3> DEFINE u == [w EXCEPT !.borrow = "none", !.read = TRUE, !.buffered = w.chunk, !.chunk = 0]
    <3>1. /\ DOMAIN u = Fields /\ u.read = TRUE /\ u.write = w.write /\ u.owes = w.owes
          /\ u.borrow = "none"
      BY <1>0 DEF Wired, Fields
    <3>2. Becomes(f, u)
      BY <2>3
    <3> HIDE DEF u
    <3>3. Wired(u) /\ w.read = FALSE
      BY <1>0, <2>3, <3>1 DEF Wired, Borrows
    <3>4. Claimed(u) = FALSE /\ Claimed(w) = TRUE
      BY <2>3, <3>1, SMT DEF Claimed
    <3>5. Bit(u.read) = 1 /\ Bit(w.read) = 0 /\ Bit(u.write) = Bit(w.write) /\ Bit(w.write) \in Nat
      BY <3>1, <3>3 DEF Bit
    <3>6. Holds(u) = Holds(w) + 1
      BY <3>5, SMT DEF Holds
    <3> QED BY <2>2, <3>1, <3>2, <3>3, <3>4, <3>6
  <2>4. CASE w.borrow = "writing" /\ Becomes(f, [w EXCEPT !.borrow = "none", !.write = TRUE])
    <3> DEFINE u == [w EXCEPT !.borrow = "none", !.write = TRUE]
    <3>1. /\ DOMAIN u = Fields /\ u.read = w.read /\ u.write = TRUE /\ u.owes = w.owes
          /\ u.borrow = "none"
      BY <1>0 DEF Wired, Fields
    <3>2. Becomes(f, u)
      BY <2>4
    <3> HIDE DEF u
    <3>3. Wired(u) /\ w.write = FALSE
      BY <1>0, <2>4, <3>1 DEF Wired, Borrows
    <3>4. Claimed(u) = FALSE /\ Claimed(w) = TRUE
      BY <2>4, <3>1, SMT DEF Claimed
    <3>5. Bit(u.write) = 1 /\ Bit(w.write) = 0 /\ Bit(u.read) = Bit(w.read) /\ Bit(w.read) \in Nat
      BY <3>1, <3>3 DEF Bit
    <3>6. Holds(u) = Holds(w) + 1
      BY <3>5, SMT DEF Holds
    <3> QED BY <2>2, <3>1, <3>2, <3>3, <3>4, <3>6
  <2> QED BY <1>3, <2>3, <2>4 DEF TakesBuffer
<1>4. CASE Queues(f)
  <2>1. PICK next \in AfterPiece(w) :
          \/ /\ Becomes(f, [w EXCEPT !.spare = Append(@, Piece(w)), !.at = next])
             /\ UNCHANGED Slab
          \/ /\ Becomes(f, [w EXCEPT !.queued = Append(@, Piece(w)), !.at = next])
             /\ UNCHANGED Slab
          \/ /\ ~GoesToSpare(w) /\ ~w.write
             /\ Becomes(f, [w EXCEPT !.queued = Append(@, Piece(w)), !.at = next, !.borrow = "writing"])
             /\ outstanding' = outstanding + 1 /\ free' = free
    BY <1>4 DEF Queues
  <2>2. w.borrow = "none" /\ ~w.owes
    BY <1>4 DEF Queues, Free
  <2>3. CASE Becomes(f, [w EXCEPT !.spare = Append(@, Piece(w)), !.at = next]) /\ UNCHANGED Slab
    <3> DEFINE u == [w EXCEPT !.spare = Append(@, Piece(w)), !.at = next]
    <3>1. Wired(u) /\ Alike(u, w)
      BY <1>0 DEF Wired, Fields, Alike, Claimed
    <3>2. Becomes(f, u)
      BY <2>3
    <3> HIDE DEF u
    <3> QED BY <2>3, <3>1, <3>2, SlabUntouched
  <2>4. CASE Becomes(f, [w EXCEPT !.queued = Append(@, Piece(w)), !.at = next]) /\ UNCHANGED Slab
    <3> DEFINE u == [w EXCEPT !.queued = Append(@, Piece(w)), !.at = next]
    <3>1. Wired(u) /\ Alike(u, w)
      BY <1>0 DEF Wired, Fields, Alike, Claimed
    <3>2. Becomes(f, u)
      BY <2>4
    <3> HIDE DEF u
    <3> QED BY <2>4, <3>1, <3>2, SlabUntouched
  <2>5. CASE /\ ~GoesToSpare(w) /\ ~w.write
             /\ Becomes(f, [w EXCEPT !.queued = Append(@, Piece(w)), !.at = next, !.borrow = "writing"])
             /\ outstanding' = outstanding + 1 /\ free' = free
    <3> DEFINE u == [w EXCEPT !.queued = Append(@, Piece(w)), !.at = next, !.borrow = "writing"]
    <3>1. /\ DOMAIN u = Fields /\ u.read = w.read /\ u.write = w.write /\ u.owes = w.owes
          /\ u.borrow = "writing"
      BY <1>0 DEF Wired, Fields
    <3>2. Becomes(f, u) /\ HasRoom
      BY <2>5 DEF GoesToSpare
    <3> HIDE DEF u
    <3>3. Wired(u)
      BY <1>0, <2>2, <2>5, <3>1 DEF Wired, Borrows
    <3>4. Claimed(u) = TRUE /\ Claimed(w) = FALSE
      BY <2>2, <3>1, SMT DEF Claimed
    <3> QED BY <1>1, <2>5, <3>1, <3>2, <3>3, <3>4
  <2> QED BY <2>1, <2>3, <2>4, <2>5
<1> QED BY <1>2, <1>3, <1>4

\* A flow that gives one of its buffers back.
LEMMA GivingKeepsInv ==
  ASSUME WireInv, NEW f \in Flow, NEW u, DOMAIN u = Fields, Free(flow[f]), u.owes = flow[f].owes,
         u.borrow = flow[f].borrow, Dropping(f, TRUE, u),
         \/ flow[f].read /\ u.read = FALSE /\ u.write = flow[f].write
         \/ flow[f].write /\ u.write = FALSE /\ u.read = flow[f].read
  PROVE  WireInv'
<1> DEFINE w == flow[f]
<1>0. Wired(w) /\ w.borrow = "none" /\ w.owes = FALSE
  BY DEF WireInv, Flows, Free, Wired
<1>1. Wired(u) /\ u.owes = FALSE /\ u.borrow = "none"
  BY <1>0 DEF Wired
<1>2. Holds(u) = Holds(w) - 1
  <2>1. CASE w.read /\ u.read = FALSE /\ u.write = w.write
    <3>1. Bit(w.read) = 1 /\ Bit(u.read) = 0 /\ Bit(u.write) = Bit(w.write) /\ Bit(w.write) \in Nat
      BY <2>1 DEF Bit
    <3> QED BY <3>1, SMT DEF Holds
  <2>2. CASE w.write /\ u.write = FALSE /\ u.read = w.read
    <3>1. Bit(w.write) = 1 /\ Bit(u.write) = 0 /\ Bit(u.read) = Bit(w.read) /\ Bit(w.read) \in Nat
      BY <2>2 DEF Bit
    <3> QED BY <3>1, SMT DEF Holds
  <2> QED BY <2>1, <2>2
<1>3. Bit(TRUE) = 1
  BY DEF Bit
<1>4. Holds(u) = Holds(w) - Bit(TRUE)
  BY <1>2, <1>3
<1> QED BY <1>1, <1>4, DroppingKeepsInv

\* The steps that may return a buffer, and the second half of a return.
LEMMA ReturningKeepsInv ==
  ASSUME WireInv, NEW f \in Flow,
         \/ Settles(f) \/ Reclaims(f) \/ ReadsHeader(f) \/ TakesBody(f) \/ Flushes(f) \/ Closes(f)
  PROVE  WireInv'
<1> DEFINE w == flow[f]
<1>0. Wired(w) /\ outstanding \in Nat /\ free \in Nat /\ outstanding <= MaxOutstanding /\ MaxOutstanding \in Nat
  BY WireAssumption DEF WireInv, Flows
<1>1. CASE Settles(f)
  <2> DEFINE u == [w EXCEPT !.owes = FALSE]
  <2>1. Becomes(f, u) /\ w.owes /\ outstanding' = outstanding - 1 /\ free' = free
    BY <1>1, SMT DEF Settles, GiveBack
  <2>2. /\ DOMAIN u = Fields /\ u.read = w.read /\ u.write = w.write /\ u.owes = FALSE
        /\ u.borrow = w.borrow
    BY <1>0 DEF Wired, Fields
  <2> HIDE DEF u
  <2>3. Wired(u)
    BY <1>0, <2>2 DEF Wired
  <2>4. Holds(u) = Holds(w) /\ Holds(w) \in Nat /\ Bit(u.owes) = 0 /\ Bit(w.owes) = 1
    BY <2>1, <2>2, SMT DEF Holds, Bit
  <2>5. Bit(Claimed(u)) = Bit(Claimed(w)) /\ Bit(Claimed(w)) \in Nat
    BY <2>2 DEF Claimed, Bit
  <2>6. Slots(u) = Slots(w) - 1 /\ Slots(w) \in Nat /\ Slots(w) >= 1
    BY <2>4, <2>5, SMT DEF Slots
  <2>7. outstanding >= 1
    <3>1. f \in Owing /\ Owing \subseteq Flow /\ Readers \subseteq Flow /\ Writers \subseteq Flow /\ Claiming \subseteq Flow
      BY <2>1 DEF Owing, Readers, Writers, Claiming
    <3>2. IsFiniteSet(Owing) /\ IsFiniteSet(Readers) /\ IsFiniteSet(Writers) /\ IsFiniteSet(Claiming)
      BY <3>1, FS_Subset, WireAssumption
    <3>3. /\ Cardinality(Owing) \in Nat /\ Cardinality(Readers) \in Nat /\ Cardinality(Writers) \in Nat
          /\ Cardinality(Claiming) \in Nat
      BY <3>2, FS_CardinalityType
    <3>4. Cardinality(Owing) # 0
      BY <3>1, <3>2, FS_EmptySet
    <3> QED BY <3>3, <3>4, SMT DEF WireInv
  <2>8. /\ outstanding' = outstanding + Slots(u) - Slots(w) /\ outstanding' <= MaxOutstanding
        /\ outstanding' \in Nat /\ free' \in Nat /\ free' + Holds(u) <= free + Holds(w)
    BY <1>0, <2>1, <2>4, <2>6, <2>7, SMT
  <2> QED BY <2>1, <2>3, <2>8, OneFlowChanges
<1>2. CASE Reclaims(f)
  <2> DEFINE u == [w EXCEPT !.read = FALSE]
  <2>1. Free(w) /\ w.read /\ Dropping(f, TRUE, u)
    BY <1>2 DEF Reclaims
  <2>2. DOMAIN u = Fields /\ u.read = FALSE /\ u.write = w.write /\ u.owes = w.owes /\ u.borrow = w.borrow
    BY <1>0 DEF Wired, Fields
  <2> HIDE DEF u
  <2> QED BY <2>1, <2>2, GivingKeepsInv
<1>3. CASE ReadsHeader(f)
  <2> DEFINE m == Head(w.coming)
             next == IF m.streamed THEN "announce" ELSE IF m.body = 0 THEN "queue" ELSE "whole"
             u == [w EXCEPT !.buffered = @ - HeaderLen, !.coming = Tail(@), !.left = m.body,
                            !.streamed = m.streamed, !.at = next]
  <2>1. Free(w) /\ GoesOn(f, u)
    BY <1>3 DEF ReadsHeader
  <2> HIDE DEF next, m
  <2>2. Wired(u) /\ u.read = w.read /\ u.write = w.write /\ u.owes = w.owes /\ u.borrow = w.borrow
    BY <1>0 DEF Wired, Fields
  <2> HIDE DEF u
  <2>3. u.owes = FALSE /\ u.borrow = "none"
    BY <1>0, <2>1, <2>2 DEF Free, Wired
  <2> QED BY <2>1, <2>2, <2>3, GoesOnKeepsInv
<1>4. CASE TakesBody(f)
  <2> DEFINE n == IF w.left < w.buffered THEN w.left ELSE w.buffered
             after == [w EXCEPT !.buffered = @ - n, !.left = @ - n]
             u == [after EXCEPT !.at = "queue"]
  <2>1. Free(w) /\ (GoesOn(f, u) \/ (Becomes(f, after) /\ UNCHANGED Slab))
    BY <1>4 DEF TakesBody
  <2> HIDE DEF n
  <2>2. Wired(after) /\ after.read = w.read /\ after.write = w.write /\ after.owes = w.owes /\ after.borrow = w.borrow
    BY <1>0 DEF Wired, Fields
  <2> HIDE DEF after
  <2>3. Wired(u) /\ u.read = w.read /\ u.write = w.write /\ u.owes = w.owes /\ u.borrow = w.borrow
    BY <2>2 DEF Wired, Fields
  <2> HIDE DEF u
  <2>4. u.owes = FALSE /\ u.borrow = "none"
    BY <1>0, <2>1, <2>3 DEF Free, Wired
  <2>5. Alike(after, w)
    BY <2>2 DEF Alike, Claimed
  <2>6. CASE GoesOn(f, u)
    BY <2>1, <2>3, <2>4, <2>6, GoesOnKeepsInv
  <2>7. CASE Becomes(f, after) /\ UNCHANGED Slab
    BY <2>2, <2>5, <2>7, SlabUntouched
  <2> QED BY <2>1, <2>6, <2>7
<1>5. CASE Flushes(f)
  <2> DEFINE next == IF w.left > 0 THEN "stream" ELSE "header"
             u == [w EXCEPT !.queued = <<>>, !.spare = <<>>, !.write = FALSE, !.at = next]
  <2>1. Free(w) /\ Dropping(f, w.write, u)
    BY <1>5 DEF Flushes
  <2> HIDE DEF next
  <2>2. DOMAIN u = Fields /\ u.read = w.read /\ u.write = FALSE /\ u.owes = w.owes /\ u.borrow = w.borrow
    BY <1>0 DEF Wired, Fields
  <2> HIDE DEF u
  <2>3. Wired(u) /\ u.owes = FALSE /\ u.borrow = "none" /\ w.write \in BOOLEAN
    BY <1>0, <2>1, <2>2 DEF Wired, Free
  <2>4. Holds(u) = Holds(w) - Bit(w.write)
    <3>1. Bit(u.write) = 0 /\ Bit(u.read) = Bit(w.read) /\ Bit(w.read) \in Nat /\ Bit(w.write) \in Nat
      BY <2>2 DEF Bit
    <3> QED BY <3>1, SMT DEF Holds
  <2> QED BY <2>1, <2>3, <2>4, DroppingKeepsInv
<1>6. CASE Closes(f)
  <2>1. Free(w)
    BY <1>6 DEF Closes
  <2>2. CASE w.read /\ Dropping(f, TRUE, [w EXCEPT !.read = FALSE])
    <3> DEFINE u == [w EXCEPT !.read = FALSE]
    <3>1. DOMAIN u = Fields /\ u.read = FALSE /\ u.write = w.write /\ u.owes = w.owes /\ u.borrow = w.borrow
      BY <1>0 DEF Wired, Fields
    <3>2. Dropping(f, TRUE, u)
      BY <2>2
    <3> HIDE DEF u
    <3> QED BY <2>1, <2>2, <3>1, <3>2, GivingKeepsInv
  <2>3. CASE w.write /\ Dropping(f, TRUE, [w EXCEPT !.write = FALSE])
    <3> DEFINE u == [w EXCEPT !.write = FALSE]
    <3>1. DOMAIN u = Fields /\ u.read = w.read /\ u.write = FALSE /\ u.owes = w.owes /\ u.borrow = w.borrow
      BY <1>0 DEF Wired, Fields
    <3>2. Dropping(f, TRUE, u)
      BY <2>3
    <3> HIDE DEF u
    <3> QED BY <2>1, <2>3, <3>1, <3>2, GivingKeepsInv
  <2>4. CASE ~w.read /\ ~w.write /\ Becomes(f, Quiet) /\ UNCHANGED Slab
    <3>0. Quiet.read = FALSE /\ Quiet.write = FALSE /\ Quiet.owes = FALSE
      BY DEF Quiet
    <3>1. w.read = FALSE /\ w.write = FALSE /\ w.owes = FALSE /\ w.borrow = "none"
      BY <1>0, <2>1, <2>4 DEF Wired, Free
    <3>2. Claimed(Quiet) = FALSE /\ Claimed(w) = FALSE
      BY <3>1, QuietIsWired, SMT DEF Claimed
    <3>3. Alike(Quiet, w)
      BY <3>0, <3>1, <3>2 DEF Alike
    <3> QED BY <2>4, <3>3, QuietIsWired, SlabUntouched
  <2> QED BY <1>6, <2>2, <2>3, <2>4 DEF Closes
<1> QED BY <1>1, <1>2, <1>3, <1>4, <1>5, <1>6

-----------------------------------------------------------------------------
(* The theorem.                                                            *)

\* Every step keeps the invariant of the connections and their slab.
LEMMA StepKeepsWireInv == WireInv /\ [WireNext]_wireVars => WireInv'
<1> SUFFICES ASSUME WireInv, [WireNext]_wireVars PROVE WireInv'
  OBVIOUS
<1>1. CASE WireNext
  BY <1>1, ReadingKeepsInv, BorrowingKeepsInv, ReturningKeepsInv DEF WireNext
<1>2. CASE UNCHANGED wireVars
  BY <1>2 DEF wireVars, WireInv, Flows, SlabIsBounded, Readers, Writers, Owing, Claiming
<1> QED BY <1>1, <1>2

\* However many sessions read, forward and are cut short at once, the buffers in
\* their wires and on the free list together never number more than
\* max_outstanding, although a borrow and a return each touch the count and the
\* list separately (BufferSlab, buf.rs:60-130).
THEOREM SlabAlwaysBounded == WireSpec => []SlabIsBounded
<1>1. WireInv => SlabIsBounded
  BY DEF WireInv
<1> QED BY <1>1, InitWireInv, StepKeepsWireInv, PTL DEF WireSpec

-----------------------------------------------------------------------------
(* What a flow reads and writes.                                           *)

Message == [body : Nat, streamed : BOOLEAN]

\* The pieces of a flow, from the first queued to the last that overflowed.
Numbered(q, s) ==
  /\ q \in Seq(Nat) /\ s \in Seq(Nat)
  /\ \A i \in 1..Len(q) : q[i] = i
  /\ \A i \in 1..Len(s) : s[i] = Len(q) + i

\* What a flow holds has a use: a read buffer that no message streams through
\* has bytes in it between messages, a borrow has bytes to put in its buffer,
\* and a write buffer has a piece in it.
Tidy(w) ==
  /\ w.at \in {"announce", "stream"} => w.streamed
  /\ ~w.streamed /\ w.at \in {"header", "queue", "flush"} => w.left = 0 /\ (w.read => w.buffered > 0)
  /\ w.borrow \in {"wanting", "reading"} => w.chunk > 0
  /\ w.at # "closing" /\ (w.write \/ w.borrow = "writing") => w.queued # <<>>

Sound(w) ==
  /\ DOMAIN w = Fields
  /\ w.coming \in Seq(Message) /\ w.chunk \in Nat /\ w.buffered \in Nat /\ w.left \in Nat
  /\ w.streamed \in BOOLEAN
  /\ Numbered(w.queued, w.spare)
  /\ Tidy(w)

\* The inductive invariant of OutputInOrder and QuietHoldsNothing.
FlowInv == flow = [f \in Flow |-> flow[f]] /\ \A f \in Flow : Sound(flow[f])

\* One flow changes, and is sound.
LEMMA SoundBecomes ==
  ASSUME FlowInv, NEW f \in Flow, NEW w, Sound(w), Becomes(f, w)
  PROVE  FlowInv'
<1>1. flow' = [g \in Flow |-> IF g = f THEN w ELSE flow[g]]
  BY DEF FlowInv, Becomes
<1>2. \A g \in Flow : Sound(flow'[g])
  BY <1>1 DEF FlowInv
<1>3. flow' = [g \in Flow |-> flow'[g]]
  BY <1>1
<1> QED BY <1>2, <1>3 DEF FlowInv

\* A buffer on its way back changes nothing of that.
LEMMA SoundDropping ==
  ASSUME FlowInv, NEW f \in Flow, NEW gives, NEW w, Sound(w), Dropping(f, gives, w)
  PROVE  FlowInv'
<1> DEFINE u == [w EXCEPT !.owes = TRUE]
<1>1. /\ DOMAIN u = Fields /\ u.coming = w.coming /\ u.chunk = w.chunk /\ u.buffered = w.buffered
      /\ u.left = w.left /\ u.streamed = w.streamed /\ u.queued = w.queued /\ u.spare = w.spare
      /\ u.at = w.at /\ u.read = w.read /\ u.write = w.write /\ u.borrow = w.borrow
  BY DEF Sound, Fields
<1>2. Becomes(f, u) \/ Becomes(f, w)
  BY DEF Dropping
<1> HIDE DEF u
<1>3. Tidy(u)
  BY <1>1 DEF Sound, Tidy
<1>4. Sound(u)
  BY <1>1, <1>3 DEF Sound
<1> QED BY <1>2, <1>4, SoundBecomes

\* A reclaim takes a buffer away, which a tidy flow can spare if it is empty.
LEMMA SoundGoesOn ==
  ASSUME FlowInv, NEW f \in Flow, NEW w, DOMAIN w = Fields, w.coming \in Seq(Message), w.chunk \in Nat,
         w.buffered \in Nat, w.left \in Nat, w.streamed \in BOOLEAN, Numbered(w.queued, w.spare),
         w.at \in {"announce", "stream"} => w.streamed,
         ~w.streamed /\ w.at \in {"header", "queue", "flush"} => w.left = 0,
         w.borrow = "none", w.at # "closing" /\ w.write => w.queued # <<>>, GoesOn(f, w)
  PROVE  FlowInv'
<1> DEFINE gives == ReclaimedNow(w)
           v == [w EXCEPT !.read = FALSE]
           u == IF gives THEN v ELSE w
<1>1. /\ DOMAIN v = Fields /\ v.coming = w.coming /\ v.chunk = w.chunk /\ v.buffered = w.buffered
      /\ v.left = w.left /\ v.streamed = w.streamed /\ v.queued = w.queued /\ v.spare = w.spare
      /\ v.at = w.at /\ v.read = FALSE /\ v.write = w.write /\ v.borrow = w.borrow
  BY DEF Fields
<1>2. Dropping(f, gives, u)
  BY DEF GoesOn
<1>3. gives <=> w.read /\ w.buffered = 0
  BY DEF ReclaimedNow
<1> HIDE DEF gives, v
<1>4. u = IF gives THEN v ELSE w
  OBVIOUS
<1>5. Sound(v)
  <2>1. Tidy(v)
    BY <1>1 DEF Tidy
  <2> QED BY <1>1, <2>1 DEF Sound
<1>6. CASE gives
  BY <1>2, <1>4, <1>5, <1>6, SoundDropping
<1>7. CASE ~gives
  <2>1. w.read => w.buffered > 0
    BY <1>3, <1>7, SMT
  <2>2. Tidy(w)
    BY <2>1 DEF Tidy
  <2>3. Sound(w)
    BY <2>2 DEF Sound
  <2> QED BY <1>2, <1>4, <1>7, <2>3, SoundDropping
<1> QED BY <1>6, <1>7

\* A flow that begins, and one that is over, hold nothing to write.
LEMMA QuietIsSound == Sound(Quiet)
<1>1. /\ DOMAIN Quiet = Fields /\ Quiet.coming = <<>> /\ Quiet.chunk = 0 /\ Quiet.buffered = 0 /\ Quiet.left = 0
      /\ Quiet.streamed = FALSE /\ Quiet.queued = <<>> /\ Quiet.spare = <<>> /\ Quiet.at = "header"
      /\ Quiet.read = FALSE /\ Quiet.write = FALSE /\ Quiet.borrow = "none"
  BY DEF Quiet, Fields
<1>2. Numbered(<<>>, <<>>)
  BY SMT DEF Numbered
<1>3. Tidy(Quiet)
  BY <1>1 DEF Tidy
<1>4. <<>> \in Seq(Message) /\ 0 \in Nat
  BY SMT
<1> QED BY <1>1, <1>2, <1>3, <1>4 DEF Sound

\* A flow that is over.
LEMMA ClosingIsSound == ASSUME NEW w PROVE Sound(Closing(w))
<1> DEFINE u == Closing(w)
<1>1. /\ DOMAIN u = Fields /\ u.coming = <<>> /\ u.chunk = 0 /\ u.buffered = 0 /\ u.left = 0
      /\ u.streamed = FALSE /\ u.queued = <<>> /\ u.spare = <<>> /\ u.at = "closing" /\ u.borrow = "none"
  BY DEF Closing, Quiet, Fields
<1>2. Numbered(<<>>, <<>>)
  BY SMT DEF Numbered
<1>4. <<>> \in Seq(Message) /\ 0 \in Nat
  BY SMT
<1> HIDE DEF u
<1>3. Tidy(u)
  BY <1>1 DEF Tidy
<1>5. Sound(u)
  BY <1>1, <1>2, <1>3, <1>4 DEF Sound
<1> QED BY <1>5 DEF u

\* A piece more, at the end of the buffer or of the overflow, has the next number.
LEMMA PieceIsNext ==
  ASSUME NEW q, NEW s, Numbered(q, s), NEW n, n = Len(q) + Len(s) + 1
  PROVE  /\ Numbered(q, Append(s, n))
         /\ s = <<>> => Numbered(Append(q, n), s) /\ Append(q, n) # <<>>
<1>1. /\ q \in Seq(Nat) /\ s \in Seq(Nat) /\ Len(q) \in Nat /\ Len(s) \in Nat /\ n \in Nat
  BY SMT DEF Numbered
<1>2. /\ Append(s, n) \in Seq(Nat) /\ Len(Append(s, n)) = Len(s) + 1 /\ Append(s, n)[Len(s) + 1] = n
      /\ \A i \in 1..Len(s) : Append(s, n)[i] = s[i]
  BY <1>1, AppendProperties, SMT
<1>3. /\ Append(q, n) \in Seq(Nat) /\ Len(Append(q, n)) = Len(q) + 1 /\ Append(q, n)[Len(q) + 1] = n
      /\ \A i \in 1..Len(q) : Append(q, n)[i] = q[i]
  BY <1>1, AppendProperties, SMTT(30)
<1>4. ASSUME NEW i \in 1..(Len(s) + 1) PROVE Append(s, n)[i] = Len(q) + i
  <2>1. CASE i = Len(s) + 1
    BY <1>1, <1>2, <2>1, SMT
  <2>2. CASE i \in 1..Len(s)
    BY <1>1, <1>2, <2>2 DEF Numbered
  <2> QED BY <1>1, <1>4, <2>1, <2>2, SMT
<1>5. Numbered(q, Append(s, n))
  BY <1>1, <1>2, <1>4 DEF Numbered
<1>6. ASSUME s = <<>> PROVE Numbered(Append(q, n), s) /\ Append(q, n) # <<>>
  <2>1. Len(s) = 0 /\ n = Len(q) + 1
    BY <1>1, <1>6, SMTT(30)
  <2>2. ASSUME NEW i \in 1..(Len(q) + 1) PROVE Append(q, n)[i] = i
    <3>1. CASE i = Len(q) + 1
      BY <1>3, <2>1, <3>1
    <3>2. CASE i \in 1..Len(q)
      BY <1>3, <3>2 DEF Numbered
    <3> QED BY <1>1, <2>2, <3>1, <3>2, SMT
  <2>3. \A i \in 1..Len(s) : s[i] = Len(Append(q, n)) + i
    BY <2>1, SMT
  <2>4. Append(q, n) # <<>>
    BY <1>3, <1>1, SMT
  <2> QED BY <1>1, <1>3, <2>2, <2>3, <2>4 DEF Numbered
<1> QED BY <1>5, <1>6

\* The steps that read: bytes come, and a borrow that was begun for them.
LEMMA ReadingIsSound ==
  ASSUME FlowInv, NEW f \in Flow,
         \/ \E body \in Bodies, streamed \in BOOLEAN : PeerSends(f, body, streamed)
         \/ \E n \in 1..FirstRead : FillsCold(f, n)
         \/ \E n \in 1..HeldRead : FillsHeld(f, n)
         \/ Claims(f) \/ BorrowTimesOut(f) \/ Cut(f) \/ Settles(f) \/ Reclaims(f)
  PROVE  FlowInv'
<1> DEFINE w == flow[f]
<1>0. Sound(w) /\ Tidy(w)
  BY DEF FlowInv, Sound
<1>1. ASSUME NEW body \in Bodies, NEW streamed \in BOOLEAN, PeerSends(f, body, streamed) PROVE FlowInv'
  <2> DEFINE m == [body |-> body, streamed |-> streamed]
             u == [w EXCEPT !.coming = Append(@, m), !.socket = @ + HeaderLen + body]
  <2>1. Becomes(f, u)
    BY <1>1 DEF PeerSends
  <2>2. m \in Message
    BY WireAssumption DEF Message
  <2> HIDE DEF m
  <2>3. /\ DOMAIN u = Fields /\ u.coming = Append(w.coming, m) /\ u.chunk = w.chunk /\ u.buffered = w.buffered
        /\ u.left = w.left /\ u.streamed = w.streamed /\ u.queued = w.queued /\ u.spare = w.spare
        /\ u.at = w.at /\ u.read = w.read /\ u.write = w.write /\ u.borrow = w.borrow
    BY <1>0 DEF Sound, Fields
  <2>4. Append(w.coming, m) \in Seq(Message)
    BY <1>0, <2>2, AppendProperties DEF Sound
  <2> HIDE DEF u
  <2>5. Tidy(u)
    BY <1>0, <2>3 DEF Tidy
  <2>6. Sound(u)
    BY <1>0, <2>3, <2>4, <2>5 DEF Sound
  <2> QED BY <2>1, <2>6, SoundBecomes
<1>2. ASSUME NEW n \in 1..FirstRead, FillsCold(f, n) PROVE FlowInv'
  <2> DEFINE u == [w EXCEPT !.socket = @ - n, !.chunk = n, !.borrow = "wanting"]
  <2>1. Becomes(f, u) /\ w.borrow = "none"
    BY <1>2 DEF FillsCold, Free
  <2>2. n \in Nat /\ n > 0
    BY WireAssumption, SMT
  <2>3. /\ DOMAIN u = Fields /\ u.coming = w.coming /\ u.chunk = n /\ u.buffered = w.buffered
        /\ u.left = w.left /\ u.streamed = w.streamed /\ u.queued = w.queued /\ u.spare = w.spare
        /\ u.at = w.at /\ u.read = w.read /\ u.write = w.write /\ u.borrow = "wanting"
    BY <1>0 DEF Sound, Fields
  <2> HIDE DEF u
  <2>5. Tidy(u)
    BY <1>0, <2>2, <2>3 DEF Tidy
  <2>6. Sound(u)
    BY <1>0, <2>2, <2>3, <2>5 DEF Sound
  <2> QED BY <2>1, <2>6, SoundBecomes
<1>3. ASSUME NEW n \in 1..HeldRead, FillsHeld(f, n) PROVE FlowInv'
  <2> DEFINE u == [w EXCEPT !.socket = @ - n, !.buffered = @ + n]
  <2>1. Becomes(f, u)
    BY <1>3 DEF FillsHeld
  <2>2. w.buffered + n \in Nat /\ w.buffered + n > 0
    BY <1>0, WireAssumption, SMTT(30) DEF Sound
  <2>3. /\ DOMAIN u = Fields /\ u.coming = w.coming /\ u.chunk = w.chunk /\ u.buffered = w.buffered + n
        /\ u.left = w.left /\ u.streamed = w.streamed /\ u.queued = w.queued /\ u.spare = w.spare
        /\ u.at = w.at /\ u.read = w.read /\ u.write = w.write /\ u.borrow = w.borrow
    BY <1>0 DEF Sound, Fields
  <2> HIDE DEF u
  <2>5. Tidy(u)
    BY <1>0, <2>2, <2>3 DEF Tidy
  <2>6. Sound(u)
    BY <1>0, <2>2, <2>3, <2>5 DEF Sound
  <2> QED BY <2>1, <2>6, SoundBecomes
<1>4. CASE Claims(f)
  <2> DEFINE u == [w EXCEPT !.borrow = "reading"]
  <2>1. Becomes(f, u) /\ w.borrow = "wanting"
    BY <1>4 DEF Claims
  <2>3. /\ DOMAIN u = Fields /\ u.coming = w.coming /\ u.chunk = w.chunk /\ u.buffered = w.buffered
        /\ u.left = w.left /\ u.streamed = w.streamed /\ u.queued = w.queued /\ u.spare = w.spare
        /\ u.at = w.at /\ u.read = w.read /\ u.write = w.write /\ u.borrow = "reading"
    BY <1>0 DEF Sound, Fields
  <2> HIDE DEF u
  <2>5. Tidy(u)
    BY <1>0, <2>1, <2>3 DEF Tidy
  <2>6. Sound(u)
    BY <1>0, <2>3, <2>5 DEF Sound
  <2> QED BY <2>1, <2>6, SoundBecomes
<1>5. CASE BorrowTimesOut(f) \/ Cut(f)
  <2>1. Becomes(f, Closing(w))
    BY <1>5 DEF BorrowTimesOut, Cut
  <2> QED BY <2>1, ClosingIsSound, SoundBecomes
<1>6. CASE Settles(f)
  <2> DEFINE u == [w EXCEPT !.owes = FALSE]
  <2>1. Becomes(f, u)
    BY <1>6 DEF Settles
  <2>3. /\ DOMAIN u = Fields /\ u.coming = w.coming /\ u.chunk = w.chunk /\ u.buffered = w.buffered
        /\ u.left = w.left /\ u.streamed = w.streamed /\ u.queued = w.queued /\ u.spare = w.spare
        /\ u.at = w.at /\ u.read = w.read /\ u.write = w.write /\ u.borrow = w.borrow
    BY <1>0 DEF Sound, Fields
  <2> HIDE DEF u
  <2>5. Tidy(u)
    BY <1>0, <2>3 DEF Tidy
  <2>6. Sound(u)
    BY <1>0, <2>3, <2>5 DEF Sound
  <2> QED BY <2>1, <2>6, SoundBecomes
<1>7. CASE Reclaims(f)
  <2> DEFINE u == [w EXCEPT !.read = FALSE]
  <2>1. Dropping(f, TRUE, u)
    BY <1>7 DEF Reclaims
  <2>3. /\ DOMAIN u = Fields /\ u.coming = w.coming /\ u.chunk = w.chunk /\ u.buffered = w.buffered
        /\ u.left = w.left /\ u.streamed = w.streamed /\ u.queued = w.queued /\ u.spare = w.spare
        /\ u.at = w.at /\ u.read = FALSE /\ u.write = w.write /\ u.borrow = w.borrow
    BY <1>0 DEF Sound, Fields
  <2> HIDE DEF u
  <2>5. Tidy(u)
    BY <1>0, <2>3 DEF Tidy
  <2>6. Sound(u)
    BY <1>0, <2>3, <2>5 DEF Sound
  <2> QED BY <2>1, <2>6, SoundDropping
<1> QED BY <1>1, <1>2, <1>3, <1>4, <1>5, <1>6, <1>7

\* A borrow ends: the bytes move into the buffer, or the piece that asked for it
\* is already queued.
LEMMA TakingIsSound ==
  ASSUME FlowInv, NEW f \in Flow, TakesBuffer(f)
  PROVE  FlowInv'
<1> DEFINE w == flow[f]
<1>0. Sound(w) /\ Tidy(w)
  BY DEF FlowInv, Sound
<1>1. CASE w.borrow = "reading" /\ Becomes(f, [w EXCEPT !.borrow = "none", !.read = TRUE, !.buffered = w.chunk, !.chunk = 0])
  <2> DEFINE u == [w EXCEPT !.borrow = "none", !.read = TRUE, !.buffered = w.chunk, !.chunk = 0]
  <2>1. Becomes(f, u)
    BY <1>1
  <2>2. w.chunk \in Nat /\ w.chunk > 0
    BY <1>0, <1>1 DEF Sound, Tidy
  <2>3. /\ DOMAIN u = Fields /\ u.coming = w.coming /\ u.chunk = 0 /\ u.buffered = w.chunk
        /\ u.left = w.left /\ u.streamed = w.streamed /\ u.queued = w.queued /\ u.spare = w.spare
        /\ u.at = w.at /\ u.read = TRUE /\ u.write = w.write /\ u.borrow = "none"
    BY <1>0 DEF Sound, Fields
  <2> HIDE DEF u
  <2>5. Tidy(u)
    BY <1>0, <2>2, <2>3 DEF Tidy
  <2>6. Sound(u)
    BY <1>0, <2>2, <2>3, <2>5, SMT DEF Sound
  <2> QED BY <2>1, <2>6, SoundBecomes
<1>2. CASE w.borrow = "writing" /\ Becomes(f, [w EXCEPT !.borrow = "none", !.write = TRUE])
  <2> DEFINE u == [w EXCEPT !.borrow = "none", !.write = TRUE]
  <2>1. Becomes(f, u)
    BY <1>2
  <2>3. /\ DOMAIN u = Fields /\ u.coming = w.coming /\ u.chunk = w.chunk /\ u.buffered = w.buffered
        /\ u.left = w.left /\ u.streamed = w.streamed /\ u.queued = w.queued /\ u.spare = w.spare
        /\ u.at = w.at /\ u.read = w.read /\ u.write = TRUE /\ u.borrow = "none"
    BY <1>0 DEF Sound, Fields
  <2> HIDE DEF u
  <2>5. Tidy(u)
    BY <1>0, <1>2, <2>3 DEF Tidy
  <2>6. Sound(u)
    BY <1>0, <2>3, <2>5 DEF Sound
  <2> QED BY <2>1, <2>6, SoundBecomes
<1> QED BY <1>1, <1>2 DEF TakesBuffer

\* The steps that consume: a header, a part of a body.
LEMMA ConsumingIsSound ==
  ASSUME FlowInv, NEW f \in Flow, ReadsHeader(f) \/ TakesBody(f) \/ TakesChunk(f)
  PROVE  FlowInv'
<1> DEFINE w == flow[f]
           n == IF w.left < w.buffered THEN w.left ELSE w.buffered
<1>0. Sound(w) /\ Tidy(w)
  BY DEF FlowInv, Sound
<1>1. /\ w.coming \in Seq(Message) /\ w.buffered \in Nat /\ w.left \in Nat /\ w.chunk \in Nat
      /\ w.streamed \in BOOLEAN /\ Numbered(w.queued, w.spare)
  BY <1>0 DEF Sound
<1>2. w.buffered - n \in Nat /\ w.left - n \in Nat
  BY <1>1, SMTT(30)
<1>3. CASE ReadsHeader(f)
  <2> DEFINE m == Head(w.coming)
             next == IF m.streamed THEN "announce" ELSE IF m.body = 0 THEN "queue" ELSE "whole"
             u == [w EXCEPT !.buffered = @ - HeaderLen, !.coming = Tail(@), !.left = m.body,
                            !.streamed = m.streamed, !.at = next]
  <2>1. /\ GoesOn(f, u) /\ w.borrow = "none" /\ w.at = "header" /\ w.buffered >= HeaderLen /\ w.coming # <<>>
    BY <1>3 DEF ReadsHeader, Free
  <2>2. m \in Message /\ Tail(w.coming) \in Seq(Message)
    BY <1>1, <2>1, HeadTailProperties
  <2>3. m.body \in Nat /\ m.streamed \in BOOLEAN
    BY <2>2 DEF Message
  <2>4. w.buffered - HeaderLen \in Nat
    BY <1>1, <2>1, SMT DEF HeaderLen
  <2>5. /\ m.streamed => next = "announce"
        /\ ~m.streamed => next = "whole" \/ (next = "queue" /\ m.body = 0)
    OBVIOUS
  <2> HIDE DEF m, next
  <2>6. /\ DOMAIN u = Fields /\ u.coming = Tail(w.coming) /\ u.chunk = w.chunk /\ u.buffered = w.buffered - HeaderLen
        /\ u.left = m.body /\ u.streamed = m.streamed /\ u.queued = w.queued /\ u.spare = w.spare
        /\ u.at = next /\ u.write = w.write /\ u.borrow = w.borrow
    BY <1>0 DEF Sound, Fields
  <2>7. w.write => w.queued # <<>>
    BY <1>0, <2>1 DEF Tidy
  <2> HIDE DEF u
  <2>8. /\ u.at \in {"announce", "stream"} => u.streamed
        /\ ~u.streamed /\ u.at \in {"header", "queue", "flush"} => u.left = 0
        /\ u.borrow = "none" /\ (u.at # "closing" /\ u.write => u.queued # <<>>)
    BY <2>1, <2>3, <2>5, <2>6, <2>7
  <2>9. /\ DOMAIN u = Fields /\ u.coming \in Seq(Message) /\ u.chunk \in Nat /\ u.buffered \in Nat /\ u.left \in Nat
        /\ u.streamed \in BOOLEAN /\ Numbered(u.queued, u.spare)
    BY <1>1, <2>2, <2>3, <2>4, <2>6
  <2> QED BY <2>1, <2>8, <2>9, SoundGoesOn
<1>4. CASE TakesBody(f)
  <2> DEFINE after == [w EXCEPT !.buffered = @ - n, !.left = @ - n]
             u == [after EXCEPT !.at = "queue"]
  <2>1. /\ w.borrow = "none" /\ w.at = "whole"
        /\ IF after.left = 0 THEN GoesOn(f, u) ELSE Becomes(f, after)
    BY <1>4 DEF TakesBody, Free
  <2> HIDE DEF n
  <2>2. /\ DOMAIN after = Fields /\ after.coming = w.coming /\ after.chunk = w.chunk /\ after.buffered = w.buffered - n
        /\ after.left = w.left - n /\ after.streamed = w.streamed /\ after.queued = w.queued /\ after.spare = w.spare
        /\ after.at = w.at /\ after.read = w.read /\ after.write = w.write /\ after.borrow = w.borrow
    BY <1>0 DEF Sound, Fields
  <2> HIDE DEF after
  <2>3. /\ DOMAIN u = Fields /\ u.coming = after.coming /\ u.chunk = after.chunk /\ u.buffered = after.buffered
        /\ u.left = after.left /\ u.streamed = after.streamed /\ u.queued = after.queued /\ u.spare = after.spare
        /\ u.at = "queue" /\ u.write = after.write /\ u.borrow = after.borrow
    BY <2>2 DEF Fields
  <2> HIDE DEF u
  <2>4. w.write => w.queued # <<>>
    BY <1>0, <2>1 DEF Tidy
  <2>5. CASE after.left = 0
    <3>1. /\ u.at \in {"announce", "stream"} => u.streamed
          /\ ~u.streamed /\ u.at \in {"header", "queue", "flush"} => u.left = 0
          /\ u.borrow = "none" /\ (u.at # "closing" /\ u.write => u.queued # <<>>)
      BY <2>1, <2>2, <2>3, <2>4, <2>5
    <3>2. /\ DOMAIN u = Fields /\ u.coming \in Seq(Message) /\ u.chunk \in Nat /\ u.buffered \in Nat /\ u.left \in Nat
          /\ u.streamed \in BOOLEAN /\ Numbered(u.queued, u.spare)
      BY <1>1, <1>2, <2>2, <2>3
    <3> QED BY <2>1, <2>5, <3>1, <3>2, SoundGoesOn
  <2>6. CASE after.left # 0
    <3>1. Tidy(after)
      BY <1>0, <2>1, <2>2 DEF Tidy
    <3>2. Sound(after)
      BY <1>1, <1>2, <2>2, <3>1 DEF Sound
    <3> QED BY <2>1, <2>6, <3>2, SoundBecomes
  <2> QED BY <2>5, <2>6
<1>5. CASE TakesChunk(f)
  <2> DEFINE u == [w EXCEPT !.buffered = @ - n, !.left = @ - n, !.at = "queue"]
  <2>1. w.borrow = "none" /\ w.at = "stream" /\ Becomes(f, u)
    BY <1>5 DEF TakesChunk, Free
  <2> HIDE DEF n
  <2>2. /\ DOMAIN u = Fields /\ u.coming = w.coming /\ u.chunk = w.chunk /\ u.buffered = w.buffered - n
        /\ u.left = w.left - n /\ u.streamed = w.streamed /\ u.queued = w.queued /\ u.spare = w.spare
        /\ u.at = "queue" /\ u.read = w.read /\ u.write = w.write /\ u.borrow = w.borrow
    BY <1>0 DEF Sound, Fields
  <2> HIDE DEF u
  <2>3. Tidy(u)
    BY <1>0, <2>1, <2>2 DEF Tidy
  <2>4. Sound(u)
    BY <1>1, <1>2, <2>2, <2>3 DEF Sound
  <2> QED BY <2>1, <2>4, SoundBecomes
<1> QED BY <1>3, <1>4, <1>5

\* Queueing a piece, in the write buffer or, once something has overflowed,
\* behind what has.
LEMMA QueueingIsSound ==
  ASSUME FlowInv, NEW f \in Flow, Queues(f)
  PROVE  FlowInv'
<1> DEFINE w == flow[f]
           p == Piece(w)
<1>0. Sound(w) /\ Tidy(w)
  BY DEF FlowInv, Sound
<1>1. /\ w.coming \in Seq(Message) /\ w.buffered \in Nat /\ w.left \in Nat /\ w.chunk \in Nat
      /\ w.streamed \in BOOLEAN /\ Numbered(w.queued, w.spare)
  BY <1>0 DEF Sound
<1>2. PICK next \in AfterPiece(w) :
        \/ Becomes(f, [w EXCEPT !.spare = Append(@, p), !.at = next])
        \/ ~GoesToSpare(w) /\ Becomes(f, [w EXCEPT !.queued = Append(@, p), !.at = next])
        \/ ~GoesToSpare(w) /\ Becomes(f, [w EXCEPT !.queued = Append(@, p), !.at = next, !.borrow = "writing"])
  BY DEF Queues
<1>3. w.borrow = "none" /\ w.at \in {"announce", "queue"}
  BY DEF Queues, Free
<1>4. next \in {"stream", "flush", "header"} /\ (next = "stream" => w.at = "announce")
  BY <1>2 DEF AfterPiece
<1>5. /\ Numbered(w.queued, Append(w.spare, p))
      /\ ~GoesToSpare(w) => Numbered(Append(w.queued, p), w.spare) /\ Append(w.queued, p) # <<>>
  BY <1>1, PieceIsNext DEF Piece, GoesToSpare
<1>6. ASSUME NEW u, DOMAIN u = Fields, u.coming = w.coming, u.chunk = w.chunk, u.buffered = w.buffered,
             u.left = w.left, u.streamed = w.streamed, u.at = next, u.read = w.read,
             u.write = w.write, u.borrow \in {"none", "writing"}, Numbered(u.queued, u.spare),
             u.write \/ u.borrow = "writing" => u.queued # <<>>, Becomes(f, u)
      PROVE  FlowInv'
  <2>1. Tidy(u)
    BY <1>0, <1>3, <1>4, <1>6 DEF Tidy
  <2>2. Sound(u)
    BY <1>1, <1>6, <2>1 DEF Sound
  <2> QED BY <1>6, <2>2, SoundBecomes
<1> HIDE DEF p
<1>7. CASE Becomes(f, [w EXCEPT !.spare = Append(@, p), !.at = next])
  <2> DEFINE u == [w EXCEPT !.spare = Append(@, p), !.at = next]
  <2>1. Becomes(f, u)
    BY <1>7
  <2>2. /\ DOMAIN u = Fields /\ u.coming = w.coming /\ u.chunk = w.chunk /\ u.buffered = w.buffered
        /\ u.left = w.left /\ u.streamed = w.streamed /\ u.queued = w.queued /\ u.spare = Append(w.spare, p)
        /\ u.at = next /\ u.read = w.read /\ u.write = w.write /\ u.borrow = w.borrow
    BY <1>0 DEF Sound, Fields
  <2> HIDE DEF u
  <2>3. u.write \/ u.borrow = "writing" => u.queued # <<>>
    BY <1>0, <1>3, <2>2 DEF Tidy
  <2> QED BY <1>3, <1>5, <1>6, <2>1, <2>2, <2>3
<1>8. CASE ~GoesToSpare(w) /\ Becomes(f, [w EXCEPT !.queued = Append(@, p), !.at = next])
  <2> DEFINE u == [w EXCEPT !.queued = Append(@, p), !.at = next]
  <2>1. Becomes(f, u)
    BY <1>8
  <2>2. /\ DOMAIN u = Fields /\ u.coming = w.coming /\ u.chunk = w.chunk /\ u.buffered = w.buffered
        /\ u.left = w.left /\ u.streamed = w.streamed /\ u.queued = Append(w.queued, p) /\ u.spare = w.spare
        /\ u.at = next /\ u.read = w.read /\ u.write = w.write /\ u.borrow = w.borrow
    BY <1>0 DEF Sound, Fields
  <2> HIDE DEF u
  <2> QED BY <1>3, <1>5, <1>6, <1>8, <2>1, <2>2
<1>9. CASE ~GoesToSpare(w) /\ Becomes(f, [w EXCEPT !.queued = Append(@, p), !.at = next, !.borrow = "writing"])
  <2> DEFINE u == [w EXCEPT !.queued = Append(@, p), !.at = next, !.borrow = "writing"]
  <2>1. Becomes(f, u)
    BY <1>9
  <2>2. /\ DOMAIN u = Fields /\ u.coming = w.coming /\ u.chunk = w.chunk /\ u.buffered = w.buffered
        /\ u.left = w.left /\ u.streamed = w.streamed /\ u.queued = Append(w.queued, p) /\ u.spare = w.spare
        /\ u.at = next /\ u.read = w.read /\ u.write = w.write /\ u.borrow = "writing"
    BY <1>0 DEF Sound, Fields
  <2> HIDE DEF u
  <2> QED BY <1>5, <1>6, <1>9, <2>1, <2>2
<1> QED BY <1>2, <1>7, <1>8, <1>9

\* A flush empties both, and the session that follows starts with nothing.
LEMMA FlushingIsSound ==
  ASSUME FlowInv, NEW f \in Flow, Flushes(f) \/ Closes(f)
  PROVE  FlowInv'
<1> DEFINE w == flow[f]
<1>0. Sound(w) /\ Tidy(w)
  BY DEF FlowInv, Sound
<1>1. /\ w.coming \in Seq(Message) /\ w.buffered \in Nat /\ w.left \in Nat /\ w.chunk \in Nat
      /\ w.streamed \in BOOLEAN /\ Numbered(w.queued, w.spare)
  BY <1>0 DEF Sound
<1>2. CASE Flushes(f)
  <2> DEFINE next == IF w.left > 0 THEN "stream" ELSE "header"
             u == [w EXCEPT !.queued = <<>>, !.spare = <<>>, !.write = FALSE, !.at = next]
  <2>1. w.borrow = "none" /\ w.at = "flush" /\ Dropping(f, w.write, u)
    BY <1>2 DEF Flushes, Free
  <2>2. next = "header" \/ (next = "stream" /\ w.streamed)
    <3>1. w.left > 0 => w.streamed
      BY <1>0, <1>1, <2>1, SMT DEF Tidy
    <3> QED BY <3>1
  <2> HIDE DEF next
  <2>3. /\ DOMAIN u = Fields /\ u.coming = w.coming /\ u.chunk = w.chunk /\ u.buffered = w.buffered
        /\ u.left = w.left /\ u.streamed = w.streamed /\ u.queued = <<>> /\ u.spare = <<>>
        /\ u.at = next /\ u.read = w.read /\ u.write = FALSE /\ u.borrow = w.borrow
    BY <1>0 DEF Sound, Fields
  <2> HIDE DEF u
  <2>4. Tidy(u)
    BY <1>0, <2>1, <2>2, <2>3 DEF Tidy
  <2>5. Numbered(<<>>, <<>>)
    BY QuietIsSound, SMTT(30) DEF Numbered
  <2>6. Sound(u)
    BY <1>1, <2>3, <2>4, <2>5 DEF Sound
  <2> QED BY <2>1, <2>6, SoundDropping
<1>3. CASE Closes(f)
  <2>1. w.at = "closing" /\ w.borrow = "none"
    BY <1>3 DEF Closes, Free
  <2>2. CASE Dropping(f, TRUE, [w EXCEPT !.read = FALSE])
    <3> DEFINE u == [w EXCEPT !.read = FALSE]
    <3>1. /\ DOMAIN u = Fields /\ u.coming = w.coming /\ u.chunk = w.chunk /\ u.buffered = w.buffered
          /\ u.left = w.left /\ u.streamed = w.streamed /\ u.queued = w.queued /\ u.spare = w.spare
          /\ u.at = w.at /\ u.borrow = w.borrow
      BY <1>0 DEF Sound, Fields
    <3>2. Dropping(f, TRUE, u)
      BY <2>2
    <3> HIDE DEF u
    <3>3. Tidy(u)
      BY <2>1, <3>1 DEF Tidy
    <3>4. Sound(u)
      BY <1>1, <3>1, <3>3 DEF Sound
    <3> QED BY <3>2, <3>4, SoundDropping
  <2>3. CASE Dropping(f, TRUE, [w EXCEPT !.write = FALSE])
    <3> DEFINE u == [w EXCEPT !.write = FALSE]
    <3>1. /\ DOMAIN u = Fields /\ u.coming = w.coming /\ u.chunk = w.chunk /\ u.buffered = w.buffered
          /\ u.left = w.left /\ u.streamed = w.streamed /\ u.queued = w.queued /\ u.spare = w.spare
          /\ u.at = w.at /\ u.borrow = w.borrow
      BY <1>0 DEF Sound, Fields
    <3>2. Dropping(f, TRUE, u)
      BY <2>3
    <3> HIDE DEF u
    <3>3. Tidy(u)
      BY <2>1, <3>1 DEF Tidy
    <3>4. Sound(u)
      BY <1>1, <3>1, <3>3 DEF Sound
    <3> QED BY <3>2, <3>4, SoundDropping
  <2>4. CASE Becomes(f, Quiet)
    BY <2>4, QuietIsSound, SoundBecomes
  <2> QED BY <1>3, <2>2, <2>3, <2>4 DEF Closes
<1> QED BY <1>2, <1>3

\* The invariant holds from the start and every step keeps it.
LEMMA FlowInvAlways == WireSpec => []FlowInv
<1>1. WireInit => FlowInv
  BY QuietIsSound DEF WireInit, FlowInv
<1>2. FlowInv /\ [WireNext]_wireVars => FlowInv'
  <2> SUFFICES ASSUME FlowInv, [WireNext]_wireVars PROVE FlowInv'
    OBVIOUS
  <2>1. CASE WireNext
    BY <2>1, ReadingIsSound, TakingIsSound, ConsumingIsSound, QueueingIsSound, FlushingIsSound DEF WireNext
  <2>2. CASE UNCHANGED wireVars
    BY <2>2 DEF wireVars, FlowInv
  <2> QED BY <2>1, <2>2
<1> QED BY <1>1, <1>2, PTL DEF WireSpec

\* Whatever the slab could lend while the pieces were queued, a flush writes them
\* in the order they were queued (Wire::queue and flush, shell.rs).
THEOREM OutputAlwaysInOrder == WireSpec => []OutputInOrder
<1>1. FlowInv => OutputInOrder
  <2> SUFFICES ASSUME FlowInv, NEW f \in Flow
               PROVE  Written(flow[f]) = [i \in 1..Len(Written(flow[f])) |-> i]
    BY DEF OutputInOrder
  <2> DEFINE q == flow[f].queued
             s == flow[f].spare
             o == q \o s
  <2>1. Numbered(q, s)
    BY DEF FlowInv, Sound
  <2>2. q \in Seq(Nat) /\ s \in Seq(Nat) /\ Len(q) \in Nat /\ Len(s) \in Nat
    BY <2>1, SMT DEF Numbered
  <2>3. /\ o \in Seq(Nat) /\ Len(o) = Len(q) + Len(s)
        /\ \A i \in 1..(Len(q) + Len(s)) : o[i] = IF i <= Len(q) THEN q[i] ELSE s[i - Len(q)]
    BY <2>2, ConcatProperties
  <2> HIDE DEF q, s, o
  <2>4. ASSUME NEW i \in 1..(Len(q) + Len(s)) PROVE o[i] = i
    <3>1. CASE i <= Len(q)
      <4>1. i \in 1..Len(q)
        BY <2>2, <2>4, <3>1, SMT
      <4> QED BY <2>1, <2>3, <3>1, <4>1 DEF Numbered
    <3>2. CASE ~(i <= Len(q))
      <4>1. i - Len(q) \in 1..Len(s) /\ Len(q) + (i - Len(q)) = i
        BY <2>2, <2>4, <3>2, SMT
      <4>2. s[i - Len(q)] = Len(q) + (i - Len(q))
        BY <2>1, <4>1 DEF Numbered
      <4> QED BY <2>3, <3>2, <4>1, <4>2
    <3> QED BY <3>1, <3>2
  <2>5. o \in [1..Len(o) -> Nat]
    BY <2>3, LenProperties
  <2>6. o = [i \in 1..Len(o) |-> i]
    BY <2>3, <2>4, <2>5
  <2> QED BY <2>6 DEF q, s, o, Written
<1> QED BY <1>1, FlowInvAlways, PTL

\* A session that waits for its peer with nothing left to write holds neither a
\* read nor a write buffer, unless the body before was streamed (`reclaim` and
\* `flush`, shell.rs).
THEOREM QuietAlwaysHoldsNothing == WireSpec => []QuietHoldsNothing
<1>1. FlowInv => QuietHoldsNothing
  <2> SUFFICES ASSUME FlowInv, NEW f \in Flow, Waiting(flow[f]), ~flow[f].streamed
               PROVE  ~flow[f].read /\ ~flow[f].write
    BY DEF QuietHoldsNothing
  <2>1. Tidy(flow[f])
    BY DEF FlowInv, Sound
  <2>2. flow[f].at = "header" /\ flow[f].buffered = 0 /\ flow[f].queued = <<>>
    BY DEF Waiting
  <2> QED BY <2>1, <2>2, SMT DEF Tidy
<1> QED BY <1>1, FlowInvAlways, PTL


(***************************************************************************)
(* Digests.                                                                *)
(***************************************************************************)

\* A digest that one of the peer's runs, up to this one, has numbered.
Genuine(d, run) ==
  /\ d.run \in Nat /\ d.version \in Nat /\ d.run <= run /\ d.mode \in Modes
  /\ VersionFloor(d.run) <= d.version /\ d.version < VersionFloor(d.run) + MaxSent

\* The peer's counter: within the room of its run, drafts included.
PeerInv ==
  /\ peer.run \in Nat /\ peer.next \in Nat /\ peer.mode \in Modes
  /\ peer = [run |-> peer.run, next |-> peer.next, mode |-> peer.mode]
  /\ drafts \in [Modes -> Nat] /\ instant \in Nat
  /\ VersionFloor(peer.run) <= peer.next
  /\ peer.next + InHand <= VersionFloor(peer.run) + MaxSent

\* Every digest under way is genuine.
WayInv ==
  /\ \A d \in flying : Genuine(d, peer.run)
  /\ \A a \in applying : Genuine(a.digest, peer.run) /\ a.at \in Nat

\* What the receiver holds is of the latest run it has heard of.
HeldInv ==
  /\ store = Nothing \/ Genuine(store, peer.run)
  /\ contact = Unheard \/ (contact = [mode |-> contact.mode, at |-> contact.at] /\ contact.at \in Nat)
  /\ newest = IF store = Nothing THEN -1 ELSE store.run
  /\ store = Nothing <=> contact = Unheard

\* StoreTracksThePeer alone is not inductive: it needs that the versions of a
\* later run are above those of an earlier one, and so where versions come from.
DigestInv == PeerInv /\ WayInv /\ HeldInv

\* A later run's versions are above every version of an earlier one.
LEMMA LaterRunsNumberHigher ==
  ASSUME NEW a \in Nat, NEW b \in Nat, a < b
  PROVE  VersionFloor(a) \in Nat /\ VersionFloor(a) + MaxSent < VersionFloor(b)
<1> DEFINE M == MaxSent + 1
<1>1. MaxSent \in Nat /\ M \in Nat /\ M >= 1
  BY DigestAssumption, SMT
<1>2. PICK k \in Nat : b = a + 1 + k
  <2>1. b - a - 1 \in Nat /\ b = a + 1 + (b - a - 1)
    BY SMT
  <2> QED BY <2>1
<1>3. b * M = a * M + M + k * M /\ k * M \in Nat /\ a * M \in Nat
  BY <1>1, <1>2, SMT
<1> QED BY <1>1, <1>3, SMT DEF VersionFloor

\* Of two genuine digests, the one with the higher version is of the same run
\* or of a later one.
LEMMA VersionsFollowRuns ==
  ASSUME NEW run \in Nat, NEW d, NEW e, Genuine(d, run), Genuine(e, run), d.version <= e.version
  PROVE  d.run <= e.run
<1>1. d.run \in Nat /\ e.run \in Nat /\ d.version \in Nat /\ e.version \in Nat /\ MaxSent \in Nat
  BY DigestAssumption DEF Genuine
<1>2. CASE e.run < d.run
  <2>1. VersionFloor(e.run) \in Nat /\ VersionFloor(e.run) + MaxSent < VersionFloor(d.run)
    BY <1>1, <1>2, LaterRunsNumberHigher
  <2>2. e.version < VersionFloor(e.run) + MaxSent /\ VersionFloor(d.run) <= d.version
    BY DEF Genuine
  <2>3. VersionFloor(d.run) \in Nat
    BY <1>1, DigestAssumption, SMT DEF VersionFloor
  <2> QED BY <1>1, <2>1, <2>2, <2>3, SMT
<1> QED BY <1>1, <1>2, SMT

\* A digest stays genuine while the peer goes on.
LEMMA GenuineStays ==
  ASSUME NEW d, NEW r \in Nat, NEW s \in Nat, Genuine(d, r), r <= s
  PROVE  Genuine(d, s)
BY SMT DEF Genuine

\* Nothing is not a digest of anybody.
LEMMA NothingIsNotGenuine == \A d, r : Genuine(d, r) => d # Nothing
BY SMT DEF Genuine, Nothing

\* The invariant holds before anything is said or heard.
LEMMA InitDigestInv == DigestInit => DigestInv
<1> SUFFICES ASSUME DigestInit PROVE DigestInv
  OBVIOUS
<1>1. VersionFloor(0) = 0
  BY DigestAssumption, SMT DEF VersionFloor
<1>2. MaxSent \in Nat
  BY DigestAssumption
<1> QED BY <1>1, <1>2, SMT DEF DigestInit, DigestInv, PeerInv, WayInv, HeldInv, InHand, Modes

\* The peer's steps, and the clock's.
LEMMA PeerInvStep == DigestInv /\ [DigestNext]_digestVars => PeerInv'
<1> SUFFICES ASSUME DigestInv, [DigestNext]_digestVars PROVE PeerInv'
  OBVIOUS
<1> USE DEF DigestInv, PeerInv, InHand, Modes
<1>0. MaxSent \in Nat /\ VersionFloor(peer.run) \in Nat
  BY DigestAssumption, SMT DEF VersionFloor
<1>1. CASE ChangesMode
  BY <1>0, <1>1 DEF ChangesMode
<1>2. CASE MakesDigest
  BY <1>0, <1>2, SMT DEF MakesDigest
<1>3. ASSUME NEW m \in Modes, NumbersDigest(m) PROVE PeerInv'
  BY <1>0, <1>3, SMT DEF NumbersDigest
<1>4. CASE PeerRestarts
  <2>1. VersionFloor(peer.run + 1) \in Nat
    BY DigestAssumption, SMT DEF VersionFloor
  <2> QED BY <1>0, <1>4, <2>1, SMT DEF PeerRestarts
<1>5. CASE ClockMoves
  BY <1>0, <1>5, SMT DEF ClockMoves
<1>6. CASE UNCHANGED <<peer, drafts, instant>>
  BY <1>0, <1>6
<1>7. CASE ReapsPeer
  BY <1>6, <1>7 DEF ReapsPeer
<1>8. ASSUME NEW d \in flying, Arrives(d) PROVE PeerInv'
  BY <1>6, <1>8 DEF Arrives
<1>9. ASSUME NEW a \in applying, Applies(a) PROVE PeerInv'
  BY <1>6, <1>9 DEF Applies
<1>10. CASE UNCHANGED digestVars
  BY <1>6, <1>10 DEF digestVars
<1> QED BY <1>1, <1>2, <1>3, <1>4, <1>5, <1>7, <1>8, <1>9, <1>10 DEF DigestNext

\* The peer's run never goes back.
LEMMA RunsGoOn == DigestInv /\ [DigestNext]_digestVars => peer.run <= peer'.run
BY SMT DEF DigestInv, PeerInv, DigestNext, digestVars, ChangesMode, MakesDigest, NumbersDigest, PeerRestarts,
       Arrives, Applies, ReapsPeer, ClockMoves

\* What is numbered is genuine, and stays so on the way (outgoing, gossip).
LEMMA WayInvStep == DigestInv /\ [DigestNext]_digestVars => WayInv'
<1> SUFFICES ASSUME DigestInv, [DigestNext]_digestVars PROVE WayInv'
  OBVIOUS
<1>1. peer.run \in Nat /\ peer'.run \in Nat /\ peer.run <= peer'.run
  BY PeerInvStep, RunsGoOn DEF DigestInv, PeerInv
<1>2. /\ \A d \in flying : Genuine(d, peer'.run)
      /\ \A a \in applying : Genuine(a.digest, peer'.run) /\ a.at \in Nat
  BY <1>1, GenuineStays DEF DigestInv, WayInv
<1>3. ASSUME NEW m \in Modes, NumbersDigest(m) PROVE WayInv'
  <2> DEFINE d == [version |-> peer.next, mode |-> m, run |-> peer.run]
  <2>1. InHand \in Nat /\ InHand > 0 /\ VersionFloor(peer.run) \in Nat /\ MaxSent \in Nat
    BY <1>3, DigestAssumption, SMT DEF DigestInv, PeerInv, InHand, NumbersDigest, Modes, VersionFloor
  <2>2. Genuine(d, peer'.run)
    BY <1>1, <1>3, <2>1, SMT DEF Genuine, DigestInv, PeerInv, NumbersDigest
  <2>3. flying' = flying \cup {d} /\ applying' = applying
    BY <1>3 DEF NumbersDigest
  <2> QED BY <1>2, <2>2, <2>3 DEF WayInv
<1>4. ASSUME NEW d \in flying, Arrives(d) PROVE WayInv'
  <2>1. Genuine(d, peer'.run) /\ instant \in Nat
    BY <1>2 DEF DigestInv, PeerInv
  <2>2. flying' \subseteq flying /\ applying' = applying \cup {[digest |-> d, at |-> instant]}
    BY <1>4 DEF Arrives
  <2> QED BY <1>2, <2>1, <2>2, SMT DEF WayInv
<1>5. CASE flying' = flying /\ applying' \subseteq applying
  BY <1>2, <1>5 DEF WayInv
<1>6. ASSUME NEW a \in applying, Applies(a) PROVE WayInv'
  BY <1>5, <1>6 DEF Applies
<1>7. CASE ChangesMode \/ MakesDigest \/ PeerRestarts \/ ReapsPeer \/ ClockMoves \/ UNCHANGED digestVars
  BY <1>5, <1>7 DEF ChangesMode, MakesDigest, PeerRestarts, ReapsPeer, ClockMoves, digestVars
<1> QED BY <1>3, <1>4, <1>6, <1>7 DEF DigestNext

\* The receiver's steps: a digest of an earlier run never replaces one of a
\* later run, and contact and digest come and go together (NodeCoordinator's
\* gossip and observe).
LEMMA HeldInvStep == DigestInv /\ [DigestNext]_digestVars => HeldInv'
<1> SUFFICES ASSUME DigestInv, [DigestNext]_digestVars PROVE HeldInv'
  OBVIOUS
<1>1. peer.run \in Nat /\ peer'.run \in Nat /\ peer.run <= peer'.run
  BY PeerInvStep, RunsGoOn DEF DigestInv, PeerInv
<1>2. HeldInv
  BY DEF DigestInv
<1>3. store = Nothing \/ Genuine(store, peer'.run)
  BY <1>1, <1>2, GenuineStays DEF HeldInv
<1>4. CASE UNCHANGED <<store, contact, newest>>
  BY <1>2, <1>3, <1>4 DEF HeldInv
<1>5. ASSUME NEW a \in applying, Applies(a) PROVE HeldInv'
  <2>1. Genuine(a.digest, peer.run) /\ a.at \in Nat
    BY DEF DigestInv, WayInv
  <2>2. a.digest.run \in Nat /\ a.digest.version \in Nat /\ a.digest # Nothing
    BY <2>1, NothingIsNotGenuine DEF Genuine
  <2>3. Genuine(a.digest, peer'.run)
    BY <1>1, <2>1, GenuineStays
  <2>4. CASE IsStale(a.digest)
    <3>1. store # Nothing /\ Genuine(store, peer.run) /\ a.digest.version <= store.version
      BY <1>2, <2>4 DEF HeldInv, IsStale
    <3>2. a.digest.run <= store.run /\ store.run \in Nat
      BY <1>1, <2>1, <3>1, VersionsFollowRuns DEF Genuine
    <3>3. newest' = newest /\ store' = store
      BY <1>2, <1>5, <2>2, <2>4, <3>1, <3>2, SMT DEF Applies, HeldInv
    <3>4. contact # Unheard /\ contact = [mode |-> contact.mode, at |-> contact.at] /\ contact.at \in Nat
      BY <1>2, <3>1 DEF HeldInv
    <3>5. contact' = contact \/ contact' = [mode |-> contact.mode, at |-> a.at]
      BY <1>5, <2>4, <3>4 DEF Applies, HeardWithoutMode
    <3>6. contact' # Unheard /\ contact' = [mode |-> contact'.mode, at |-> contact'.at] /\ contact'.at \in Nat
      BY <2>1, <3>4, <3>5, SMTT(30) DEF Unheard
    <3> QED BY <1>2, <1>3, <3>1, <3>3, <3>6 DEF HeldInv
  <2>5. CASE ~IsStale(a.digest)
    <3>1. store' = a.digest /\ contact' = HeardPeer(a.digest.mode, a.at)
      BY <1>5, <2>5 DEF Applies
    <3>2. newest' = a.digest.run
      <4>1. CASE store = Nothing
        BY <1>2, <1>5, <2>2, <4>1, SMT DEF Applies, HeldInv
      <4>2. CASE store # Nothing
        <5>1. Genuine(store, peer.run) /\ ~(a.digest.version <= store.version)
          BY <1>2, <2>5, <4>2 DEF HeldInv, IsStale
        <5>2. store.version <= a.digest.version /\ store.run \in Nat
          BY <2>2, <5>1, SMTT(30) DEF Genuine
        <5>3. store.run <= a.digest.run
          BY <1>1, <2>1, <5>1, <5>2, VersionsFollowRuns
        <5> QED BY <1>2, <1>5, <2>2, <4>2, <5>2, <5>3, SMTT(30) DEF Applies, HeldInv
      <4> QED BY <4>1, <4>2
    <3>3. contact' # Unheard /\ contact' = [mode |-> contact'.mode, at |-> contact'.at] /\ contact'.at \in Nat
      BY <1>2, <2>1, <3>1, SMT DEF HeldInv, HeardPeer, Unheard
    <3> QED BY <2>2, <2>3, <3>1, <3>2, <3>3 DEF HeldInv
  <2> QED BY <2>4, <2>5
<1>6. CASE ReapsPeer
  BY <1>6 DEF ReapsPeer, HeldInv
<1>7. ASSUME NEW m \in Modes, NumbersDigest(m) PROVE HeldInv'
  BY <1>4, <1>7 DEF NumbersDigest
<1>8. ASSUME NEW d \in flying, Arrives(d) PROVE HeldInv'
  BY <1>4, <1>8 DEF Arrives
<1>9. CASE ChangesMode \/ MakesDigest \/ PeerRestarts \/ ClockMoves \/ UNCHANGED digestVars
  BY <1>4, <1>9 DEF ChangesMode, MakesDigest, PeerRestarts, ClockMoves, digestVars
<1> QED BY <1>5, <1>6, <1>7, <1>8, <1>9 DEF DigestNext

\* The invariant is inductive.
LEMMA DigestInvAlways == DigestSpec => []DigestInv
<1>1. DigestInv /\ [DigestNext]_digestVars => DigestInv'
  BY PeerInvStep, WayInvStep, HeldInvStep DEF DigestInv
<1> QED BY <1>1, InitDigestInv, PTL DEF DigestSpec

\* However late and in whatever order the digests of any number of runs arrive,
\* what a node holds of a peer is of the latest run it has heard of, and it holds
\* a digest exactly while the peer is in its view (coordinator.rs gossip and
\* observe, service.rs version_floor).
THEOREM StoreAlwaysTracksThePeer == DigestSpec => []StoreTracksThePeer
<1>1. DigestInv => StoreTracksThePeer
  BY DEF DigestInv, HeldInv, StoreTracksThePeer
<1> QED BY <1>1, DigestInvAlways, PTL

\* A digest that was overtaken on its way never changes the mode the view has of
\* its sender (coordinator.rs gossip, membership.rs heard_without_mode).
THEOREM OldNewsNeverChangesTheMode == DigestSpec => OldNewsChangesNothing
<1> DEFINE Step == contact # Unheard /\ contact' # Unheard /\ contact'.mode # contact.mode
                     => store'.version > store.version
<1>1. DigestInv /\ [DigestNext]_digestVars => [Step]_digestVars
  <2> SUFFICES ASSUME DigestInv, DigestNext, contact # Unheard, contact' # Unheard, contact'.mode # contact.mode
               PROVE  store'.version > store.version
    BY DEF Step
  <2>1. PICK a \in applying : Applies(a)
    BY DEF DigestNext, ChangesMode, MakesDigest, PeerRestarts, ReapsPeer, ClockMoves, NumbersDigest, Arrives
  <2>2. contact = [mode |-> contact.mode, at |-> contact.at] /\ store # Nothing /\ Genuine(store, peer.run)
    BY DEF DigestInv, HeldInv
  <2>3. ~IsStale(a.digest)
    BY <2>1, <2>2 DEF Applies, HeardWithoutMode
  <2>4. store' = a.digest /\ ~(a.digest.version <= store.version)
    BY <2>1, <2>2, <2>3 DEF Applies, IsStale
  <2>5. a.digest.version \in Nat /\ store.version \in Nat
    BY <2>2 DEF DigestInv, WayInv, Genuine
  <2> QED BY <2>4, <2>5, SMT
<1> QED BY <1>1, DigestInvAlways, PTL DEF DigestSpec, OldNewsChangesNothing
=============================================================================
