--------------------------- MODULE LivePoolProofs ---------------------------
(***************************************************************************)
(* What holds of LivePool for every number of clients, size and limit.     *)
(***************************************************************************)
EXTENDS LivePool, FiniteSetTheorems, SequenceTheorems, TLAPS

\* First-order leaves go to Zenon, the others to the SMT solver.
USE ZenonT(3), SMTT(20)

-----------------------------------------------------------------------------
(* The doorbell stays a doorbell.                                          *)

Bell == [bell : [Client -> Notified], queue : Seq(Client), permit : BOOLEAN]

\* Taking one element out leaves a sequence of what is left.
LEMMA WithoutType ==
  ASSUME NEW q \in Seq(Client), NEW c
  PROVE  Without(q, c) \in Seq(Client)
<1>. DEFINE at == CHOOSE i \in 1..Len(q) : q[i] = c
<1>1. CASE \E i \in 1..Len(q) : q[i] = c
  <2>1. at \in 1..Len(q)
    BY <1>1
  <2>2. Without(q, c) = SubSeq(q, 1, at - 1) \o SubSeq(q, at + 1, Len(q))
    BY <1>1 DEF Without
  <2>. HIDE DEF at
  <2>. QED  BY <2>1, <2>2, SMT
<1>2. CASE ~\E i \in 1..Len(q) : q[i] = c
  BY <1>2 DEF Without
<1>. QED
  BY <1>1, <1>2

\* Waking one waiter leaves the bell well formed.
LEMMA NotifyOneType == ASSUME NEW d \in Bell PROVE NotifyOne(d) \in Bell
<1>1. CASE d.queue = <<>>
  BY <1>1 DEF NotifyOne, Bell
<1>2. CASE d.queue # <<>>
  <2>1. Head(d.queue) \in Client /\ Tail(d.queue) \in Seq(Client)
    BY <1>2, SMT DEF Bell
  <2>. QED  BY <1>2, <2>1 DEF NotifyOne, Bell, Notified
<1>. QED
  BY <1>1, <1>2

\* Waking every waiter leaves the bell well formed.
LEMMA NotifyAllType == ASSUME NEW d \in Bell PROVE NotifyAll(d) \in Bell
<1>. DEFINE rung == [c \in Client |-> IF d.bell[c] = "queued" THEN "all" ELSE d.bell[c]]
<1>1. rung \in [Client -> Notified]
  BY DEF Bell, Notified
<1>2. NotifyAll(d) = [bell |-> rung, queue |-> <<>>, permit |-> d.permit]
  BY DEF NotifyAll
<1>. HIDE DEF rung
<1>. QED
  BY <1>1, <1>2, SMT DEF Bell

\* Enrolling a waiter leaves the bell well formed.
LEMMA EnrolType == ASSUME NEW d \in Bell, NEW c \in Client PROVE Enrol(d, c) \in Bell
  BY SMT DEF Enrol, Bell, Notified

\* A waiter that gives up leaves the bell well formed.
LEMMA DropType == ASSUME NEW d \in Bell, NEW c \in Client PROVE Drop(d, c) \in Bell
<1>. DEFINE gone == [bell |-> [d.bell EXCEPT ![c] = "none"], queue |-> Without(d.queue, c), permit |-> d.permit]
<1>1. Without(d.queue, c) \in Seq(Client)
  BY WithoutType DEF Bell
<1>2. gone \in Bell
  BY <1>1 DEF Bell, Notified
<1>3. Drop(d, c) \in {gone, NotifyOne(gone)}
  BY DEF Drop
<1>. HIDE DEF gone
<1>. QED
  BY <1>2, <1>3, NotifyOneType

\* The variables of the bell make a bell.
LEMMA DoorbellIsBell == TypeOK => Doorbell \in Bell
  BY DEF TypeOK, Doorbell, Bell

\* Storing a bell stores well-formed variables.
LEMMA SetDoorbellType ==
  ASSUME NEW d \in Bell, SetDoorbell(d)
  PROVE  bell' \in [Client -> Notified] /\ queue' \in Seq(Client) /\ permit' \in BOOLEAN
  BY DEF SetDoorbell, Bell

-----------------------------------------------------------------------------
(* Type correctness.                                                       *)

\* Every action keeps the types.  That what a client gives back is a
\* connection is not a matter of types: it is that the pool accounts for it.
LEMMA NextKeepsTypes == TypeOK /\ SlotsAccountedFor /\ [Next]_vars => TypeOK'
<1>. SUFFICES ASSUME TypeOK, SlotsAccountedFor, [Next]_vars PROVE TypeOK'
  OBVIOUS
<1>. USE PoolAssumption DEF pool, clients, doorbell, set, Goto, Place
<1>1. ASSUME NEW c \in Client,
             \/ Arrive(c) \/ Reserve(c) \/ MustWait(c) \/ Park(c) \/ OpenFails(c)
      PROVE  TypeOK'
  BY <1>1, SMT DEF TypeOK, Arrive, Reserve, MustWait, Park, OpenFails, Less
<1>3. ASSUME NEW c \in Client, Register(c) PROVE TypeOK'
  <2>1. Enrol(Doorbell, c) \in Bell
    BY DoorbellIsBell, EnrolType
  <2>2. bell' \in [Client -> Notified] /\ queue' \in Seq(Client) /\ permit' \in BOOLEAN
    BY <1>3, <2>1, SetDoorbellType DEF Register
  <2>. QED  BY <1>3, <2>2 DEF TypeOK, Register
<1>4. ASSUME NEW c \in Client, Reuse(c) \/ GiveUpAtOnce(c) \/ StopWaiting(c) \/ Opened(c) PROVE TypeOK'
  <2>1. Drop(Doorbell, c) \in Bell
    BY DoorbellIsBell, DropType
  <2>2. SetDoorbell(Drop(Doorbell, c))
    BY <1>4 DEF Reuse, GiveUpAtOnce, StopWaiting, Opened
  <2>3. bell' \in [Client -> Notified] /\ queue' \in Seq(Client) /\ permit' \in BOOLEAN
    BY <2>1, <2>2, SetDoorbellType
  <2>4. CASE Reuse(c)
    BY <2>3, <2>4 DEF TypeOK, Reuse
  <2>5. CASE GiveUpAtOnce(c)
    BY <2>3, <2>5 DEF TypeOK, GiveUpAtOnce
  <2>6. CASE StopWaiting(c)
    BY <2>3, <2>6, SMT DEF TypeOK, StopWaiting, Less
  <2>7. CASE Opened(c)
    BY <2>3, <2>7, SMT DEF TypeOK, Opened, Less
  <2>. QED  BY <1>4, <2>4, <2>5, <2>6, <2>7
<1>5. ASSUME NEW c \in Client, Wake(c) PROVE TypeOK'
  BY <1>5, SMT DEF TypeOK, Wake, Less, Notified
<1>6. ASSUME NEW c \in Client, Ring(c) PROVE TypeOK'
  <2>1. Drop(NotifyOne(Doorbell), c) \in Bell
    BY DoorbellIsBell, NotifyOneType, DropType
  <2>2. bell' \in [Client -> Notified] /\ queue' \in Seq(Client) /\ permit' \in BOOLEAN
    BY <1>6, <2>1, SetDoorbellType DEF Ring
  <2>. QED  BY <1>6, <2>2 DEF TypeOK, Ring
<1>7. ASSUME NEW c \in Client, NEW clean \in BOOLEAN, Release(c, clean) PROVE TypeOK'
  <2>1. conn[c] \in checkedOut
    BY <1>7 DEF Release, SlotsAccountedFor, At
  <2>2. conn[c] \in Conn
    BY <2>1 DEF TypeOK
  <2>. QED  BY <1>7, <2>2 DEF TypeOK, Release
<1>8. ASSUME NEW l \in Limits, SetLimit(l) PROVE TypeOK'
  BY <1>8, SMT DEF TypeOK, SetLimit
<1>9. ASSUME RingForLimit PROVE TypeOK'
  <2>1. NotifyAll(Doorbell) \in Bell
    BY DoorbellIsBell, NotifyAllType
  <2>2. bell' \in [Client -> Notified] /\ queue' \in Seq(Client) /\ permit' \in BOOLEAN
    BY <1>9, <2>1, SetDoorbellType DEF RingForLimit
  <2>. QED  BY <1>9, <2>2 DEF TypeOK, RingForLimit
<1>10. ASSUME NEW old \in SUBSET idle, NEW stale \in SUBSET checkedOut, ReapIdle(old, stale) PROVE TypeOK'
  BY <1>10, SMT DEF TypeOK, ReapIdle
<1>11. ASSUME ForgetDoorbell PROVE TypeOK'
  BY <1>11 DEF TypeOK, ForgetDoorbell
<1>12. CASE UNCHANGED vars
  BY <1>12 DEF TypeOK, vars
<1>. QED
  BY <1>1, <1>3, <1>4, <1>5, <1>6, <1>7, <1>8, <1>9, <1>10, <1>11, <1>12 DEF Next

-----------------------------------------------------------------------------
(* What the pool counts is there.                                          *)

\* A client that moves leaves one place and enters another.
LEMMA GotoMoves ==
  ASSUME TypeOK, NEW c \in Client, NEW to, Goto(c, to), NEW p
  PROVE  At(p)' = IF p = to THEN At(p) \cup {c} ELSE At(p) \ {c}
  BY DEF TypeOK, Goto, At

\* The clients at one place can be counted.
LEMMA AtFinite == ASSUME NEW p PROVE IsFiniteSet(At(p)) /\ Cardinality(At(p)) \in Nat
<1>1. At(p) \in SUBSET Client
  BY DEF At
<1>. QED
  BY <1>1, PoolAssumption, FS_Subset, FS_CardinalityType

\* A client that goes from elsewhere to elsewhere is not counted at p; one
\* that comes to p adds one, one that leaves p takes one away.
LEMMA GotoCounts ==
  ASSUME TypeOK, NEW c \in Client, NEW to, Goto(c, to), NEW p
  PROVE  /\ p # to /\ p # pc[c] => At(p)' = At(p)
         /\ p = to /\ p # pc[c] => Cardinality(At(p)') = Cardinality(At(p)) + 1
         /\ p # to /\ p = pc[c] => /\ Cardinality(At(p)') = Cardinality(At(p)) - 1
                                   /\ Cardinality(At(p)) > 0
<1>1. At(p)' = IF p = to THEN At(p) \cup {c} ELSE At(p) \ {c}
  BY GotoMoves
<1>2. c \in At(p) <=> pc[c] = p
  BY DEF At
<1>3. IsFiniteSet(At(p)) /\ Cardinality(At(p)) \in Nat
  BY AtFinite
<1>4. p = to /\ p # pc[c] => Cardinality(At(p)') = Cardinality(At(p)) + 1
  <2>. SUFFICES ASSUME p = to, p # pc[c] PROVE Cardinality(At(p)') = Cardinality(At(p)) + 1
    OBVIOUS
  <2>1. At(p)' = At(p) \cup {c} /\ c \notin At(p)
    BY <1>1, <1>2
  <2>. QED  BY <1>3, <2>1, FS_AddElement
<1>5. p # to /\ p = pc[c] => Cardinality(At(p)') = Cardinality(At(p)) - 1 /\ Cardinality(At(p)) > 0
  <2>. SUFFICES ASSUME p # to, p = pc[c]
                PROVE  Cardinality(At(p)') = Cardinality(At(p)) - 1 /\ Cardinality(At(p)) > 0
    OBVIOUS
  <2>1. At(p)' = At(p) \ {c} /\ c \in At(p)
    BY <1>1, <1>2
  <2>2. Cardinality(At(p)) # 0
    BY <1>3, <2>1, FS_EmptySet
  <2>3. Cardinality(At(p) \ {c}) = Cardinality(At(p)) - 1
    BY <1>3, <2>1, FS_RemoveElement
  <2>4. Cardinality(At(p)) > 0
    BY <1>3, <2>2, SMT
  <2>. QED  BY <2>1, <2>3, <2>4
<1>6. p # to /\ p # pc[c] => At(p)' = At(p)
  BY <1>1, <1>2
<1>. QED
  BY <1>4, <1>5, <1>6

\* The three parts of SlotsAccountedFor, each with what it is about.
OpeningCounted == opening = Cardinality(At("opening"))

WaitingCounted == waiting = Cardinality(At("parked"))

HoldingCounted ==
  /\ checkedOut = {conn[c] : c \in At("using")}
  /\ idle \cap checkedOut = {}
  /\ \A c, d \in At("using") : conn[c] = conn[d] => c = d

\* The account of the slots, part by part.
LEMMA PartsOfAccount == SlotsAccountedFor <=> OpeningCounted /\ WaitingCounted /\ HoldingCounted
  BY DEF SlotsAccountedFor, OpeningCounted, WaitingCounted, HoldingCounted

\* Reserved slots are callers inside `open`: SlotGuard gives each one back once.
LEMMA NextKeepsOpeningCounted == TypeOK /\ OpeningCounted /\ [Next]_vars => OpeningCounted'
<1>. SUFFICES ASSUME TypeOK, OpeningCounted, [Next]_vars PROVE opening' = Cardinality(At("opening")')
  BY DEF OpeningCounted
<1>0. opening = Cardinality(At("opening")) /\ Cardinality(At("opening")) \in Nat
  BY AtFinite DEF OpeningCounted
<1>. USE DEF pool, clients, doorbell, set
<1>1. ASSUME NEW c \in Client, NEW to, Goto(c, to), to # "opening", pc[c] # "opening", opening' = opening
      PROVE  opening' = Cardinality(At("opening")')
  BY <1>0, <1>1, GotoCounts
<1>2. ASSUME NEW c \in Client,
             \/ Arrive(c) \/ Register(c) \/ Reuse(c) \/ MustWait(c) \/ GiveUpAtOnce(c) \/ Park(c)
             \/ Wake(c) \/ StopWaiting(c) \/ Ring(c) \/ \E clean \in BOOLEAN : Release(c, clean)
      PROVE  opening' = Cardinality(At("opening")')
  BY <1>1, <1>2 DEF Arrive, Register, Reuse, MustWait, GiveUpAtOnce, Park, Wake, StopWaiting, Ring, Release
<1>3. ASSUME NEW c \in Client, Reserve(c) PROVE opening' = Cardinality(At("opening")')
  <2>1. Goto(c, "opening") /\ pc[c] = "check" /\ opening' = opening + 1
    BY <1>3 DEF Reserve
  <2>2. Cardinality(At("opening")') = Cardinality(At("opening")) + 1
    BY <2>1, GotoCounts
  <2>. QED  BY <1>0, <2>1, <2>2
<1>4. ASSUME NEW c \in Client, Opened(c) \/ OpenFails(c) PROVE opening' = Cardinality(At("opening")')
  <2>1. PICK to \in {"using", "ringing"} : Goto(c, to)
    BY <1>4 DEF Opened, OpenFails
  <2>2. pc[c] = "opening" /\ opening' = Less(opening)
    BY <1>4 DEF Opened, OpenFails
  <2>3. Cardinality(At("opening")') = Cardinality(At("opening")) - 1 /\ Cardinality(At("opening")) > 0
    BY <2>1, <2>2, GotoCounts
  <2>. QED  BY <1>0, <2>2, <2>3, SMT DEF Less
<1>5. ASSUME UNCHANGED <<opening, pc>> PROVE opening' = Cardinality(At("opening")')
  BY <1>0, <1>5 DEF At
<1>. QED
  BY <1>2, <1>3, <1>4, <1>5
     DEF Next, vars, SetLimit, RingForLimit, ReapIdle, ForgetDoorbell

\* Waiters counted are callers parked: WaitGuard counts each out once.
LEMMA NextKeepsWaitingCounted == TypeOK /\ WaitingCounted /\ [Next]_vars => WaitingCounted'
<1>. SUFFICES ASSUME TypeOK, WaitingCounted, [Next]_vars PROVE waiting' = Cardinality(At("parked")')
  BY DEF WaitingCounted
<1>0. waiting = Cardinality(At("parked")) /\ Cardinality(At("parked")) \in Nat
  BY AtFinite DEF WaitingCounted
<1>. USE DEF pool, clients, doorbell, set
<1>1. ASSUME NEW c \in Client, NEW to, Goto(c, to), to # "parked", pc[c] # "parked", waiting' = waiting
      PROVE  waiting' = Cardinality(At("parked")')
  BY <1>0, <1>1, GotoCounts
<1>2. ASSUME NEW c \in Client,
             \/ Arrive(c) \/ Register(c) \/ Reuse(c) \/ Reserve(c) \/ MustWait(c) \/ GiveUpAtOnce(c)
             \/ Opened(c) \/ OpenFails(c) \/ Ring(c) \/ \E clean \in BOOLEAN : Release(c, clean)
      PROVE  waiting' = Cardinality(At("parked")')
  BY <1>1, <1>2 DEF Arrive, Register, Reuse, Reserve, MustWait, GiveUpAtOnce, Opened, OpenFails, Ring, Release
<1>3. ASSUME NEW c \in Client, Park(c) PROVE waiting' = Cardinality(At("parked")')
  <2>1. Goto(c, "parked") /\ pc[c] = "told" /\ waiting' = waiting + 1
    BY <1>3 DEF Park
  <2>2. Cardinality(At("parked")') = Cardinality(At("parked")) + 1
    BY <2>1, GotoCounts
  <2>. QED  BY <1>0, <2>1, <2>2
<1>4. ASSUME NEW c \in Client, Wake(c) \/ StopWaiting(c) PROVE waiting' = Cardinality(At("parked")')
  <2>1. PICK to \in {"enrol", "away"} : Goto(c, to)
    BY <1>4 DEF Wake, StopWaiting
  <2>2. pc[c] = "parked" /\ waiting' = Less(waiting)
    BY <1>4 DEF Wake, StopWaiting
  <2>3. Cardinality(At("parked")') = Cardinality(At("parked")) - 1 /\ Cardinality(At("parked")) > 0
    BY <2>1, <2>2, GotoCounts
  <2>. QED  BY <1>0, <2>2, <2>3, SMT DEF Less
<1>5. ASSUME UNCHANGED <<waiting, pc>> PROVE waiting' = Cardinality(At("parked")')
  BY <1>0, <1>5 DEF At
<1>. QED
  BY <1>2, <1>3, <1>4, <1>5
     DEF Next, vars, SetLimit, RingForLimit, ReapIdle, ForgetDoorbell

\* Connections checked out are the ones clients hold, one each, and an idle
\* connection is held by nobody.
LEMMA NextKeepsHoldingCounted == TypeOK /\ HoldingCounted /\ [Next]_vars => HoldingCounted'
<1>. SUFFICES ASSUME TypeOK, HoldingCounted, [Next]_vars PROVE HoldingCounted'
  OBVIOUS
<1>. USE DEF pool, clients, doorbell, set
<1>1. ASSUME At("using")' = At("using"), UNCHANGED <<checkedOut, conn>>, idle' \subseteq idle
      PROVE  HoldingCounted'
  BY <1>1 DEF HoldingCounted
<1>2. ASSUME NEW c \in Client,
             \/ Arrive(c) \/ Register(c) \/ Reserve(c) \/ MustWait(c) \/ GiveUpAtOnce(c) \/ Park(c)
             \/ Wake(c) \/ StopWaiting(c) \/ OpenFails(c) \/ Ring(c)
      PROVE  HoldingCounted'
  <2>1. PICK to \in Place \ {"using"} : Goto(c, to)
    BY <1>2 DEF Arrive, Register, Reserve, MustWait, GiveUpAtOnce, Park, Wake, StopWaiting, OpenFails, Ring, Place
  <2>2. pc[c] # "using" /\ UNCHANGED <<idle, checkedOut, conn>>
    BY <1>2 DEF Arrive, Register, Reserve, MustWait, GiveUpAtOnce, Park, Wake, StopWaiting, OpenFails, Ring
  <2>3. At("using")' = At("using")
    BY <2>1, <2>2, GotoCounts
  <2>. QED  BY <1>1, <2>2, <2>3
<1>3. ASSUME NEW c \in Client, NEW k \in Conn, pc[c] # "using", Goto(c, "using"),
             k \notin checkedOut, checkedOut' = checkedOut \cup {k}, idle' = idle \ {k},
             conn' = [conn EXCEPT ![c] = k]
      PROVE  HoldingCounted'
  <2>1. At("using")' = At("using") \cup {c} /\ c \notin At("using")
    BY <1>3, GotoMoves DEF At
  <2>2. conn'[c] = k /\ \A d \in At("using") : conn'[d] = conn[d]
    BY <1>3, <2>1 DEF TypeOK, At
  <2>3. checkedOut' = {conn'[d] : d \in At("using")'}
    BY <1>3, <2>1, <2>2, SMT DEF HoldingCounted
  <2>4. \A d \in At("using") : conn[d] # k
    BY <1>3 DEF HoldingCounted
  <2>5. \A d, e \in At("using")' : conn'[d] = conn'[e] => d = e
    BY <2>1, <2>2, <2>4 DEF HoldingCounted
  <2>6. idle' \cap checkedOut' = {}
    BY <1>3 DEF HoldingCounted
  <2>. QED  BY <2>3, <2>5, <2>6 DEF HoldingCounted
<1>4. ASSUME NEW c \in Client, Reuse(c) PROVE HoldingCounted'
  <2>1. PICK k \in idle : /\ idle' = idle \ {k} /\ checkedOut' = checkedOut \cup {k}
                          /\ conn' = [conn EXCEPT ![c] = k]
    BY <1>4 DEF Reuse
  <2>2. k \in Conn /\ k \notin checkedOut
    BY DEF TypeOK, HoldingCounted
  <2>. QED  BY <1>3, <1>4, <2>1, <2>2 DEF Reuse
<1>5. ASSUME NEW c \in Client, Opened(c) PROVE HoldingCounted'
  <2>1. PICK k \in Conn \ (idle \cup checkedOut) :
           checkedOut' = checkedOut \cup {k} /\ conn' = [conn EXCEPT ![c] = k]
    BY <1>5 DEF Opened
  <2>2. idle' = idle \ {k}
    BY <1>5, <2>1 DEF Opened
  <2>. QED  BY <1>3, <1>5, <2>1, <2>2 DEF Opened
<1>6. ASSUME NEW c \in Client, NEW clean \in BOOLEAN, Release(c, clean) PROVE HoldingCounted'
  <2>1. /\ pc[c] = "using" /\ Goto(c, "ringing") /\ checkedOut' = checkedOut \ {conn[c]}
        /\ idle' \subseteq idle \cup {conn[c]} /\ conn' = [conn EXCEPT ![c] = NoConn]
    BY <1>6 DEF Release
  <2>2. At("using")' = At("using") \ {c} /\ c \in At("using")
    BY <2>1, GotoMoves, SMT DEF At
  <2>3. \A d \in At("using") \ {c} : conn'[d] = conn[d] /\ conn[d] # conn[c]
    BY <2>1, <2>2 DEF TypeOK, HoldingCounted, At
  <2>4. checkedOut' = {conn'[d] : d \in At("using")'}
    <3>1. ASSUME NEW k \in checkedOut' PROVE k \in {conn'[d] : d \in At("using")'}
      <4>1. PICK d \in At("using") : k = conn[d]
        BY <2>1, <3>1 DEF HoldingCounted
      <4>2. d # c
        BY <2>1, <3>1, <4>1
      <4>. QED  BY <2>2, <2>3, <4>1, <4>2
    <3>2. ASSUME NEW d \in At("using")' PROVE conn'[d] \in checkedOut'
      BY <2>1, <2>2, <2>3, SMT DEF HoldingCounted
    <3>. QED  BY <3>1, <3>2
  <2>5. \A d, e \in At("using")' : conn'[d] = conn'[e] => d = e
    BY <2>2, <2>3 DEF HoldingCounted
  <2>6. idle' \cap checkedOut' = {}
    BY <2>1 DEF HoldingCounted
  <2>. QED  BY <2>4, <2>5, <2>6 DEF HoldingCounted
<1>7. ASSUME UNCHANGED <<pc, conn, checkedOut>>, idle' \subseteq idle PROVE HoldingCounted'
  BY <1>1, <1>7 DEF At
<1>8. ASSUME \/ \E l \in Limits : SetLimit(l)
             \/ RingForLimit \/ ForgetDoorbell
             \/ \E old \in SUBSET idle, stale \in SUBSET checkedOut : ReapIdle(old, stale)
             \/ UNCHANGED vars
      PROVE  HoldingCounted'
  BY <1>7, <1>8 DEF SetLimit, RingForLimit, ForgetDoorbell, ReapIdle, vars
<1>. QED
  BY <1>2, <1>4, <1>5, <1>6, <1>8 DEF Next

\* The inductive invariant: types alone are not inductive, the account is.
Accounted == TypeOK /\ SlotsAccountedFor

\* An idle pool is accounted for.
LEMMA InitAccounted == Init => Accounted
<1>. SUFFICES ASSUME Init PROVE Accounted
  OBVIOUS
<1>1. TypeOK
  <2>1. permit \in BOOLEAN /\ limitMoved \in BOOLEAN
    BY Zenon DEF Init
  <2>2. queue \in Seq(Client)
    BY SMT DEF Init
  <2>3. limit \in 0..MaxSize /\ allowance \in 0..MaxSize /\ opening \in Nat /\ waiting \in Nat
    BY PoolAssumption, SMT DEF Init
  <2>4. pc \in [Client -> Place] /\ conn \in [Client -> Conn \cup {NoConn}] /\ bell \in [Client -> Notified]
    BY DEF Init, Place, Notified
  <2>5. idle \subseteq Conn /\ checkedOut \subseteq Conn /\ expired \subseteq Conn
    BY DEF Init
  <2>. QED  BY <2>1, <2>2, <2>3, <2>4, <2>5 DEF TypeOK
<1>2. At("opening") = {} /\ At("parked") = {} /\ At("using") = {}
  BY DEF Init, At
<1>. QED
  BY <1>1, <1>2, FS_EmptySet DEF Init, Accounted, SlotsAccountedFor

\* Every step keeps the account.
LEMMA NextKeepsAccounted == Accounted /\ [Next]_vars => Accounted'
<1>. SUFFICES ASSUME Accounted, [Next]_vars PROVE Accounted'
  OBVIOUS
<1>1. TypeOK /\ SlotsAccountedFor /\ OpeningCounted /\ WaitingCounted /\ HoldingCounted
  BY PartsOfAccount DEF Accounted
<1>2. TypeOK' /\ OpeningCounted' /\ WaitingCounted' /\ HoldingCounted'
  BY <1>1, NextKeepsTypes, NextKeepsOpeningCounted, NextKeepsWaitingCounted, NextKeepsHoldingCounted
<1>3. SlotsAccountedFor'
  BY <1>2 DEF SlotsAccountedFor, OpeningCounted, WaitingCounted, HoldingCounted
<1>. QED
  BY <1>2, <1>3 DEF Accounted

\* Types hold in every state of every run.
THEOREM PoolTypeCorrect == Spec => []TypeOK
<1>1. Accounted => TypeOK
  BY DEF Accounted
<1>. QED
  BY <1>1, InitAccounted, NextKeepsAccounted, PTL DEF Spec

\* No slot leaks, no waiter is counted twice or after it left, and no
\* connection is held by two clients or both held and idle: whatever is
\* cancelled, fails, is reaped or forgotten, for any number of clients.
THEOREM EverySlotAccountedFor == Spec => []SlotsAccountedFor
<1>1. Accounted => SlotsAccountedFor
  BY DEF Accounted
<1>. QED
  BY <1>1, InitAccounted, NextKeepsAccounted, PTL DEF Spec

-----------------------------------------------------------------------------
(* The pool's size.                                                        *)

\* Any set of connections can be counted.
LEMMA SizesFinite ==
  ASSUME NEW S \in SUBSET Conn
  PROVE  IsFiniteSet(S) /\ Cardinality(S) \in Nat
  BY PoolAssumption, FS_Subset, FS_CardinalityType

\* What the pool's counts are in a state it accounts for.
LEMMA CountsAreNumbers ==
  ASSUME Accounted
  PROVE  /\ limit \in 0..MaxSize /\ allowance \in 0..MaxSize /\ MaxSize \in Nat /\ opening \in Nat
         /\ IsFiniteSet(idle) /\ Cardinality(idle) \in Nat
         /\ IsFiniteSet(checkedOut) /\ Cardinality(checkedOut) \in Nat
<1>1. /\ limit \in 0..MaxSize /\ allowance \in 0..MaxSize /\ MaxSize \in Nat /\ opening \in Nat
      /\ idle \in SUBSET Conn /\ checkedOut \in SUBSET Conn
  BY PoolAssumption DEF Accounted, TypeOK
<1>. QED
  BY <1>1, SizesFinite

\* `acquire` that answers Reused moves one connection.
LEMMA ReuseCounts ==
  ASSUME Accounted, NEW c \in Client, Reuse(c)
  PROVE  /\ Cardinality(idle') = Cardinality(idle) - 1
         /\ Cardinality(checkedOut') = Cardinality(checkedOut) + 1
         /\ opening' = opening
<1>1. PICK k \in idle : idle' = idle \ {k} /\ checkedOut' = checkedOut \cup {k}
  BY DEF Reuse
<1>2. k \notin checkedOut
  BY DEF Accounted, SlotsAccountedFor
<1>3. Cardinality(idle') = Cardinality(idle) - 1
  BY <1>1, CountsAreNumbers, FS_RemoveElement
<1>4. Cardinality(checkedOut') = Cardinality(checkedOut) + 1
  BY <1>1, <1>2, CountsAreNumbers, FS_AddElement
<1>. QED
  BY <1>3, <1>4 DEF Reuse

\* Whoever is connecting has a slot.
LEMMA OpenerHasSlot == ASSUME Accounted, NEW c \in Client, pc[c] = "opening" PROVE opening > 0
<1>1. c \in At("opening") /\ opening = Cardinality(At("opening"))
  BY DEF At, Accounted, SlotsAccountedFor
<1>2. opening # 0 /\ opening \in Nat
  BY <1>1, AtFinite, FS_EmptySet
<1>. QED
  BY <1>2, SMT

\* A connect that succeeds turns a slot into a connection.
LEMMA OpenedCounts ==
  ASSUME Accounted, NEW c \in Client, Opened(c)
  PROVE  /\ Cardinality(checkedOut') = Cardinality(checkedOut) + 1
         /\ opening' = opening - 1 /\ idle' = idle
<1>1. PICK k \in Conn \ (idle \cup checkedOut) : checkedOut' = checkedOut \cup {k}
  BY DEF Opened
<1>2. Cardinality(checkedOut') = Cardinality(checkedOut) + 1
  BY <1>1, CountsAreNumbers, FS_AddElement
<1>3. pc[c] = "opening" /\ opening' = Less(opening) /\ idle' = idle
  BY DEF Opened
<1>. QED
  BY <1>2, <1>3, OpenerHasSlot, SMT DEF Less

\* One that fails gives the slot back.
LEMMA OpenFailsCounts ==
  ASSUME Accounted, NEW c \in Client, OpenFails(c)
  PROVE  opening' = opening - 1 /\ idle' = idle /\ checkedOut' = checkedOut
<1>1. pc[c] = "opening" /\ opening' = Less(opening) /\ idle' = idle /\ checkedOut' = checkedOut
  BY DEF OpenFails
<1>. QED
  BY <1>1, OpenerHasSlot, SMT DEF Less

\* A release takes one connection from those held, and keeps it only while
\* the pool retains less than its limit.
LEMMA ReleaseCounts ==
  ASSUME Accounted, NEW c \in Client, NEW clean \in BOOLEAN, Release(c, clean)
  PROVE  /\ Cardinality(checkedOut') = Cardinality(checkedOut) - 1
         /\ opening' = opening
         /\ \/ Cardinality(idle') = Cardinality(idle)
            \/ Cardinality(idle') = Cardinality(idle) + 1 /\ Retained < limit
<1>1. conn[c] \in checkedOut /\ conn[c] \notin idle
  BY DEF Release, Accounted, SlotsAccountedFor, At
<1>2. checkedOut' = checkedOut \ {conn[c]} /\ opening' = opening
  BY DEF Release
<1>3. idle' = idle \/ (idle' = idle \cup {conn[c]} /\ Retained < limit)
  BY DEF Release
<1>4. Cardinality(checkedOut') = Cardinality(checkedOut) - 1
  BY <1>1, <1>2, CountsAreNumbers, FS_RemoveElement
<1>5. Cardinality(idle \cup {conn[c]}) = Cardinality(idle) + 1
  BY <1>1, CountsAreNumbers, FS_AddElement
<1>. QED
  BY <1>2, <1>3, <1>4, <1>5

\* The reaper only takes idle connections away.
LEMMA ReapCounts ==
  ASSUME Accounted, NEW old \in SUBSET idle, NEW stale \in SUBSET checkedOut, ReapIdle(old, stale)
  PROVE  /\ Cardinality(idle') <= Cardinality(idle) /\ Cardinality(idle') \in Nat
         /\ UNCHANGED <<checkedOut, opening>>
<1>1. idle' \in SUBSET idle /\ UNCHANGED <<checkedOut, opening>>
  BY DEF ReapIdle
<1>. QED
  BY <1>1, CountsAreNumbers, FS_Subset, FS_CardinalityType

\* Only `acquire` adds to the total, and it reserves below the limit.
LEMMA NextKeepsSize == Accounted /\ NeverAboveMaxSize /\ [Next]_vars => NeverAboveMaxSize'
<1>. SUFFICES ASSUME Accounted, NeverAboveMaxSize, [Next]_vars PROVE Total' <= MaxSize
  BY DEF NeverAboveMaxSize
<1>1. /\ limit \in 0..MaxSize /\ MaxSize \in Nat /\ opening \in Nat
      /\ Cardinality(idle) \in Nat /\ Cardinality(checkedOut) \in Nat
  BY CountsAreNumbers
<1>2. Cardinality(idle) + Cardinality(checkedOut) + opening <= MaxSize
  BY DEF NeverAboveMaxSize, Total
<1>3. Total' = Cardinality(idle') + Cardinality(checkedOut') + opening'
  BY DEF Total
<1>4. ASSUME UNCHANGED <<idle, checkedOut, opening>> PROVE Total' <= MaxSize
  BY <1>2, <1>3, <1>4
<1>5. ASSUME NEW c \in Client,
             \/ Arrive(c) \/ Register(c) \/ MustWait(c) \/ GiveUpAtOnce(c) \/ Park(c)
             \/ Wake(c) \/ StopWaiting(c) \/ Ring(c)
      PROVE  Total' <= MaxSize
  BY <1>4, <1>5 DEF Arrive, Register, MustWait, GiveUpAtOnce, Park, Wake, StopWaiting, Ring, pool
<1>6. ASSUME NEW c \in Client, Reuse(c) PROVE Total' <= MaxSize
  BY <1>1, <1>2, <1>3, <1>6, ReuseCounts, SMT
<1>7. ASSUME NEW c \in Client, Reserve(c) PROVE Total' <= MaxSize
  <2>1. Total < limit /\ opening' = opening + 1 /\ UNCHANGED <<idle, checkedOut>>
    BY <1>7 DEF Reserve
  <2>. QED  BY <1>1, <1>3, <2>1, SMT DEF Total
<1>8. ASSUME NEW c \in Client, Opened(c) PROVE Total' <= MaxSize
  BY <1>1, <1>2, <1>3, <1>8, OpenedCounts, SMT
<1>9. ASSUME NEW c \in Client, OpenFails(c) PROVE Total' <= MaxSize
  BY <1>1, <1>2, <1>3, <1>9, OpenFailsCounts, SMTT(30)
<1>10. ASSUME NEW c \in Client, NEW clean \in BOOLEAN, Release(c, clean) PROVE Total' <= MaxSize
  BY <1>1, <1>2, <1>3, <1>10, ReleaseCounts, SMT
<1>11. ASSUME NEW old \in SUBSET idle, NEW stale \in SUBSET checkedOut, ReapIdle(old, stale)
       PROVE  Total' <= MaxSize
  BY <1>1, <1>2, <1>3, <1>11, ReapCounts, SMTT(30)
<1>12. ASSUME \/ \E l \in Limits : SetLimit(l)
              \/ RingForLimit \/ ForgetDoorbell \/ UNCHANGED vars
       PROVE  Total' <= MaxSize
  BY <1>4, <1>12 DEF SetLimit, RingForLimit, ForgetDoorbell, vars, pool
<1>. QED
  BY <1>5, <1>6, <1>7, <1>8, <1>9, <1>10, <1>11, <1>12 DEF Next

\* Over its limit the pool opens nothing, and a release keeps nothing that
\* would put what it retains over.
LEMMA NextOnlyShrinks ==
  ASSUME Accounted, [Next]_vars, limit' = limit
  PROVE  /\ Total > limit => Total' <= Total
         /\ Cardinality(idle') > Cardinality(idle) => Retained' <= limit
<1>. DEFINE Goal == /\ Total > limit => Total' <= Total
                    /\ Cardinality(idle') > Cardinality(idle) => Retained' <= limit
<1>1. /\ limit \in Nat /\ opening \in Nat
      /\ Cardinality(idle) \in Nat /\ Cardinality(checkedOut) \in Nat
  BY CountsAreNumbers, SMT
<1>2. /\ Total' = Cardinality(idle') + Cardinality(checkedOut') + opening'
      /\ Total = Cardinality(idle) + Cardinality(checkedOut) + opening
      /\ Retained' = Cardinality(idle') + opening' /\ Retained = Cardinality(idle) + opening
  BY DEF Total, Retained
<1>4. ASSUME UNCHANGED <<idle, checkedOut, opening>> PROVE Goal
  BY <1>1, <1>2, <1>4, SMT
<1>5. ASSUME NEW c \in Client,
             \/ Arrive(c) \/ Register(c) \/ MustWait(c) \/ GiveUpAtOnce(c) \/ Park(c)
             \/ Wake(c) \/ StopWaiting(c) \/ Ring(c)
      PROVE  Goal
  <2>1. UNCHANGED <<idle, checkedOut, opening>>
    BY <1>5 DEF Arrive, Register, MustWait, GiveUpAtOnce, Park, Wake, StopWaiting, Ring, pool
  <2>. QED  BY <1>4, <2>1
<1>6. ASSUME NEW c \in Client, Reuse(c) PROVE Goal
  BY <1>1, <1>2, <1>6, ReuseCounts, SMT
<1>7. ASSUME NEW c \in Client, Reserve(c) PROVE Goal
  <2>1. Total < limit /\ UNCHANGED idle
    BY <1>7 DEF Reserve
  <2>. QED  BY <1>1, <1>2, <2>1, SMT
<1>8. ASSUME NEW c \in Client, Opened(c) PROVE Goal
  BY <1>1, <1>2, <1>8, OpenedCounts, SMT
<1>9. ASSUME NEW c \in Client, OpenFails(c) PROVE Goal
  BY <1>1, <1>2, <1>9, OpenFailsCounts, SMTT(30)
<1>10. ASSUME NEW c \in Client, NEW clean \in BOOLEAN, Release(c, clean) PROVE Goal
  BY <1>1, <1>2, <1>10, ReleaseCounts, SMT
<1>11. ASSUME NEW old \in SUBSET idle, NEW stale \in SUBSET checkedOut, ReapIdle(old, stale) PROVE Goal
  BY <1>1, <1>2, <1>11, ReapCounts, SMTT(30)
<1>12. ASSUME \/ \E l \in Limits : SetLimit(l)
              \/ RingForLimit \/ ForgetDoorbell \/ UNCHANGED vars
       PROVE  Goal
  <2>1. UNCHANGED <<idle, checkedOut, opening>>
    BY <1>12 DEF SetLimit, RingForLimit, ForgetDoorbell, vars, pool
  <2>. QED  BY <1>4, <2>1
<1>. QED
  BY <1>5, <1>6, <1>7, <1>8, <1>9, <1>10, <1>11, <1>12 DEF Next

\* However many clients it serves, a pool over its limit shrinks and never
\* grows, until `set_limit` moves the limit again.
THEOREM PoolOverLimitShrinks == Spec => OverLimitOnlyShrinks
<1>1. Accounted /\ [Next]_vars =>
        [limit' = limit => /\ Total > limit => Total' <= Total
                           /\ Cardinality(idle') > Cardinality(idle) => Retained' <= limit]_vars
  BY NextOnlyShrinks
<1>. QED
  BY <1>1, InitAccounted, NextKeepsAccounted, PTL DEF Spec, OverLimitOnlyShrinks

\* The pool never answers for more connections than `max_size`, however the
\* limit moves while connects are in flight.
THEOREM PoolNeverAboveMaxSize == Spec => []NeverAboveMaxSize
<1>1. Init => NeverAboveMaxSize
  <2>. SUFFICES ASSUME Init PROVE Cardinality(idle) + Cardinality(checkedOut) + opening <= MaxSize
    BY DEF NeverAboveMaxSize, Total
  <2>1. Cardinality(idle) = 0 /\ Cardinality(checkedOut) = 0 /\ opening = 0
    BY FS_EmptySet DEF Init
  <2>. QED  BY <2>1, PoolAssumption, SMT
<1>. QED
  BY <1>1, InitAccounted, NextKeepsAccounted, NextKeepsSize, PTL DEF Spec

-----------------------------------------------------------------------------
(* The line at the doorbell.                                               *)

\* Whoever is registered stands in the line, once.
Lined(d) ==
  /\ \A i, j \in 1..Len(d.queue) : d.queue[i] = d.queue[j] => i = j
  /\ \A c \in Client : d.bell[c] = "queued" <=> \E i \in 1..Len(d.queue) : d.queue[i] = c

\* The callers a `notify_one` has chosen and who have not acted on it.
Chosen(b) == {c \in Client : b[c] = "one"}

\* What dropping a Notified comes to before it hands anything on.
Gone(d, c) == [bell |-> [d.bell EXCEPT ![c] = "none"], queue |-> Without(d.queue, c), permit |-> d.permit]

\* Leaving the line is well formed.
LEMMA GoneType == ASSUME NEW d \in Bell, NEW c \in Client PROVE Gone(d, c) \in Bell
<1>1. Without(d.queue, c) \in Seq(Client)
  BY WithoutType DEF Bell
<1>. QED
  BY <1>1 DEF Bell, Notified, Gone

\* Taking an element out closes the gap and moves nothing else.
LEMMA WithoutAt ==
  ASSUME NEW q \in Seq(Client), NEW c, \E i \in 1..Len(q) : q[i] = c
  PROVE  \E at \in 1..Len(q) :
            /\ q[at] = c
            /\ Len(Without(q, c)) = Len(q) - 1
            /\ \A i \in 1..(Len(q) - 1) : Without(q, c)[i] = IF i < at THEN q[i] ELSE q[i + 1]
<1>. DEFINE at == CHOOSE i \in 1..Len(q) : q[i] = c
<1>1. at \in 1..Len(q) /\ q[at] = c
  OBVIOUS
<1>2. Without(q, c) = SubSeq(q, 1, at - 1) \o SubSeq(q, at + 1, Len(q))
  BY DEF Without
<1>. HIDE DEF at
<1>. DEFINE a == SubSeq(q, 1, at - 1)
            b == SubSeq(q, at + 1, Len(q))
<1>5. Len(q) \in Nat /\ \A i \in 1..Len(q) : q[i] \in Client
  BY SMT
<1>6. /\ a \in Seq(Client) /\ Len(a) = at - 1
      /\ \A i \in 1..(at - 1) : a[i] = q[i]
  <2>1. at - 1 \in Int /\ 1 \in Int /\ \A i \in 1..(at - 1) : q[i] \in Client
    BY <1>1, <1>5, SMT
  <2>2. /\ a \in Seq(Client) /\ Len(a) = IF 1 <= at - 1 THEN at - 1 - 1 + 1 ELSE 0
        /\ \A i \in 1..(at - 1 - 1 + 1) : a[i] = q[1 + i - 1]
    BY <2>1, SubSeqProperties, SMT
  <2>. HIDE DEF a
  <2>. QED  BY <1>1, <2>2, SMT
<1>7. /\ b \in Seq(Client) /\ Len(b) = Len(q) - at
      /\ \A i \in 1..(Len(q) - at) : b[i] = q[at + i]
  <2>1. at + 1 \in Int /\ Len(q) \in Int /\ \A i \in (at + 1)..Len(q) : q[i] \in Client
    BY <1>1, <1>5, SMT
  <2>2. /\ b \in Seq(Client) /\ Len(b) = IF at + 1 <= Len(q) THEN Len(q) - (at + 1) + 1 ELSE 0
        /\ \A i \in 1..(Len(q) - (at + 1) + 1) : b[i] = q[at + 1 + i - 1]
    BY <2>1, SubSeqProperties, SMT
  <2>. HIDE DEF b
  <2>3. /\ Len(q) - (at + 1) + 1 = Len(q) - at /\ (~(at + 1 <= Len(q)) => Len(q) - at = 0)
        /\ \A i \in 1..(Len(q) - at) : at + 1 + i - 1 = at + i
    BY <1>1, <1>5, SMT
  <2>. QED  BY <2>2, <2>3
<1>. HIDE DEF a, b
<1>8. /\ Len(a \o b) = Len(a) + Len(b)
      /\ \A i \in 1..(Len(a) + Len(b)) : (a \o b)[i] = IF i <= Len(a) THEN a[i] ELSE b[i - Len(a)]
  BY <1>6, <1>7, ConcatProperties
<1>. DEFINE r == Without(q, c)
<1>9. /\ Len(r) = Len(a) + Len(b)
      /\ \A i \in 1..(Len(a) + Len(b)) : r[i] = IF i <= Len(a) THEN a[i] ELSE b[i - Len(a)]
  BY <1>2, <1>8 DEF a, b
<1>. HIDE DEF r
<1>10. Len(a) + Len(b) = Len(q) - 1
  BY <1>1, <1>5, <1>6, <1>7, SMT
<1>3. Len(r) = Len(q) - 1
  BY <1>9, <1>10
<1>4. ASSUME NEW i \in 1..(Len(q) - 1) PROVE r[i] = IF i < at THEN q[i] ELSE q[i + 1]
  <2>1. r[i] = IF i <= at - 1 THEN a[i] ELSE b[i - (at - 1)]
    BY <1>6, <1>9, <1>10
  <2>2. CASE i < at
    <3>1. i \in 1..(at - 1) /\ i <= at - 1
      BY <2>2, <1>1, <1>5, SMT
    <3>. QED  BY <2>1, <2>2, <3>1, <1>6
  <2>3. CASE ~(i < at)
    <3>1. i - (at - 1) \in 1..(Len(q) - at) /\ ~(i <= at - 1) /\ at + (i - (at - 1)) = i + 1
      BY <2>3, <1>1, <1>5, SMT
    <3>2. b[i - (at - 1)] = q[at + (i - (at - 1))]
      BY <1>7, <3>1
    <3>. QED  BY <2>1, <2>3, <3>1, <3>2
  <2>. QED  BY <2>2, <2>3
<1>. QED
  BY <1>1, <1>3, <1>4 DEF r

\* Whoever leaves the line leaves it as it was for the others.
LEMMA GoneLined ==
  ASSUME NEW d \in Bell, Lined(d), NEW c \in Client
  PROVE  Lined(Gone(d, c))
<1>. DEFINE q == d.queue
            r == Without(q, c)
            b == [d.bell EXCEPT ![c] = "none"]
<1>1. Gone(d, c).queue = r /\ Gone(d, c).bell = b
  BY DEF Gone
<1>2. q \in Seq(Client) /\ d.bell \in [Client -> Notified]
  BY DEF Bell
<1>3. b[c] = "none" /\ \A e \in Client \ {c} : b[e] = d.bell[e]
  BY <1>2
<1>4. /\ \A i, j \in 1..Len(q) : q[i] = q[j] => i = j
      /\ \A e \in Client : d.bell[e] = "queued" <=> \E i \in 1..Len(q) : q[i] = e
  BY DEF Lined
<1>5. CASE \E i \in 1..Len(q) : q[i] = c
  <2>1. PICK at \in 1..Len(q) :
            /\ q[at] = c /\ Len(r) = Len(q) - 1
            /\ \A i \in 1..(Len(q) - 1) : r[i] = IF i < at THEN q[i] ELSE q[i + 1]
    BY <1>2, <1>5, WithoutAt
  <2>0. Len(q) \in Nat
    BY <1>2, SMT
  <2>. HIDE DEF q, r, b
  <2>2. \A i, j \in 1..Len(r) : r[i] = r[j] => i = j
    BY <1>4, <2>0, <2>1, SMT
  <2>3. \A i \in 1..Len(r) : r[i] # c
    BY <1>4, <2>0, <2>1, SMT
  <2>4. ASSUME NEW e \in Client \ {c} PROVE (\E i \in 1..Len(q) : q[i] = e) <=> (\E i \in 1..Len(r) : r[i] = e)
    <3>1. ASSUME NEW i \in 1..Len(q), q[i] = e PROVE \E j \in 1..Len(r) : r[j] = e
      <4>1. i # at
        BY <2>1, <3>1
      <4>2. CASE i < at
        <5>1. i \in 1..Len(r) /\ r[i] = e
          BY <2>0, <2>1, <3>1, <4>2, SMT
        <5>. QED  BY <5>1
      <4>3. CASE i > at
        <5>1. i - 1 \in 1..Len(r) /\ r[i - 1] = e
          BY <2>0, <2>1, <3>1, <4>3, SMT
        <5>. QED  BY <5>1
      <4>. QED  BY <2>0, <4>1, <4>2, <4>3, SMT
    <3>2. ASSUME NEW i \in 1..Len(r), r[i] = e PROVE \E j \in 1..Len(q) : q[j] = e
      <4>1. i \in 1..Len(q) /\ i + 1 \in 1..Len(q) /\ (q[i] = e \/ q[i + 1] = e)
        BY <2>0, <2>1, <3>2, SMT
      <4>. QED  BY <4>1
    <3>. QED  BY <3>1, <3>2
  <2>5. \A e \in Client : b[e] = "queued" <=> \E i \in 1..Len(r) : r[i] = e
    BY <1>3, <1>4, <2>3, <2>4
  <2>. QED  BY <1>1, <2>2, <2>5 DEF Lined
<1>6. CASE ~\E i \in 1..Len(q) : q[i] = c
  <2>1. r = q
    BY <1>6 DEF Without
  <2>2. \A e \in Client : b[e] = "queued" <=> \E i \in 1..Len(q) : q[i] = e
    BY <1>3, <1>4, <1>6
  <2>. QED  BY <1>1, <1>4, <2>1, <2>2, SMTT(30) DEF Lined
<1>. QED
  BY <1>5, <1>6

\* `notify_one` takes the first of the line, who was only registered.
LEMMA NotifyTakesHead ==
  ASSUME NEW d \in Bell, Lined(d), d.queue # <<>>
  PROVE  /\ Head(d.queue) \in Client /\ d.bell[Head(d.queue)] = "queued"
         /\ NotifyOne(d).bell = [d.bell EXCEPT ![Head(d.queue)] = "one"]
         /\ NotifyOne(d).queue = Tail(d.queue)
<1>1. d.queue \in Seq(Client)
  BY DEF Bell
<1>2. Head(d.queue) \in Client /\ 1 \in 1..Len(d.queue) /\ Head(d.queue) = d.queue[1]
  BY <1>1, SMT
<1>3. d.bell[Head(d.queue)] = "queued"
  BY <1>2 DEF Lined
<1>. QED
  BY <1>2, <1>3 DEF NotifyOne

\* The line without its first is still a line.
LEMMA NotifyLined == ASSUME NEW d \in Bell, Lined(d) PROVE Lined(NotifyOne(d))
<1>1. CASE d.queue = <<>>
  BY <1>1 DEF NotifyOne, Lined, Bell
<1>2. CASE d.queue # <<>>
  <2>. DEFINE q == d.queue
              r == Tail(q)
              h == Head(q)
              b == [d.bell EXCEPT ![h] = "one"]
  <2>1. NotifyOne(d).bell = b /\ NotifyOne(d).queue = r
    BY <1>2, NotifyTakesHead
  <2>2. q \in Seq(Client) /\ d.bell \in [Client -> Notified]
    BY DEF Bell
  <2>3. Len(q) \in Nat /\ Len(r) = Len(q) - 1 /\ h = q[1] /\ 1 \in 1..Len(q) /\ h \in Client
    BY <1>2, <2>2, SMT
  <2>4. \A i \in 1..Len(r) : r[i] = q[i + 1]
    BY <1>2, <2>2, SMT
  <2>5. /\ \A i, j \in 1..Len(q) : q[i] = q[j] => i = j
        /\ \A e \in Client : d.bell[e] = "queued" <=> \E i \in 1..Len(q) : q[i] = e
    BY DEF Lined
  <2>6. b[h] = "one" /\ \A e \in Client \ {h} : b[e] = d.bell[e]
    BY <2>2, <2>3
  <2>. HIDE DEF q, r, h, b
  <2>7. \A i, j \in 1..Len(r) : r[i] = r[j] => i = j
    BY <2>3, <2>4, <2>5, SMT
  <2>8. \A i \in 1..Len(r) : r[i] # h
    BY <2>3, <2>4, <2>5, SMT
  <2>9. ASSUME NEW e \in Client \ {h} PROVE (\E i \in 1..Len(q) : q[i] = e) <=> (\E i \in 1..Len(r) : r[i] = e)
    <3>1. ASSUME NEW i \in 1..Len(q), q[i] = e PROVE \E j \in 1..Len(r) : r[j] = e
      <4>1. i # 1
        BY <2>3, <3>1
      <4>2. i - 1 \in 1..Len(r) /\ r[i - 1] = e
        BY <2>3, <2>4, <3>1, <4>1, SMT
      <4>. QED  BY <4>2
    <3>2. ASSUME NEW i \in 1..Len(r), r[i] = e PROVE \E j \in 1..Len(q) : q[j] = e
      <4>1. i + 1 \in 1..Len(q) /\ q[i + 1] = e
        BY <2>3, <2>4, <3>2, SMT
      <4>. QED  BY <4>1
    <3>. QED  BY <3>1, <3>2
  <2>10. \A e \in Client : b[e] = "queued" <=> \E i \in 1..Len(r) : r[i] = e
    BY <2>5, <2>6, <2>8, <2>9
  <2>. QED  BY <2>1, <2>7, <2>10 DEF Lined
<1>. QED
  BY <1>1, <1>2

\* A drop is a departure, and a notification handed on if there was one.
LEMMA DropIsGone ==
  ASSUME NEW d, NEW c
  PROVE  Drop(d, c) = IF d.bell[c] = "one" THEN NotifyOne(Gone(d, c)) ELSE Gone(d, c)
  BY DEF Drop, Gone

\* Whoever drops a Notified leaves a line.
LEMMA DropLined == ASSUME NEW d \in Bell, Lined(d), NEW c \in Client PROVE Lined(Drop(d, c))
  BY DropIsGone, GoneType, GoneLined, NotifyLined

\* `notified()` joins the line at its end, or takes the stored permit.
LEMMA EnrolLined ==
  ASSUME NEW d \in Bell, Lined(d), NEW c \in Client, d.bell[c] = "none"
  PROVE  Lined(Enrol(d, c))
<1>. DEFINE q == d.queue
            r == Append(q, c)
            b == [d.bell EXCEPT ![c] = "queued"]
            s == [d.bell EXCEPT ![c] = "spent"]
<1>1. q \in Seq(Client) /\ d.bell \in [Client -> Notified]
  BY DEF Bell
<1>2. /\ \A i, j \in 1..Len(q) : q[i] = q[j] => i = j
      /\ \A e \in Client : d.bell[e] = "queued" <=> \E i \in 1..Len(q) : q[i] = e
  BY DEF Lined
<1>3. \A i \in 1..Len(q) : q[i] # c
  BY <1>2
<1>4. CASE d.permit
  <2>1. Enrol(d, c).queue = q /\ Enrol(d, c).bell = s
    BY <1>4 DEF Enrol
  <2>2. s[c] = "spent" /\ \A e \in Client \ {c} : s[e] = d.bell[e]
    BY <1>1
  <2>. HIDE DEF q, s
  <2>3. \A e \in Client : s[e] = "queued" <=> \E i \in 1..Len(q) : q[i] = e
    BY <1>2, <1>3, <2>2
  <2>. QED  BY <1>2, <2>1, <2>3, SMT DEF Lined
<1>5. CASE ~d.permit
  <2>1. Enrol(d, c).queue = r /\ Enrol(d, c).bell = b
    BY <1>5 DEF Enrol
  <2>2. b[c] = "queued" /\ \A e \in Client \ {c} : b[e] = d.bell[e]
    BY <1>1
  <2>3. /\ Len(q) \in Nat /\ Len(r) = Len(q) + 1 /\ r[Len(q) + 1] = c
        /\ \A i \in 1..Len(q) : r[i] = q[i]
    BY <1>1, SMT
  <2>. HIDE DEF q, r, b
  <2>4. \A i, j \in 1..Len(r) : r[i] = r[j] => i = j
    BY <1>2, <1>3, <2>3, SMT
  <2>5. \A i \in 1..Len(r) : r[i] = c \/ (i \in 1..Len(q) /\ r[i] = q[i])
    BY <2>3, SMT
  <2>6. Len(q) + 1 \in 1..Len(r) /\ \A i \in 1..Len(q) : i \in 1..Len(r)
    BY <2>3, SMT
  <2>7. \A e \in Client : b[e] = "queued" <=> \E i \in 1..Len(r) : r[i] = e
    BY <1>2, <2>2, <2>3, <2>5, <2>6, SMT
  <2>. QED  BY <2>1, <2>4, <2>7, SMT DEF Lined
<1>. QED
  BY <1>4, <1>5

\* `notify_waiters` leaves nobody in line.
LEMMA NotifyAllLined ==
  ASSUME NEW d \in Bell
  PROVE  /\ Lined(NotifyAll(d))
         /\ \A e \in Client : /\ NotifyAll(d).bell[e] # "queued"
                              /\ NotifyAll(d).bell[e] # "none" => d.bell[e] # "none"
<1>. DEFINE b == [e \in Client |-> IF d.bell[e] = "queued" THEN "all" ELSE d.bell[e]]
<1>1. NotifyAll(d).bell = b /\ NotifyAll(d).queue = <<>>
  BY DEF NotifyAll
<1>2. \A e \in Client : b[e] # "queued" /\ (b[e] # "none" => d.bell[e] # "none")
  OBVIOUS
<1>. HIDE DEF b
<1>3. Len(<<>>) = 0
  OBVIOUS
<1>. QED
  BY <1>1, <1>2, <1>3, SMT DEF Lined

\* The chosen can be counted.
LEMMA ChosenFinite == ASSUME NEW b PROVE IsFiniteSet(Chosen(b)) /\ Cardinality(Chosen(b)) \in Nat
<1>1. Chosen(b) \in SUBSET Client
  BY DEF Chosen
<1>. QED
  BY <1>1, PoolAssumption, FS_Subset, FS_CardinalityType

\* `notify_one` on a line chooses one caller more, and registers nobody.
LEMMA NotifyChoosesOne ==
  ASSUME NEW d \in Bell, Lined(d)
  PROVE  /\ d.queue # <<>> => Cardinality(Chosen(NotifyOne(d).bell)) = Cardinality(Chosen(d.bell)) + 1
         /\ \A e \in Client : /\ NotifyOne(d).bell[e] = "queued" => d.bell[e] = "queued"
                              /\ NotifyOne(d).bell[e] # "none" => d.bell[e] # "none"
<1>1. CASE d.queue = <<>>
  <2>1. NotifyOne(d).bell = d.bell
    BY <1>1 DEF NotifyOne, Bell
  <2>. QED  BY <1>1, <2>1
<1>2. CASE d.queue # <<>>
  <2>. DEFINE h == Head(d.queue)
  <2>1. h \in Client /\ d.bell[h] = "queued" /\ NotifyOne(d).bell = [d.bell EXCEPT ![h] = "one"]
    BY <1>2, NotifyTakesHead
  <2>2. d.bell \in [Client -> Notified]
    BY DEF Bell
  <2>. HIDE DEF h
  <2>3. NotifyOne(d).bell[h] = "one" /\ \A e \in Client \ {h} : NotifyOne(d).bell[e] = d.bell[e]
    BY <2>1, <2>2
  <2>4. Chosen(NotifyOne(d).bell) = Chosen(d.bell) \cup {h} /\ h \notin Chosen(d.bell)
    BY <2>1, <2>3 DEF Chosen
  <2>5. Cardinality(Chosen(NotifyOne(d).bell)) = Cardinality(Chosen(d.bell)) + 1
    BY <2>4, ChosenFinite, FS_AddElement
  <2>. QED  BY <2>1, <2>3, <2>5
<1>. QED
  BY <1>1, <1>2

\* Dropping a Notified loses no notification while somebody is in line for it.
LEMMA DropLosesNone ==
  ASSUME NEW d \in Bell, Lined(d), NEW c \in Client
  PROVE  /\ \A e \in Client : /\ Drop(d, c).bell[e] = "queued" => d.bell[e] = "queued"
                              /\ Drop(d, c).bell[e] # "none" => d.bell[e] # "none" /\ e # c
         /\ (\E e \in Client : Drop(d, c).bell[e] = "queued")
              => Cardinality(Chosen(Drop(d, c).bell)) = Cardinality(Chosen(d.bell))
<1>. DEFINE g == Gone(d, c)
<1>1. g \in Bell /\ Lined(g)
  BY GoneType, GoneLined
<1>2. g.bell = [d.bell EXCEPT ![c] = "none"] /\ d.bell \in [Client -> Notified]
  BY DEF Gone, Bell
<1>3. g.bell[c] = "none" /\ \A e \in Client \ {c} : g.bell[e] = d.bell[e]
  BY <1>2
<1>4. Drop(d, c) = IF d.bell[c] = "one" THEN NotifyOne(g) ELSE g
  BY DropIsGone
<1>. HIDE DEF g
<1>5. \A e \in Client : /\ NotifyOne(g).bell[e] = "queued" => g.bell[e] = "queued"
                        /\ NotifyOne(g).bell[e] # "none" => g.bell[e] # "none"
  BY <1>1, NotifyChoosesOne
<1>6. CASE d.bell[c] = "one"
  <2>1. Drop(d, c) = NotifyOne(g)
    BY <1>4, <1>6
  <2>2. Chosen(g.bell) = Chosen(d.bell) \ {c} /\ c \in Chosen(d.bell)
    BY <1>3, <1>6 DEF Chosen
  <2>3. Cardinality(Chosen(g.bell)) = Cardinality(Chosen(d.bell)) - 1
    BY <2>2, ChosenFinite, FS_RemoveElement
  <2>4. ASSUME NEW e \in Client, NotifyOne(g).bell[e] = "queued" PROVE g.queue # <<>>
    <3>1. PICK i \in 1..Len(g.queue) : g.queue[i] = e
      BY <1>1, <1>5, <2>4 DEF Lined
    <3>. QED  BY <3>1, SMTT(30)
  <2>5. (\E e \in Client : NotifyOne(g).bell[e] = "queued")
           => Cardinality(Chosen(NotifyOne(g).bell)) = Cardinality(Chosen(g.bell)) + 1
    BY <1>1, <2>4, NotifyChoosesOne
  <2>6. Cardinality(Chosen(d.bell)) \in Nat
    BY ChosenFinite
  <2>7. (\E e \in Client : NotifyOne(g).bell[e] = "queued")
           => Cardinality(Chosen(NotifyOne(g).bell)) = Cardinality(Chosen(d.bell))
    BY <2>3, <2>5, <2>6, SMTT(30)
  <2>. QED  BY <1>3, <1>5, <2>1, <2>7
<1>7. CASE d.bell[c] # "one"
  <2>1. Drop(d, c) = g
    BY <1>4, <1>7
  <2>2. Chosen(g.bell) = Chosen(d.bell)
    BY <1>3, <1>7 DEF Chosen
  <2>. QED  BY <1>3, <2>1, <2>2
<1>. QED
  BY <1>6, <1>7

-----------------------------------------------------------------------------
(* No wakeup is lost.                                                      *)

\* The places of a caller that will look at the pool, or ring for it.
Eager == {"enrol", "check", "ringing"}

Trying == {c \in Client : pc[c] \in Eager}

\* Looks and notifications on their way: an eager caller that was also chosen
\* counts twice, because it hands its notification on when it is served.
Wakeups == Cardinality(Trying) + Cardinality(Chosen(bell))

\* Somebody was answered Wait and has not been rung for since.
Unrung == \E c \in Client : pc[c] \in {"told", "parked"} /\ bell[c] = "queued"

\* There are as many wakeups as idle connections, and as many as connections
\* and free slots the allowance gives together.
Enough ==
  /\ Cardinality(idle) <= Wakeups
  /\ allowance <= Wakeups + Cardinality(checkedOut) + opening

\* The line is in order, only callers inside `acquire` or about to ring have a
\* Notified, and the limit is never below the last allowance.
Orderly ==
  /\ Lined(Doorbell)
  /\ \A c \in Client : bell[c] # "none" => pc[c] \in {"check", "told", "parked", "opening", "ringing"}
  /\ allowance <= limit

\* What is inductive: not that a wakeup is on its way, but that there are
\* enough of them for all the room there is.
WakeupsSuffice == Unrung => limitMoved \/ Enough

\* The doorbell's variables are the fields of the doorbell stored.
LEMMA StoredDoorbell ==
  ASSUME NEW d \in Bell, SetDoorbell(d)
  PROVE  Doorbell' = d /\ bell' = d.bell
  BY DEF Bell, SetDoorbell, Doorbell

\* What a drop does to the callers that stay.
LEMMA DropEffect ==
  ASSUME TypeOK, Lined(Doorbell), NEW c \in Client, SetDoorbell(Drop(Doorbell, c))
  PROVE  /\ Lined(Doorbell')
         /\ \A e \in Client : /\ bell'[e] = "queued" => bell[e] = "queued"
                              /\ bell'[e] # "none" => bell[e] # "none" /\ e # c
         /\ (\E e \in Client : bell'[e] = "queued")
              => Cardinality(Chosen(bell')) = Cardinality(Chosen(bell))
<1>1. Doorbell \in Bell /\ Doorbell.bell = bell
  BY DoorbellIsBell DEF Doorbell
<1>2. Drop(Doorbell, c) \in Bell
  BY <1>1, DropType
<1>3. Doorbell' = Drop(Doorbell, c) /\ bell' = Drop(Doorbell, c).bell
  BY <1>2, StoredDoorbell
<1>. QED
  BY <1>1, <1>3, DropLined, DropLosesNone, SMT

\* What a ring and the drop that follows it do to the callers that stay.
LEMMA RingEffect ==
  ASSUME TypeOK, Lined(Doorbell), NEW c \in Client, SetDoorbell(Drop(NotifyOne(Doorbell), c))
  PROVE  /\ Lined(Doorbell')
         /\ \A e \in Client : /\ bell'[e] = "queued" => bell[e] = "queued"
                              /\ bell'[e] # "none" => bell[e] # "none" /\ e # c
         /\ (\E e \in Client : bell'[e] = "queued")
              => Cardinality(Chosen(bell')) = Cardinality(Chosen(bell)) + 1
<1>. DEFINE d == NotifyOne(Doorbell)
<1>1. Doorbell \in Bell /\ Doorbell.bell = bell /\ Doorbell.queue = queue
  BY DoorbellIsBell DEF Doorbell
<1>2. d \in Bell /\ Lined(d)
  BY <1>1, NotifyOneType, NotifyLined
<1>3. /\ queue # <<>> => Cardinality(Chosen(d.bell)) = Cardinality(Chosen(bell)) + 1
      /\ \A e \in Client : /\ d.bell[e] = "queued" => bell[e] = "queued"
                           /\ d.bell[e] # "none" => bell[e] # "none"
  BY <1>1, NotifyChoosesOne
<1>. HIDE DEF d
<1>4. Drop(d, c) \in Bell /\ SetDoorbell(Drop(d, c))
  BY <1>2, DropType DEF d
<1>5. Doorbell' = Drop(d, c) /\ bell' = Drop(d, c).bell
  BY <1>4, StoredDoorbell
<1>6. /\ \A e \in Client : /\ bell'[e] = "queued" => d.bell[e] = "queued"
                           /\ bell'[e] # "none" => d.bell[e] # "none" /\ e # c
      /\ (\E e \in Client : bell'[e] = "queued") => Cardinality(Chosen(bell')) = Cardinality(Chosen(d.bell))
  BY <1>2, <1>5, DropLosesNone
<1>7. Lined(Doorbell')
  BY <1>2, <1>5, DropLined
<1>8. ASSUME NEW e \in Client, bell'[e] = "queued" PROVE queue # <<>>
  <2>1. bell[e] = "queued"
    BY <1>3, <1>6, <1>8
  <2>2. \E i \in 1..Len(queue) : queue[i] = e
    BY <1>1, <2>1 DEF Lined
  <2>. QED  BY <2>2, SMTT(30)
<1>. QED
  BY <1>3, <1>6, <1>7, <1>8

\* The eager can be counted.
LEMMA TryingFinite == IsFiniteSet(Trying) /\ Cardinality(Trying) \in Nat
<1>1. Trying \in SUBSET Client
  BY DEF Trying
<1>. QED
  BY <1>1, PoolAssumption, FS_Subset, FS_CardinalityType

\* A caller that becomes eager adds a wakeup, one that stops takes one away.
LEMMA GotoTries ==
  ASSUME TypeOK, NEW c \in Client, NEW to, Goto(c, to)
  PROVE  /\ pc[c] \in Eager /\ to \notin Eager => Cardinality(Trying') = Cardinality(Trying) - 1
         /\ pc[c] \notin Eager /\ to \in Eager => Cardinality(Trying') = Cardinality(Trying) + 1
         /\ (pc[c] \in Eager <=> to \in Eager) => Cardinality(Trying') = Cardinality(Trying)
<1>1. pc'[c] = to /\ \A e \in Client \ {c} : pc'[e] = pc[e]
  BY DEF TypeOK, Goto
<1>2. Trying' = {e \in Client : pc'[e] \in Eager}
  BY DEF Trying
<1>3. to \in Eager => Trying' = Trying \cup {c}
  BY <1>1, <1>2, SMT DEF Trying
<1>4. to \notin Eager => Trying' = Trying \ {c}
  BY <1>1, <1>2, SMT DEF Trying
<1>5. c \in Trying <=> pc[c] \in Eager
  BY DEF Trying
<1>6. CASE pc[c] \in Eager /\ to \notin Eager
  BY <1>4, <1>5, <1>6, TryingFinite, FS_RemoveElement
<1>7. CASE pc[c] \notin Eager /\ to \in Eager
  BY <1>3, <1>5, <1>7, TryingFinite, FS_AddElement
<1>8. CASE pc[c] \in Eager <=> to \in Eager
  <2>1. Trying' = Trying
    BY <1>3, <1>4, <1>5, <1>8
  <2>. QED  BY <1>8, <2>1
<1>. QED
  BY <1>6, <1>7, <1>8

\* Every step keeps the line and the limit in order.
LEMMA NextKeepsOrderly == Accounted /\ Orderly /\ [Next]_vars => Orderly'
<1>. SUFFICES ASSUME Accounted, Orderly, [Next]_vars PROVE Orderly'
  OBVIOUS
<1>. DEFINE Within == {"check", "told", "parked", "opening", "ringing"}
<1>. USE DEF pool, clients, doorbell, set
<1>1. TypeOK /\ Lined(Doorbell) /\ allowance <= limit
  BY DEF Accounted, Orderly
<1>2. \A c \in Client : bell[c] # "none" => pc[c] \in Within
  BY DEF Orderly
<1>3. ASSUME Lined(Doorbell'), \A c \in Client : bell'[c] # "none" => pc'[c] \in Within, allowance' <= limit'
      PROVE  Orderly'
  BY <1>3 DEF Orderly
<1>4. ASSUME UNCHANGED <<bell, queue>> PROVE Lined(Doorbell')
  <2>1. Doorbell'.bell = Doorbell.bell /\ Doorbell'.queue = Doorbell.queue
    BY <1>4 DEF Doorbell
  <2>. QED  BY <1>1, <2>1, SMT DEF Lined
<1>5. ASSUME NEW c \in Client, NEW to, Goto(c, to) PROVE pc'[c] = to /\ \A e \in Client \ {c} : pc'[e] = pc[e]
  BY <1>1, <1>5 DEF TypeOK, Goto
<1>6. ASSUME NEW c \in Client, Arrive(c) PROVE Orderly'
  <2>1. bell[c] = "none" /\ Goto(c, "enrol") /\ UNCHANGED <<bell, queue, allowance, limit>>
    BY <1>2, <1>6 DEF Arrive
  <2>. QED  BY <1>1, <1>2, <1>3, <1>4, <1>5, <2>1
<1>7. ASSUME NEW c \in Client, Reserve(c) \/ MustWait(c) \/ Park(c) \/ OpenFails(c) \/ \E clean \in BOOLEAN : Release(c, clean)
      PROVE  Orderly'
  <2>1. PICK to \in Within : Goto(c, to)
    BY <1>7 DEF Reserve, MustWait, Park, OpenFails, Release
  <2>2. UNCHANGED <<bell, queue, allowance, limit>>
    BY <1>7 DEF Reserve, MustWait, Park, OpenFails, Release
  <2>. QED  BY <1>1, <1>2, <1>3, <1>4, <1>5, <2>1, <2>2
<1>8. ASSUME NEW c \in Client, Register(c) PROVE Orderly'
  <2>1. bell[c] = "none" /\ Doorbell.bell = bell
    BY <1>2, <1>8 DEF Register, Doorbell
  <2>2. Enrol(Doorbell, c) \in Bell /\ Lined(Enrol(Doorbell, c))
    BY <1>1, <2>1, DoorbellIsBell, EnrolType, EnrolLined
  <2>3. Doorbell' = Enrol(Doorbell, c) /\ bell' = Enrol(Doorbell, c).bell
    BY <1>8, <2>2, StoredDoorbell DEF Register
  <2>4. \A e \in Client \ {c} : bell'[e] = bell[e]
    BY <1>1, <2>3 DEF Enrol, Doorbell, TypeOK
  <2>5. Goto(c, "check") /\ UNCHANGED <<allowance, limit>>
    BY <1>8 DEF Register
  <2>. QED  BY <1>1, <1>2, <1>3, <1>5, <2>2, <2>3, <2>4, <2>5, SMTT(30)
<1>9. ASSUME NEW c \in Client, Reuse(c) \/ GiveUpAtOnce(c) \/ StopWaiting(c) \/ Opened(c) PROVE Orderly'
  <2>1. PICK to : Goto(c, to)
    BY <1>9 DEF Reuse, GiveUpAtOnce, StopWaiting, Opened
  <2>2. SetDoorbell(Drop(Doorbell, c)) /\ UNCHANGED <<allowance, limit>>
    BY <1>9 DEF Reuse, GiveUpAtOnce, StopWaiting, Opened
  <2>. QED  BY <1>1, <1>2, <1>3, <1>5, <2>1, <2>2, DropEffect
<1>10. ASSUME NEW c \in Client, Wake(c) PROVE Orderly'
  <2>1. /\ bell' = [bell EXCEPT ![c] = "none"] /\ bell[c] # "queued" /\ queue' = queue
        /\ Goto(c, "enrol") /\ UNCHANGED <<allowance, limit>>
    BY <1>10 DEF Wake
  <2>2. bell'[c] = "none" /\ \A e \in Client \ {c} : bell'[e] = bell[e]
    BY <1>1, <2>1 DEF TypeOK
  <2>3. Doorbell'.bell = bell' /\ Doorbell'.queue = queue /\ Doorbell.bell = bell /\ Doorbell.queue = queue
    BY <2>1 DEF Doorbell
  <2>4. Lined(Doorbell')
    BY <1>1, <2>1, <2>2, <2>3, SMTT(30) DEF Lined
  <2>. QED  BY <1>1, <1>2, <1>3, <1>5, <2>1, <2>2, <2>4
<1>11. ASSUME NEW c \in Client, Ring(c) PROVE Orderly'
  <2>1. Goto(c, "away") /\ SetDoorbell(Drop(NotifyOne(Doorbell), c)) /\ UNCHANGED <<allowance, limit>>
    BY <1>11 DEF Ring
  <2>. QED  BY <1>1, <1>2, <1>3, <1>5, <2>1, RingEffect
<1>12. ASSUME NEW l \in Limits, SetLimit(l) PROVE Orderly'
  <2>1. UNCHANGED <<bell, queue, pc>> /\ allowance' = limit'
    BY <1>12 DEF SetLimit
  <2>2. limit' \in Nat
    BY <1>12, PoolAssumption DEF SetLimit
  <2>. QED  BY <1>2, <1>3, <1>4, <2>1, <2>2, SMT
<1>13. ASSUME RingForLimit PROVE Orderly'
  <2>1. SetDoorbell(NotifyAll(Doorbell)) /\ UNCHANGED <<pc, allowance, limit>>
    BY <1>13 DEF RingForLimit
  <2>2. Doorbell' = NotifyAll(Doorbell) /\ bell' = NotifyAll(Doorbell).bell
    BY <1>1, <2>1, DoorbellIsBell, NotifyAllType, StoredDoorbell
  <2>3. Lined(Doorbell') /\ \A e \in Client : bell'[e] # "none" => Doorbell.bell[e] # "none"
    BY <1>1, <2>2, DoorbellIsBell, NotifyAllLined
  <2>4. Doorbell.bell = bell
    BY DEF Doorbell
  <2>. QED  BY <1>1, <1>2, <1>3, <2>1, <2>3, <2>4
<1>14. ASSUME NEW old \in SUBSET idle, NEW stale \in SUBSET checkedOut, ReapIdle(old, stale) PROVE Orderly'
  <2>1. UNCHANGED <<bell, queue, pc, allowance>> /\ (limit' = limit \/ limit' = MaxSize)
    BY <1>14 DEF ReapIdle
  <2>2. allowance <= MaxSize
    BY CountsAreNumbers, SMTT(30)
  <2>. QED  BY <1>1, <1>2, <1>3, <1>4, <2>1, <2>2
<1>15. ASSUME ForgetDoorbell \/ UNCHANGED vars PROVE Orderly'
  <2>1. UNCHANGED <<bell, queue, pc, allowance, limit>>
    BY <1>15 DEF ForgetDoorbell, vars
  <2>. QED  BY <1>1, <1>2, <1>3, <1>4, <2>1
<1>. QED
  BY <1>6, <1>7, <1>8, <1>9, <1>10, <1>11, <1>12, <1>13, <1>14, <1>15 DEF Next

\* Every step leaves enough wakeups for the room there is, if anybody waits:
\* room is made with a ring to follow, taken by whoever was to look, and a
\* notification dropped is handed on.
LEMMA NextKeepsWakeups == Accounted /\ Orderly /\ WakeupsSuffice /\ [Next]_vars => WakeupsSuffice'
<1>. SUFFICES ASSUME Accounted, Orderly, WakeupsSuffice, [Next]_vars, Unrung', ~limitMoved'
              PROVE  Enough'
  BY DEF WakeupsSuffice
<1>. DEFINE T == Cardinality(Trying)
            C == Cardinality(Chosen(bell))
            I == Cardinality(idle)
            O == Cardinality(checkedOut)
            T1 == Cardinality(Trying')
            C1 == Cardinality(Chosen(bell'))
            I1 == Cardinality(idle')
            O1 == Cardinality(checkedOut')
<1>0. TypeOK /\ Lined(Doorbell)
  BY DEF Accounted, Orderly
<1>1. T \in Nat /\ C \in Nat /\ I \in Nat /\ O \in Nat /\ opening \in Nat /\ allowance \in Nat /\ limit \in Nat /\ allowance <= limit
  BY CountsAreNumbers, TryingFinite, ChosenFinite, SMT DEF Orderly
<1>2. C1 \in Nat
  BY ChosenFinite
<1>3. PICK w \in Client : pc'[w] \in {"told", "parked"} /\ bell'[w] = "queued"
  BY DEF Unrung
<1>4. I1 <= T1 + C1 /\ allowance' <= T1 + C1 + O1 + opening' => Enough'
  BY DEF Enough, Wakeups
<1>5. ASSUME Unrung, limitMoved' = limitMoved PROVE I <= T + C /\ allowance <= T + C + O + opening
  BY <1>5 DEF WakeupsSuffice, Enough, Wakeups
<1>6. ASSUME NEW c \in Client, NEW to, Goto(c, to) PROVE pc'[c] = to /\ \A e \in Client \ {c} : pc'[e] = pc[e]
  BY <1>0, <1>6 DEF TypeOK, Goto
<1>7. ASSUME NEW c \in Client, NEW to, Goto(c, to), to \notin {"told", "parked"}, bell[w] = "queued" PROVE Unrung
  <2>1. w # c /\ pc[w] \in {"told", "parked"}
    BY <1>3, <1>6, <1>7
  <2>. QED  BY <1>7, <2>1 DEF Unrung
<1>. HIDE DEF T, C, I, O, T1, C1, I1, O1
<1>. USE DEF pool, clients, doorbell, set
<1>8. ASSUME NEW c \in Client, Arrive(c) PROVE Enough'
  <2>1. Goto(c, "enrol") /\ pc[c] = "away" /\ UNCHANGED <<bell, idle, checkedOut, opening, allowance, limitMoved>>
    BY <1>8 DEF Arrive
  <2>2. T1 = T + 1
    BY <1>0, <2>1, GotoTries DEF Eager, T, T1
  <2>3. C1 = C /\ I1 = I /\ O1 = O
    BY <2>1 DEF C, C1, I, I1, O, O1
  <2>4. Unrung
    BY <1>3, <1>7, <2>1
  <2>. QED  BY <1>1, <1>4, <1>5, <2>1, <2>2, <2>3, <2>4, SMT
<1>9. ASSUME NEW c \in Client, Register(c) PROVE Enough'
  <2>1. /\ Goto(c, "check") /\ pc[c] = "enrol" /\ UNCHANGED <<idle, checkedOut, opening, allowance, limitMoved>>
        /\ SetDoorbell(Enrol(Doorbell, c))
    BY <1>9 DEF Register
  <2>2. T1 = T
    BY <1>0, <2>1, GotoTries DEF Eager, T, T1
  <2>3. bell[c] = "none"
    BY <2>1 DEF Orderly
  <2>4. bell' = [bell EXCEPT ![c] = "spent"] \/ bell' = [bell EXCEPT ![c] = "queued"]
    BY <2>1 DEF SetDoorbell, Enrol, Doorbell
  <2>5. bell'[c] \in {"spent", "queued"} /\ \A e \in Client \ {c} : bell'[e] = bell[e]
    BY <1>0, <2>4 DEF TypeOK
  <2>6. Chosen(bell') = Chosen(bell)
    BY <2>3, <2>5 DEF Chosen
  <2>7. C1 = C /\ I1 = I /\ O1 = O
    BY <2>1, <2>6 DEF C, C1, I, I1, O, O1
  <2>8. w # c
    BY <1>3, <1>6, <2>1
  <2>9. Unrung
    BY <1>3, <1>7, <2>1, <2>5, <2>8
  <2>. QED  BY <1>1, <1>4, <1>5, <2>1, <2>2, <2>7, <2>9
<1>10. ASSUME NEW c \in Client, SetDoorbell(Drop(Doorbell, c)) PROVE bell[w] = "queued" /\ C1 = C
  <2>1. bell'[w] = "queued"
    BY <1>3
  <2>. QED  BY <1>0, <1>10, <2>1, DropEffect DEF C, C1
<1>11. ASSUME NEW c \in Client, Reuse(c) PROVE Enough'
  <2>1. /\ Goto(c, "using") /\ pc[c] = "check" /\ UNCHANGED <<allowance, limitMoved>>
        /\ SetDoorbell(Drop(Doorbell, c))
    BY <1>11 DEF Reuse
  <2>2. T1 = T - 1
    BY <1>0, <2>1, GotoTries, SMT DEF Eager, T, T1
  <2>3. I1 = I - 1 /\ O1 = O + 1 /\ opening' = opening
    BY <1>11, ReuseCounts DEF I, I1, O, O1
  <2>4. bell[w] = "queued" /\ C1 = C
    BY <1>10, <2>1
  <2>5. Unrung
    BY <1>7, <2>1, <2>4
  <2>. QED  BY <1>1, <1>4, <1>5, <2>1, <2>2, <2>3, <2>4, <2>5, SMT
<1>12. ASSUME NEW c \in Client, Reserve(c) PROVE Enough'
  <2>1. /\ Goto(c, "opening") /\ pc[c] = "check" /\ idle = {}
        /\ opening' = opening + 1 /\ UNCHANGED <<bell, idle, checkedOut, allowance, limitMoved>>
    BY <1>12 DEF Reserve
  <2>2. T1 = T - 1
    BY <1>0, <2>1, GotoTries, SMT DEF Eager, T, T1
  <2>3. C1 = C /\ I1 = 0 /\ O1 = O
    BY <2>1, FS_EmptySet DEF C, C1, I, I1, O, O1
  <2>4. Unrung
    BY <1>3, <1>7, <2>1
  <2>5. T1 \in Nat
    <3>1. c \in Trying
      BY <2>1 DEF Trying, Eager
    <3>2. T # 0
      BY <3>1, TryingFinite, FS_EmptySet DEF T
    <3>. QED  BY <1>1, <2>2, <3>2, SMT
  <2>. QED  BY <1>1, <1>2, <1>4, <1>5, <2>1, <2>2, <2>3, <2>4, <2>5, SMT
<1>13. ASSUME NEW c \in Client, MustWait(c) PROVE Enough'
  <2>1. /\ Goto(c, "told") /\ pc[c] = "check" /\ idle = {} /\ Total >= limit
        /\ UNCHANGED <<bell, idle, checkedOut, opening, allowance>>
    BY <1>13 DEF MustWait
  <2>2. T1 = T - 1
    BY <1>0, <2>1, GotoTries, SMTT(30) DEF Eager, T, T1
  <2>3. C1 = C /\ I1 = 0 /\ I = 0 /\ O1 = O
    BY <2>1, FS_EmptySet DEF C, C1, I, I1, O, O1
  <2>4. T1 \in Nat
    <3>1. c \in Trying
      BY <2>1 DEF Trying, Eager
    <3>2. T # 0
      BY <3>1, TryingFinite, FS_EmptySet DEF T
    <3>. QED  BY <1>1, <2>2, <3>2, SMT
  <2>5. limit <= I + O + opening
    BY <1>1, <2>1 DEF Total, I, O
  <2>. QED  BY <1>1, <1>4, <2>1, <2>3, <2>4, <2>5, SMT
<1>14. ASSUME NEW c \in Client, GiveUpAtOnce(c) \/ StopWaiting(c) PROVE Enough'
  <2>1. /\ Goto(c, "away") /\ pc[c] \in {"told", "parked"}
        /\ UNCHANGED <<idle, checkedOut, opening, allowance, limitMoved>>
        /\ SetDoorbell(Drop(Doorbell, c))
    BY <1>14 DEF GiveUpAtOnce, StopWaiting
  <2>2. T1 = T
    BY <1>0, <2>1, GotoTries, SMT DEF Eager, T, T1
  <2>3. I1 = I /\ O1 = O
    BY <2>1 DEF I, I1, O, O1
  <2>4. bell[w] = "queued" /\ C1 = C
    BY <1>10, <2>1
  <2>5. Unrung
    BY <1>7, <2>1, <2>4
  <2>. QED  BY <1>1, <1>4, <1>5, <2>1, <2>2, <2>3, <2>4, <2>5
<1>15. ASSUME NEW c \in Client, Park(c) PROVE Enough'
  <2>1. /\ Goto(c, "parked") /\ pc[c] = "told"
        /\ UNCHANGED <<bell, idle, checkedOut, opening, allowance, limitMoved>>
    BY <1>15 DEF Park
  <2>2. T1 = T
    BY <1>0, <2>1, GotoTries, SMT DEF Eager, T, T1
  <2>3. C1 = C /\ I1 = I /\ O1 = O
    BY <2>1 DEF C, C1, I, I1, O, O1
  <2>4. pc[w] \in {"told", "parked"} /\ bell[w] = "queued"
    BY <1>3, <1>6, <2>1
  <2>5. Unrung
    BY <2>4 DEF Unrung
  <2>. QED  BY <1>1, <1>4, <1>5, <2>1, <2>2, <2>3, <2>5
<1>16. ASSUME NEW c \in Client, Wake(c) PROVE Enough'
  <2>1. /\ Goto(c, "enrol") /\ pc[c] = "parked" /\ bell' = [bell EXCEPT ![c] = "none"]
        /\ UNCHANGED <<idle, checkedOut, opening, allowance, limitMoved>>
    BY <1>16 DEF Wake
  <2>2. T1 = T + 1
    BY <1>0, <2>1, GotoTries DEF Eager, T, T1
  <2>3. I1 = I /\ O1 = O
    BY <2>1 DEF I, I1, O, O1
  <2>4. bell'[c] = "none" /\ \A e \in Client \ {c} : bell'[e] = bell[e]
    BY <1>0, <2>1 DEF TypeOK
  <2>5. Chosen(bell') = Chosen(bell) \ {c}
    BY <2>4 DEF Chosen
  <2>6. C1 = C \/ C1 = C - 1
    BY <2>5, ChosenFinite, FS_RemoveElement DEF C, C1
  <2>7. w # c
    BY <1>3, <2>4
  <2>8. Unrung
    BY <1>3, <1>7, <2>1, <2>4, <2>7
  <2>. QED  BY <1>1, <1>4, <1>5, <2>1, <2>2, <2>3, <2>6, <2>8, SMTT(30)
<1>17. ASSUME NEW c \in Client, Opened(c) PROVE Enough'
  <2>1. /\ Goto(c, "using") /\ pc[c] = "opening" /\ UNCHANGED <<allowance, limitMoved>>
        /\ SetDoorbell(Drop(Doorbell, c))
    BY <1>17 DEF Opened
  <2>2. T1 = T
    BY <1>0, <2>1, GotoTries, SMTT(30) DEF Eager, T, T1
  <2>3. I1 = I /\ O1 = O + 1 /\ opening' = opening - 1
    BY <1>17, OpenedCounts DEF I, I1, O, O1
  <2>4. bell[w] = "queued" /\ C1 = C
    BY <1>10, <2>1
  <2>5. Unrung
    BY <1>7, <2>1, <2>4
  <2>. QED  BY <1>1, <1>4, <1>5, <2>1, <2>2, <2>3, <2>4, <2>5, SMTT(30)
<1>18. ASSUME NEW c \in Client, OpenFails(c) PROVE Enough'
  <2>1. /\ Goto(c, "ringing") /\ pc[c] = "opening" /\ UNCHANGED <<bell, allowance, limitMoved>>
    BY <1>18 DEF OpenFails
  <2>2. T1 = T + 1
    BY <1>0, <2>1, GotoTries DEF Eager, T, T1
  <2>3. C1 = C /\ I1 = I /\ O1 = O /\ opening' = opening - 1
    BY <1>18, <2>1, OpenFailsCounts DEF C, C1, I, I1, O, O1
  <2>4. Unrung
    BY <1>3, <1>7, <2>1
  <2>. QED  BY <1>1, <1>4, <1>5, <2>1, <2>2, <2>3, <2>4, SMT
<1>19. ASSUME NEW c \in Client, NEW clean \in BOOLEAN, Release(c, clean) PROVE Enough'
  <2>1. /\ Goto(c, "ringing") /\ pc[c] = "using" /\ UNCHANGED <<bell, allowance, limitMoved>>
    BY <1>19 DEF Release
  <2>2. T1 = T + 1
    BY <1>0, <2>1, GotoTries DEF Eager, T, T1
  <2>3. C1 = C /\ O1 = O - 1 /\ opening' = opening /\ (I1 = I \/ I1 = I + 1)
    BY <1>19, <2>1, ReleaseCounts DEF C, C1, I, I1, O, O1
  <2>4. Unrung
    BY <1>3, <1>7, <2>1
  <2>. QED  BY <1>1, <1>4, <1>5, <2>1, <2>2, <2>3, <2>4, SMTT(30)
<1>20. ASSUME NEW c \in Client, Ring(c) PROVE Enough'
  <2>1. /\ Goto(c, "away") /\ pc[c] = "ringing"
        /\ UNCHANGED <<idle, checkedOut, opening, allowance, limitMoved>>
        /\ SetDoorbell(Drop(NotifyOne(Doorbell), c))
    BY <1>20 DEF Ring
  <2>2. T1 = T - 1
    BY <1>0, <2>1, GotoTries, SMT DEF Eager, T, T1
  <2>3. I1 = I /\ O1 = O
    BY <2>1 DEF I, I1, O, O1
  <2>4. bell[w] = "queued" /\ C1 = C + 1
    BY <1>0, <1>3, <2>1, RingEffect DEF C, C1
  <2>5. Unrung
    BY <1>7, <2>1, <2>4
  <2>. QED  BY <1>1, <1>4, <1>5, <2>1, <2>2, <2>3, <2>4, <2>5, SMTT(30)
<1>21. ASSUME NEW l \in Limits, SetLimit(l) PROVE FALSE
  BY <1>21 DEF SetLimit
<1>22. ASSUME RingForLimit PROVE FALSE
  <2>1. SetDoorbell(NotifyAll(Doorbell))
    BY <1>22 DEF RingForLimit
  <2>2. bell' = NotifyAll(Doorbell).bell
    BY <2>1 DEF SetDoorbell
  <2>. QED  BY <1>0, <1>3, <2>2, DoorbellIsBell, NotifyAllLined
<1>23. ASSUME NEW old \in SUBSET idle, NEW stale \in SUBSET checkedOut, ReapIdle(old, stale) PROVE Enough'
  <2>1. UNCHANGED <<pc, bell, allowance, limitMoved>>
    BY <1>23 DEF ReapIdle
  <2>2. T1 = T /\ C1 = C
    BY <2>1 DEF Trying, T, T1, C, C1
  <2>3. I1 <= I /\ I1 \in Nat /\ O1 = O /\ opening' = opening
    BY <1>23, ReapCounts DEF I, I1, O, O1
  <2>4. Unrung
    BY <1>3, <2>1 DEF Unrung
  <2>. QED  BY <1>1, <1>4, <1>5, <2>1, <2>2, <2>3, <2>4, SMT
<1>24. ASSUME ForgetDoorbell \/ UNCHANGED vars PROVE Enough'
  <2>1. UNCHANGED <<pc, bell, idle, checkedOut, opening, allowance, limitMoved>>
    BY <1>24 DEF ForgetDoorbell, vars
  <2>2. T1 = T /\ C1 = C /\ I1 = I /\ O1 = O
    BY <2>1 DEF Trying, T, T1, C, C1, I, I1, O, O1
  <2>4. Unrung
    BY <1>3, <2>1 DEF Unrung
  <2>. QED  BY <1>1, <1>4, <1>5, <2>1, <2>2, <2>4
<1>. QED
  BY <1>8, <1>9, <1>11, <1>12, <1>13, <1>14, <1>15, <1>16, <1>17, <1>18, <1>19, <1>20, <1>21, <1>22, <1>23, <1>24
     DEF Next

\* Enough wakeups means one, where there is room.
LEMMA EnoughIsNoLostWakeup == Accounted /\ Orderly /\ WakeupsSuffice => NoLostWakeup
<1>. SUFFICES ASSUME Accounted, Orderly, WakeupsSuffice, Room, NEW w \in Client, Waiter(w), ~limitMoved
              PROVE  Stirring \/ \E c \in At("opening") : bell[c] = "one"
  BY DEF NoLostWakeup, Stirring
<1>1. Enough
  BY DEF WakeupsSuffice, Unrung, Waiter
<1>2. /\ Cardinality(idle) \in Nat /\ Cardinality(checkedOut) \in Nat /\ opening \in Nat /\ allowance \in Nat
      /\ IsFiniteSet(idle) /\ Cardinality(Trying) \in Nat /\ Cardinality(Chosen(bell)) \in Nat
  BY CountsAreNumbers, TryingFinite, ChosenFinite, SMT
<1>3. idle # {} => Cardinality(idle) # 0
  BY <1>2, FS_EmptySet
<1>4. Cardinality(Trying) + Cardinality(Chosen(bell)) # 0
  BY <1>1, <1>2, <1>3, SMT DEF Room, Total, Enough, Wakeups
<1>5. Trying # {} \/ Chosen(bell) # {}
  BY <1>4, FS_EmptySet, SMT
<1>6. CASE Trying # {}
  BY <1>6 DEF Trying, Eager, Stirring
<1>7. CASE Chosen(bell) # {}
  <2>1. PICK c \in Client : bell[c] = "one"
    BY <1>7 DEF Chosen
  <2>2. pc[c] \in {"check", "told", "parked", "opening", "ringing"}
    BY <2>1 DEF Orderly
  <2>. QED  BY <2>1, <2>2 DEF Stirring, At
<1>. QED
  BY <1>5, <1>6, <1>7

\* An idle pool has nobody waiting.
LEMMA InitWakeups == Init => Orderly /\ WakeupsSuffice
<1>. SUFFICES ASSUME Init PROVE Orderly /\ WakeupsSuffice
  OBVIOUS
<1>1. \A c \in Client : bell[c] = "none"
  BY DEF Init
<1>2. Doorbell.queue = <<>> /\ Doorbell.bell = bell /\ Len(<<>>) = 0
  BY DEF Init, Doorbell
<1>3. Lined(Doorbell)
  BY <1>1, <1>2, SMT DEF Lined
<1>4. allowance <= limit
  BY PoolAssumption, SMT DEF Init
<1>. QED
  BY <1>1, <1>3, <1>4 DEF Orderly, WakeupsSuffice, Unrung

\* While a caller is parked and the pool has room for it, a wakeup is on its
\* way, for any number of clients and connections, whoever gives up, fails to
\* connect or is served meanwhile, and however the limit moves.
THEOREM PoolLosesNoWakeup == Spec => []NoLostWakeup
<1>. DEFINE Inv == Accounted /\ Orderly /\ WakeupsSuffice
<1>1. Init => Inv
  BY InitAccounted, InitWakeups
<1>2. Inv /\ [Next]_vars => Inv'
  BY NextKeepsAccounted, NextKeepsOrderly, NextKeepsWakeups
<1>3. Inv => NoLostWakeup
  BY EnoughIsNoLostWakeup
<1>. QED
  BY <1>1, <1>2, <1>3, PTL DEF Spec
=============================================================================
