---------------------------- MODULE WireBuffers ----------------------------
(***************************************************************************)
(* The buffers a session's wires borrow: the bounded slab they come from   *)
(* (pgprox-core buf.rs) and the reading, forwarding and flushing that take *)
(* and return them (Wire, pgprox-session shell.rs; read_client_body,       *)
(* stream_body and forward, bin/pgprox/src/serve.rs).                      *)
(*                                                                         *)
(* A flow is one session moving messages from one wire to another.  Bytes  *)
(* are counted, not named: a message is a header and a body, which is read *)
(* whole or streamed.  The slab's count and its free list are told of a    *)
(* borrow, and of a return, one after the other, with other threads in     *)
(* between.                                                                *)
(***************************************************************************)
EXTENDS Integers, FiniteSets, Sequences

CONSTANTS
  Flow,            \* sessions
  MaxOutstanding,  \* BufferSlab::max_outstanding
  Bodies,          \* bound: body lengths a peer may send
  FirstRead,       \* most a quiet wire reads at once, onto the stack
  HeldRead,        \* most a wire that holds a buffer reads at once
  MaxComing,       \* bound: messages on the way to a flow
  MaxPieces        \* bound: pieces queued before a flush

ASSUME WireAssumption ==
  /\ IsFiniteSet(Flow)
  /\ MaxOutstanding \in Nat /\ Bodies \subseteq Nat
  /\ FirstRead \in Nat \ {0} /\ HeldRead \in Nat \ {0} /\ MaxComing \in Nat /\ MaxPieces \in Nat \ {0}

VARIABLES
  outstanding,  \* BufferSlab::outstanding
  free,         \* buffers on the free list
  flow          \* each flow's two wires, and where it is

wireVars == <<outstanding, free, flow>>

\* The length of a header: it may arrive in two reads.
HeaderLen == 2

\* header: in `read_header`.  announce: queueing the header of a body to be
\* streamed.  whole, stream: inside a body, with `left` to go.  queue: queueing
\* what was read of it.  flush: writing.  closing: dropping its wires.
Stages == {"header", "announce", "whole", "stream", "queue", "flush", "closing"}

\* No borrow; bytes on the stack and no slot yet; a slot and no buffer yet.
Borrows == {"none", "wanting", "reading", "writing"}

\* A flow that has read nothing and holds nothing.  `owes`: a buffer is back on
\* the list and not yet off the count.  `streamed`: the last message was.
\* `queued` and `spare` number the pieces built since the last flush.
Quiet ==
  [at |-> "header", coming |-> <<>>, socket |-> 0, chunk |-> 0, buffered |-> 0, left |-> 0,
   read |-> FALSE, write |-> FALSE, borrow |-> "none", owes |-> FALSE, streamed |-> FALSE,
   queued |-> <<>>, spare |-> <<>>]

\* A flow that is over: nothing counts but the buffers it has yet to give back.
Closing(w) == [Quiet EXCEPT !.at = "closing", !.read = w.read, !.write = w.write]

WireTypeOK ==
  /\ outstanding \in 0..MaxOutstanding /\ free \in Nat
  /\ \A f \in Flow :
       /\ flow[f].at \in Stages /\ flow[f].borrow \in Borrows
       /\ flow[f].socket \in Nat /\ flow[f].buffered \in Nat /\ flow[f].chunk \in Nat

WireInit ==
  /\ outstanding = 0 /\ free = 0
  /\ flow = [f \in Flow |-> Quiet]

-----------------------------------------------------------------------------
(* The slab.                                                               *)

Slab == <<outstanding, free>>

Becomes(f, w) == flow' = [flow EXCEPT ![f] = w]

\* Whether a flow may take its next step: it is in no half of a borrow or return.
Free(w) == w.borrow = "none" /\ ~w.owes

\* Mistake: the slot is free before the buffer is on the list.
GiveBackCountFirst(half, grown) ==
  IF half = 1 THEN outstanding' = outstanding - 1 /\ UNCHANGED free
  ELSE free' = (IF grown THEN free ELSE free + 1) /\ UNCHANGED outstanding

\* `give_back`: the buffer onto the list, unless it has grown, then the slot.
GiveBack(half, grown) ==
  IF half = 1 THEN free' = (IF grown THEN free ELSE free + 1) /\ UNCHANGED outstanding
  ELSE outstanding' = outstanding - 1 /\ UNCHANGED free

\* The flow becomes `w`; if `gives`, a buffer it held is dropped in the same step.
Dropping(f, gives, w) ==
  \/ gives /\ Becomes(f, [w EXCEPT !.owes = TRUE]) /\ \E grown \in BOOLEAN : GiveBack(1, grown)
  \/ ~gives /\ Becomes(f, w) /\ UNCHANGED Slab

\* The second half of a return.
Settles(f) ==
  /\ flow[f].owes
  /\ Becomes(f, [flow[f] EXCEPT !.owes = FALSE])
  /\ GiveBack(2, FALSE)

\* `try_borrow` claims a slot before it looks for a buffer.
HasRoom == outstanding < MaxOutstanding

\* `borrow` finds a slot for the bytes on the stack; until it does it sleeps.
Claims(f) ==
  /\ flow[f].borrow = "wanting" /\ HasRoom
  /\ outstanding' = outstanding + 1
  /\ Becomes(f, [flow[f] EXCEPT !.borrow = "reading"])
  /\ UNCHANGED free

\* BUFFER_WAIT passes first: the session is refused.
BorrowTimesOut(f) ==
  /\ flow[f].borrow = "wanting" /\ ~HasRoom
  /\ Becomes(f, Closing(flow[f]))
  /\ UNCHANGED Slab

\* The slot's buffer: one from the list, or a new one if the list is empty.
TakesBuffer(f) ==
  LET w == flow[f]
  IN  /\ free' = (IF free = 0 THEN 0 ELSE free - 1) /\ UNCHANGED outstanding
      /\ \/ /\ w.borrow = "reading"
            /\ Becomes(f, [w EXCEPT !.borrow = "none", !.read = TRUE, !.buffered = w.chunk, !.chunk = 0])
         \/ /\ w.borrow = "writing"
            /\ Becomes(f, [w EXCEPT !.borrow = "none", !.write = TRUE])

-----------------------------------------------------------------------------
(* The read half of a wire.                                                *)

\* The peer sends a message.
PeerSends(f, body, streamed) ==
  /\ flow[f].at # "closing" /\ Len(flow[f].coming) < MaxComing
  /\ Becomes(f, [flow[f] EXCEPT !.coming = Append(@, [body |-> body, streamed |-> streamed]),
                                !.socket = @ + HeaderLen + body])
  /\ UNCHANGED Slab

\* Whether the stage the flow is in has run out of bytes.
Starved(w) ==
  \/ w.at = "header" /\ w.buffered < HeaderLen
  \/ w.at \in {"whole", "stream"} /\ w.buffered = 0 /\ w.left > 0

\* `take_body` starts with `reclaim`.
Reclaims(f) ==
  LET w == flow[f]
  IN  /\ Free(w) /\ Starved(w) /\ w.at # "header" /\ w.read
      /\ Dropping(f, TRUE, [w EXCEPT !.read = FALSE])

\* `fill` on a wire that holds nothing reads onto the stack, and then borrows.
FillsCold(f, n) ==
  LET w == flow[f]
  IN  /\ Free(w) /\ Starved(w) /\ ~w.read /\ n <= w.socket
      /\ Becomes(f, [w EXCEPT !.socket = @ - n, !.chunk = n, !.borrow = "wanting"])
      /\ UNCHANGED Slab

\* `fill_held`: straight into the buffer it has.
FillsHeld(f, n) ==
  LET w == flow[f]
  IN  /\ Free(w) /\ Starved(w) /\ w.at = "header" /\ w.read /\ n <= w.socket
      /\ Becomes(f, [w EXCEPT !.socket = @ - n, !.buffered = @ + n])
      /\ UNCHANGED Slab

\* Mistake: a cursor at the end of the buffer is left there.
ReclaimedNever(w) == FALSE

\* `reclaim`: a read buffer with nothing left in it goes back.
ReclaimedNow(w) == w.read /\ w.buffered = 0

\* The flow goes on as `w`, after a reclaim.
GoesOn(f, w) == Dropping(f, ReclaimedNow(w), IF ReclaimedNow(w) THEN [w EXCEPT !.read = FALSE] ELSE w)

\* `read_header` consumes a header.
ReadsHeader(f) ==
  LET w == flow[f]
      m == Head(w.coming)
  IN  /\ Free(w) /\ w.at = "header" /\ w.buffered >= HeaderLen /\ w.coming # <<>>
      /\ GoesOn(f, [w EXCEPT !.buffered = @ - HeaderLen, !.coming = Tail(@), !.left = m.body,
                             !.streamed = m.streamed,
                             !.at = IF m.streamed THEN "announce" ELSE IF m.body = 0 THEN "queue" ELSE "whole"])

\* `append_body` takes what has come, and reclaims when it has it all.
TakesBody(f) ==
  LET w == flow[f]
      n == IF w.left < w.buffered THEN w.left ELSE w.buffered
      after == [w EXCEPT !.buffered = @ - n, !.left = @ - n]
  IN  /\ Free(w) /\ w.at = "whole" /\ w.buffered > 0
      /\ IF after.left = 0 THEN GoesOn(f, [after EXCEPT !.at = "queue"])
         ELSE Becomes(f, after) /\ UNCHANGED Slab

\* `stream_body` takes a chunk and queues it: the buffer stays until the next call.
TakesChunk(f) ==
  LET w == flow[f]
      n == IF w.left < w.buffered THEN w.left ELSE w.buffered
  IN  /\ Free(w) /\ w.at = "stream" /\ w.buffered > 0
      /\ Becomes(f, [w EXCEPT !.buffered = @ - n, !.left = @ - n, !.at = "queue"])
      /\ UNCHANGED Slab

-----------------------------------------------------------------------------
(* The write half of the other wire.                                       *)

\* The number of the piece about to be queued.
Piece(w) == Len(w.queued) + Len(w.spare) + 1

\* Mistake: a buffer is asked for again although something has overflowed.
GoesToSpareIfFull(w) == ~w.write /\ ~HasRoom

\* `queue`: into the overflow once there is one, or if there is no buffer to be had.
GoesToSpare(w) == w.spare # <<>> \/ (~w.write /\ ~HasRoom)

\* Where a flow goes once a piece is queued.  A chunk is flushed at once; after
\* a whole message the pump may go on to the next one first.
AfterPiece(w) ==
  IF w.at = "announce" THEN {IF w.left > 0 THEN "stream" ELSE "flush"}
  ELSE IF w.streamed \/ Piece(w) >= MaxPieces THEN {"flush"}
  ELSE {"flush", "header"}

\* `queue` builds into the buffer it has or a borrowed one, or into the overflow.
Queues(f) ==
  LET w == flow[f]
  IN  /\ Free(w) /\ w.at \in {"announce", "queue"}
      /\ \E next \in AfterPiece(w) :
           \/ /\ GoesToSpare(w)
              /\ Becomes(f, [w EXCEPT !.spare = Append(@, Piece(w)), !.at = next])
              /\ UNCHANGED Slab
           \/ /\ ~GoesToSpare(w) /\ w.write
              /\ Becomes(f, [w EXCEPT !.queued = Append(@, Piece(w)), !.at = next])
              /\ UNCHANGED Slab
           \/ /\ ~GoesToSpare(w) /\ ~w.write
              /\ Becomes(f, [w EXCEPT !.queued = Append(@, Piece(w)), !.at = next, !.borrow = "writing"])
              /\ outstanding' = outstanding + 1 /\ UNCHANGED free

\* What `flush` writes, in the order it writes it.
Written(w) == w.queued \o w.spare

\* `flush`: everything goes out, and the write buffer goes back.
Flushes(f) ==
  LET w == flow[f]
  IN  /\ Free(w) /\ w.at = "flush"
      /\ Dropping(f, w.write, [w EXCEPT !.queued = <<>>, !.spare = <<>>, !.write = FALSE,
                                        !.at = IF w.left > 0 THEN "stream" ELSE "header"])

\* The peer goes, the socket fails, or a select! elsewhere ends the session while
\* it reads or waits for a buffer.
Cut(f) ==
  /\ flow[f].at # "closing" /\ flow[f].borrow \in {"none", "wanting"} /\ ~flow[f].owes
  /\ Becomes(f, Closing(flow[f]))
  /\ UNCHANGED Slab

\* Its wires are dropped, and each buffer with them; another session follows.
Closes(f) ==
  LET w == flow[f]
  IN  /\ Free(w) /\ w.at = "closing"
      /\ \/ w.read /\ Dropping(f, TRUE, [w EXCEPT !.read = FALSE])
         \/ ~w.read /\ w.write /\ Dropping(f, TRUE, [w EXCEPT !.write = FALSE])
         \/ ~w.read /\ ~w.write /\ Becomes(f, Quiet) /\ UNCHANGED Slab

WireNext ==
  \E f \in Flow :
    \/ \E body \in Bodies, streamed \in BOOLEAN : PeerSends(f, body, streamed)
    \/ \E n \in 1..FirstRead : FillsCold(f, n)
    \/ \E n \in 1..HeldRead : FillsHeld(f, n)
    \/ Claims(f) \/ BorrowTimesOut(f) \/ TakesBuffer(f) \/ Settles(f)
    \/ Reclaims(f) \/ ReadsHeader(f) \/ TakesBody(f) \/ TakesChunk(f)
    \/ Queues(f) \/ Flushes(f) \/ Cut(f) \/ Closes(f)

WireSpec == WireInit /\ [][WireNext]_wireVars

-----------------------------------------------------------------------------
(* What the slab and the wires promise.                                    *)

\* Flows whose read half holds a buffer, and whose write half does.
Readers == {f \in Flow : flow[f].read}
Writers == {f \in Flow : flow[f].write}

\* The buffers there are, in wires and on the free list, never number more than
\* the bound, though the count and the list move one after the other (buf.rs:60-88).
SlabIsBounded == free + Cardinality(Readers) + Cardinality(Writers) <= MaxOutstanding

\* What goes out goes out in the order it was queued, though some of it was
\* queued while the slab had nothing to lend and some while it had (shell.rs:507-520).
OutputInOrder ==
  \A f \in Flow : flow[f].at = "flush" =>
    Written(flow[f]) = [i \in 1..Len(Written(flow[f])) |-> i]

\* A wire waiting for its peer to speak.
Waiting(w) ==
  /\ w.at = "header" /\ w.buffered = 0 /\ w.socket = 0 /\ Free(w)
  /\ w.queued = <<>> /\ w.spare = <<>>

\* A session that waits for its peer, having answered, holds no buffer; only the
\* body of a message that was streamed may have left one behind (shell.rs:19-26).
QuietHoldsNothing ==
  \A f \in Flow : Waiting(flow[f]) /\ ~flow[f].streamed => ~flow[f].read /\ ~flow[f].write
=============================================================================
