------------------------------ MODULE LruCache ------------------------------
(***************************************************************************)
(* What a cache bounded by bytes promises: the keys it holds stand in the  *)
(* order they were last used, and room is made at the old end of it only.  *)
(***************************************************************************)
EXTENDS Naturals, Sequences, SequencesExt, FiniteSetsExt

CONSTANTS LruKeys, LruSizes, LruBudgets

VARIABLES
    recency,   \* the keys held, least recently used first
    weight,    \* what each of them costs
    answered   \* the key the last step was answered from, or "none"

lruVars == <<recency, weight, answered>>

Without(seq, S) == SelectSeq(seq, LAMBDA k : k \notin S)

TotalWeight(seq, w) == FoldLeft(LAMBDA sum, k : sum + w[k], 0, seq)

LruInit == recency = <<>> /\ weight = [k \in LruKeys |-> 0] /\ answered = "none"

\* Room is made for `grown` in `budget`: the fewest keys leave, oldest first.
LruFit(grown, sized, budget) ==
    LET left(n) == SubSeq(grown, n + 1, Len(grown))
    IN  \E n \in 0..Len(grown) :
          /\ TotalWeight(left(n), sized) <= budget
          /\ \A m \in 0..(n-1) : TotalWeight(left(m), sized) > budget
          /\ recency' = left(n)
          /\ weight' = [k \in LruKeys |-> IF Contains(left(n), k) THEN sized[k] ELSE 0]
          /\ answered' = "none"

LruTouch(k) ==
    /\ Contains(recency, k)
    /\ recency' = Append(Without(recency, {k}), k)
    /\ weight' = weight /\ answered' = k

\* Keys leave for a reason of their own (they expired, their tenant wrote or
\* is no longer served), and what is left is made to fit.
LruDrop(S, budget) == LruFit(Without(recency, S), weight, budget)

LruInsert(k, size, budget) ==
    LruFit(Append(Without(recency, {k}), k), [weight EXCEPT ![k] = size], budget)

\* Most of what a cache does moves nothing.
LruRests == UNCHANGED <<recency, weight>> /\ answered' = "none"

LruNext ==
    \/ LruRests
    \/ \E k \in LruKeys : LruTouch(k)
    \/ \E S \in SUBSET LruKeys, b \in LruBudgets : LruDrop(S, b)
    \/ \E k \in LruKeys, size \in LruSizes, b \in LruBudgets : LruInsert(k, size, b)

LruSpec == LruInit /\ [][LruNext]_lruVars
=============================================================================
