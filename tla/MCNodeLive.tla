----------------------------- MODULE MCNodeLive -----------------------------
(***************************************************************************)
(* What must eventually happen on a node, for TLC: the pool, the front     *)
(* door and the poll loops under the fairness of the runtime's scheduler.  *)
(***************************************************************************)
EXTENDS MCNode

\* Fairness and FrontFairness, for the part that runs.
PoolRuns(A) == running = "pool" /\ A
FrontRuns(A) == running = "front" /\ A

LiveSpec ==
  /\ NodeSpec
  /\ WF_vars(PoolRuns(RingForLimit)) /\ \A c \in Client : WF_vars(PoolRuns(Progress(c)))
  /\ WF_frontVars(FrontRuns(TickerStep)) /\ WF_frontVars(FrontRuns(Clock))
  /\ \A v \in Visitors :
       /\ WF_frontVars(FrontRuns(Answered(v))) /\ WF_frontVars(FrontRuns(Leaves(v)))
       /\ SF_frontVars(FrontRuns(IsToldToGo(v)))

\* A poll loop ticks, and a probe of a host that is not hung ends.
StallSpec ==
  /\ NodeSpec
  /\ \A k \in Lists : WF_replicaVars(LoopTicks(k))
  /\ \A k \in Lists : \A i \in {j \in DOMAIN k : k[j] \notin Hung} : WF_replicaVars(ProbeEnds(k, i))
=============================================================================
