------------------------------- MODULE MCNode -------------------------------
(***************************************************************************)
(* The parts of one node for TLC: a connection pool, the front door, the   *)
(* login, the sharing of an allowance among pools, the replicas it         *)
(* watches, its buffers, and what it holds of a peer.  They share no       *)
(* state, so a behaviour runs one of them and leaves the others at rest.   *)
(***************************************************************************)
EXTENDS LivePool, FrontDoor, PoolShares, ReplicaSets, WireBuffers, Digests, Login, TLC

CONSTANT Parts      \* which of them a run looks at

VARIABLE running    \* which of them this behaviour runs

nodeVars == <<running, vars, frontVars, shareVars, replicaVars, wireVars, digestVars, loginVars>>

NodeInit ==
  /\ running \in Parts
  /\ Init /\ FrontInit /\ SharesInit /\ ReplicaInit /\ WireInit /\ DigestInit /\ LoginInit

NodeNext ==
  /\ UNCHANGED running
  /\ \/ running = "pool" /\ Next /\ UNCHANGED <<frontVars, shareVars, replicaVars, wireVars, digestVars, loginVars>>
     \/ running = "front" /\ FrontNext /\ UNCHANGED <<vars, shareVars, replicaVars, wireVars, digestVars, loginVars>>
     \/ running = "shares" /\ SharesNext /\ UNCHANGED <<vars, frontVars, replicaVars, wireVars, digestVars, loginVars>>
     \/ running = "replicas" /\ ReplicaNext /\ UNCHANGED <<vars, frontVars, shareVars, wireVars, digestVars, loginVars>>
     \/ running = "wires" /\ WireNext /\ UNCHANGED <<vars, frontVars, shareVars, replicaVars, digestVars, loginVars>>
     \/ running = "digests" /\ DigestNext /\ UNCHANGED <<vars, frontVars, shareVars, replicaVars, wireVars, loginVars>>
     \/ running = "login" /\ LoginNext /\ UNCHANGED <<vars, frontVars, shareVars, replicaVars, wireVars, digestVars>>

NodeSpec == NodeInit /\ [][NodeNext]_nodeVars

\* Visitors, and flows, are interchangeable: no action or property compares
\* them.  They go by the names of two of the pool's clients, so one swap serves
\* the three parts.
VisitorsAlike == Permutations(Visitors)

\* A document that drains the node and one that does not.  One client is admitted
\* at a time; the next may be let in while the last one's entry still stands.
DrainsAndServes == {[drain |-> FALSE, ceiling |-> 1], [drain |-> TRUE, ceiling |-> 1]}

\* One session reads from two replicas; another's grant names the second alone.
TwoGrants == "reader" :> {<<"a", "b">>} @@ "holder" :> {<<"b">>}

OneGrant == "reader" :> {<<"a", "b">>}

\* Every way a listener may be set up.
AnyListener == [posture : {"Required", "Optional", "Disabled"}, certificate : BOOLEAN, statics : BOOLEAN]
=============================================================================
