---------------------------- MODULE PrimaryWatch ----------------------------
(***************************************************************************)
(* The watch on a primary's own demotion (bin/pgprox/src/primary_watch.rs) *)
(* together with the grant cache it invalidates and the sessions it        *)
(* redirects (bin/pgprox/src/replicas.rs, backend_for).                    *)
(*                                                                         *)
(* `primary` is both the server that takes writes and the one the sidecar  *)
(* would name: the control plane knows of a failover at once.              *)
(***************************************************************************)
EXTENDS GrantCache

CONSTANT MaxFailovers  \* bound on the failovers of one behaviour

ASSUME WatchAssumption == MaxFailovers \in Nat /\ {"asked", "failed"} \cap (Server \cup {NoOne}) = {}

VARIABLES
  watched,     \* PrimaryWatches::watched, its keys
  demoted,     \* the flag of each watch, never cleared
  refreshing,  \* each watch's refresh: none, asked, the answer on its way, or failed
  overrides,   \* PrimaryWatches::overrides
  failovers    \* how often the database has failed over

watch == <<watched, demoted, refreshing, overrides>>
watchVars == <<vars, watched, demoted, refreshing, overrides, failovers>>

WatchTypeOK ==
  /\ failovers \in 0..MaxFailovers
  /\ watched \subseteq Server /\ demoted \subseteq watched
  /\ refreshing \in [Server -> Server \cup {NoOne, "asked", "failed"}]
  /\ overrides \in [Server -> Server \cup {NoOne}]

WatchInit ==
  /\ Init /\ failovers = 0 /\ watched = {} /\ demoted = {}
  /\ refreshing = [s \in Server |-> NoOne] /\ overrides = [s \in Server |-> NoOne]

\* `backend_for` the primary: where session c's next transaction goes.
Backend(c) ==
  LET named == answer[c].verdict
  IN  IF overrides[named] # NoOne THEN overrides[named] ELSE named

\* `ensure_watched`, as a session starts.
EnsureWatched(c) ==
  /\ pc[c] = "granted" /\ answer[c].verdict \notin watched
  /\ watched' = watched \cup {answer[c].verdict}
  /\ UNCHANGED <<vars, demoted, refreshing, overrides, failovers>>

\* Mistake: a probe that failed taken for one that found s in recovery.
PollTrustingFailures(s) ==
  /\ s \in watched \ demoted
  /\ demoted' = demoted \cup {s}
  /\ InvalidatePrimary(s)
  /\ refreshing' = [refreshing EXCEPT ![s] = "asked"]
  /\ UNCHANGED <<watched, overrides, failovers>>

\* A probe that finds s in recovery, and `handle`: once per watch, for good.
\* Every other poll changes nothing.
Poll(s) ==
  /\ s \in watched \ demoted /\ s # primary
  /\ demoted' = demoted \cup {s}
  /\ InvalidatePrimary(s)
  /\ refreshing' = [refreshing EXCEPT ![s] = "asked"]
  /\ UNCHANGED <<watched, overrides, failovers>>

\* The sidecar answers `refresh_topology`.
SidecarRefreshes(s) ==
  /\ refreshing[s] = "asked"
  /\ refreshing' = [refreshing EXCEPT ![s] = primary]
  /\ UNCHANGED <<vars, watched, demoted, overrides, failovers>>

\* Mistake: the correction filed under the server it names.
RefreshUnderNewName(s) ==
  /\ refreshing[s] \in Server
  /\ overrides' = [overrides EXCEPT ![refreshing[s]] = refreshing[s]]
  /\ refreshing' = [refreshing EXCEPT ![s] = NoOne]
  /\ UNCHANGED <<vars, watched, demoted, failovers>>

\* `refresh` with a usable answer: kept under the original primary.
Refresh(s) ==
  /\ refreshing[s] \in Server
  /\ overrides' = [overrides EXCEPT ![s] = refreshing[s]]
  /\ refreshing' = [refreshing EXCEPT ![s] = NoOne]
  /\ UNCHANGED <<vars, watched, demoted, failovers>>

\* `refresh` without one: the only attempt is spent.
RefreshFails(s) ==
  /\ refreshing[s] \notin {NoOne, "failed"}
  /\ refreshing' = [refreshing EXCEPT ![s] = "failed"]
  /\ UNCHANGED <<vars, watched, demoted, overrides, failovers>>

WatchNext ==
  \/ \E c \in Caller : (Resolve(c) /\ UNCHANGED <<watch, failovers>>) \/ EnsureWatched(c)
  \/ \E s \in Server :
       \/ Poll(s) \/ SidecarRefreshes(s) \/ Refresh(s) \/ RefreshFails(s)
       \/ failovers < MaxFailovers /\ failovers' = failovers + 1 /\ Failover(s) /\ UNCHANGED watch
  \/ Tick /\ UNCHANGED <<watch, failovers>>

WatchSpec == WatchInit /\ [][WatchNext]_watchVars

\* Polls recur, calls end and tasks run.
FairWatchSpec ==
  /\ WatchSpec
  /\ \A s \in Server : WF_watchVars(Poll(s)) /\ WF_watchVars(SidecarRefreshes(s)) /\ WF_watchVars(Refresh(s))
  /\ \A c \in Caller : WF_watchVars(EnsureWatched(c)) /\ WF_watchVars(Progress(c) /\ UNCHANGED <<watch, failovers>>)

-----------------------------------------------------------------------------
(* Properties.                                                             *)

\* Until the database fails over a second time, no correction is out of date:
\* a refresh is asked for only once the server is seen in recovery, so its
\* answer, however late, names the server that took over.
OverridesNameThePrimary ==
  failovers <= 1 => \A s \in Server : overrides[s] \in {NoOne, primary}

\* A session that a failover left behind is redirected to the primary or ends,
\* unless the one refresh that follows the demotion of its server fails:
\* `refresh` corrects every session already using the demoted server.
SessionsFollowThePrimary ==
  \A c \in Caller :
    (pc[c] = "granted" /\ Backend(c) # primary)
      ~> (pc[c] # "granted" \/ Backend(c) = primary \/ refreshing[answer[c].verdict] = "failed")
=============================================================================
