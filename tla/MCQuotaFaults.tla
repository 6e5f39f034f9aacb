---------------------------- MODULE MCQuotaFaults ---------------------------
(***************************************************************************)
(* QuotaCluster for TLC under two faults, one to a behaviour: the leader   *)
(* crashes and restarts in a whole fleet, with requests that outlive their *)
(* asker; or it is drained and undrained in a fleet whose ends never reach *)
(* each other.                                                             *)
(***************************************************************************)
EXTENDS MCQuotaCluster

WholeOrLine == Whole \cup Line

\* Which fault a behaviour meets goes by the links it started with.
OneFault ==
  /\ links' = links
  /\ links = Mesh => mode' = mode
  /\ links # Mesh => up' = up /\ late' = {}
=============================================================================
