SPECIFICATION NodeSpec
SYMMETRY VisitorsAlike
CONSTANTS
  Client = {c1, c2, c3}
  Conn = {k1, k2}
  NoConn = none
  MaxSize = 2
  Limits = {0, 3}
  Visitors = {c1, c2}
  Documents <- DrainsAndServes
  DrainTtl = 1
  Grace = 1
  IdleThreshold = 1
  IdleTimeout = 1
  MaxSheds = 1
  Pools = {1, 2}
  PoolMax = 1
  Entitlements = {1, 2}
  Undeclared = TRUE
  MaxWaiting = 1
  Reader = {"reader", "holder"}
  Host = {"a", "b"}
  Grants <- TwoGrants
  Busy = {"reader"}
  Hung = {}
  MaxWal = 1
  Flow = {c1, c2}
  MaxOutstanding = 1
  Bodies = {1}
  FirstRead = 3
  HeldRead = 1
  MaxComing = 1
  MaxPieces = 2
  MaxRun = 1
  MaxSent = 2
  Guests = {g1}
  Listeners <- AnyListener
  MaxHellos = 3
  MaxNow = 1
  Parts = {"pool", "front", "shares", "replicas", "wires", "digests", "login"}
  MayStop = FALSE
INVARIANTS
  SlotsAccountedFor
  NoLostWakeup
  GateCountsTheAdmitted
  
  PeersHearFirst
  LimitsFitTheAllowance
  ReadsWhatWasMeasured
  SlabIsBounded
  OutputInOrder
  QuietHoldsNothing
  StoreTracksThePeer
  
PROPERTIES
  OverLimitOnlyShrinks
  OldNewsChangesNothing
