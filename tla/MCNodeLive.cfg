SPECIFICATION LiveSpec
CONSTANTS
  Client = {c1, c2, c3}
  Conn = {k1}
  NoConn = none
  MaxSize = 1
  Limits = {1}
  Visitors = {v1}
  Documents <- DrainsAndServes
  DrainTtl = 1
  Grace = 1
  IdleThreshold = 1
  IdleTimeout = 1
  MaxSheds = 0
  Pools = {1, 2}
  PoolMax = 2
  Entitlements = {1}
  Undeclared = TRUE
  MaxWaiting = 1
  Reader = {"reader", "holder"}
  Host = {"a", "b"}
  Grants <- TwoGrants
  Busy = {"reader"}
  Hung = {}
  MaxWal = 1
  Flow = {c1, c2}
  MaxOutstanding = 1
  Bodies = {1}
  FirstRead = 3
  HeldRead = 1
  MaxComing = 1
  MaxPieces = 2
  MaxRun = 1
  MaxSent = 2
  Guests = {g1}
  Listeners <- AnyListener
  MaxHellos = 3
  MaxNow = 1
  Parts = {"pool", "front"}
  MayStop = TRUE
PROPERTIES
  RoomReachesWaiters
  SignalsFollowTheMode
  EveryoneLeavesADrain
