SPECIFICATION Spec
VIEW Seen
CONSTANTS
  Node = {1, 2, 3}
  FleetSize = 3
  SuspectAfter = 2
  DeadAfter = 3
  TTL = 1
  ConfiguredWait = 1
  Cap = 1
  GuaranteedTotal = 0
  MaxWant = 2
  Busy = {1, 2}
  Topologies <- OneLinkDown
  Dwell = 3
  BeatEvery = 1
  HearEvery = 1
  PeerTimeout = 1
  MayCrash = {}
  MayDrain = {}
  LateRequests = FALSE
INVARIANTS
  CapRespected
