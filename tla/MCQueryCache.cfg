SPECIFICATION QueryCacheSpec
SYMMETRY SessionsAlike
CONSTANTS
  Sessions = {s1, s2}
  Conns = {c1}
  Names = {"", "a"}
  Sqls = {"r", "w", "d"}
  Cacheable = {"r"}
  Discards = {"d"}
  Scripts <- OneStatement
  FailAt = {"Execute"}
  Cap = 1
  CacheKeys = {"k1", "k2", "k3"}
  Tenants = {"t1", "t2"}
  TenantOf <- ThreeKeys
  Sizes = {1, 2}
  CacheConfigs <- CacheGrowsAndShrinks
  Puts = 1
INVARIANTS
  
  RecordMatchesServer
  NothingLeftOver
  PumpIsFed
  StoreIsConsistent
  SettingsHold
PROPERTY
  ImplementsLru
