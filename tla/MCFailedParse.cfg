SPECIFICATION QueryCacheSpec
CONSTANTS
  Sessions = {s1}
  Conns = {c1}
  Names = {"", "a"}
  Sqls = {"r", "w"}
  Cacheable = {"r"}
  Discards = {}
  Scripts <- OneStatement
  FailAt = {"Parse"}
  Cap = 1
  CacheKeys = {"k1"}
  Tenants = {"t1", "t2"}
  TenantOf <- ThreeKeys
  Sizes = {1}
  CacheConfigs <- CacheGrowsAndShrinks
  Puts = 1
INVARIANT RecordMatchesServer
