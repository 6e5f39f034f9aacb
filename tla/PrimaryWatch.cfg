SPECIFICATION FairWatchSpec
CONSTANTS
  Caller = {c1, c2}
  Key = {k1}
  Server = {s1, s2}
  NoOne = none
  Capacity = 1
  MaxTTL = 1
  NegativeTTL = 1
  SweepInterval = 1
  LongestTTL = 1
  MaxFailovers = 1
INVARIANTS ClaimsAreOwned OverridesNameThePrimary
PROPERTIES  FollowersWake SessionsFollowThePrimary
