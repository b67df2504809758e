SPECIFICATION EdgeSpec
CONSTANTS
  alice = alice
  r1 = r1
  r2 = r2
  Requests = {r1, r2}
  Uids = {alice}
  Who <- MCWho
  Paths <- MCPaths
  Keys <- MCKeys
  RequestLimit = 2
  PathLimit = 3
  Limit <- MCLimit
  windowMs = 2
  MembershipTtl = 1
  MaxLookup = 1
  Timeout = 1
  Unsettled = {alice}
  Horizon = 2
  Calls = {1, 2}
  Isolates = {"a", "b"}
  Origin = "origin"
  Placements <- MCPlacements
  LastKey = 2
  Lifetime = 3
  CacheLifetime = 2
  Spread = 1
  Margin = 1
  MaxTime = 3
  MaxFaults = 1
  ProxyRequests = {1, 2}
  Addresses = {"203.0.113.9", "198.51.100.7"}
  Claimed = "198.51.100.7"
  ProxyLimit = 1
INVARIANTS Budgeted MembershipTimely TokensRight BoundaryKept
PROPERTIES RequestsEnd
CHECK_DEADLOCK FALSE
