SPECIFICATION ProxySpec
CONSTANTS
  ProxyRequests = {1, 2}
  Addresses = {"203.0.113.9", "198.51.100.7"}
  Claimed = "198.51.100.7"
  ProxyLimit = 1
INVARIANTS RotationInEitherOrder
CHECK_DEADLOCK FALSE
