SPECIFICATION OriginSpec
CONSTANTS
  headline = headline
  sweep = sweep
  batch = batch
  Requests <- MCRequests
  Mode <- MCMode
  Paths <- MCPaths
  Success <- MCSuccess
  Unprepared <- MCUnprepared
  Panicking <- MCPanicking
  MaxConcurrentSimulations = 2
  Identifiers = {"a", "b", "c"}
  Namespaces = {"simulate", "probe"}
  NamespaceOf <- MCNamespaceOf
  MaxStoreEntries = 2
  limit = 2
  windowMs = 2
  Costs = {1}
  Horizon = 3
  Owners = {"ann", "bob"}
  DataRequests = {"r1", "r2"}
  Seeds = {"s"}
  OwnerOf <- MCOwnerOf
  Isolates = {"isolate"}
  IsolateOf <- MCIsolateOf
  Jobs = {"j1", "j2"}
  MaxAccounts = 2
INVARIANTS ComputeBounded ReplyExact LimiterExact SchemaSound
PROPERTIES GoneBeginsNothing QueuedServed AccountsAtomic ConnectionsReturned
CHECK_DEADLOCK FALSE
