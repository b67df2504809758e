CONSTANTS
  b1 = b1
  ann = ann
  bob = bob
  ann1 = ann1
  ann2 = ann2
  bob1 = bob1
  guest1 = guest1
  Anonymous = guest
  Browsers = {b1}
  BrowserOf <- OneBrowser
  Author <- AuthorOf
  Tabs = {t1}
  Users = {ann,bob}
  Edits = {ann1,bob1,guest1}
  MaxGeneration = 3
  MaxFaults = 1
  MaxAccountOps = 1
  InitialSchemas = {"absent"}
  InitialLocal = {"absent"}
  StorageOutcomes = {TRUE}
SPECIFICATION FairSpec
CHECK_DEADLOCK FALSE
INVARIANTS OwnerIsolation LocalDurable
PROPERTIES EditReachesCloud EventuallyUsable
