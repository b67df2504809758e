CONSTANTS
  b1 = b1
  ann = ann
  bob = bob
  ann1 = ann1
  ann2 = ann2
  bob1 = bob1
  guest1 = guest1
  Anonymous = guest
  Browsers = {b1}
  BrowserOf <- OneBrowser
  Author <- AuthorOf
  Tabs = {t1,t2}
  Users = {ann}
  Edits = {ann1,ann2}
  MaxGeneration = 2
  MaxFaults = 1
  MaxAccountOps = 0
  InitialSchemas = {"absent"}
  InitialLocal = {"absent"}
  StorageOutcomes = {TRUE}
SPECIFICATION Spec
CHECK_DEADLOCK FALSE
INVARIANTS RevisionInv CleanMeansSaved
PROPERTY NoSavedEditLost
