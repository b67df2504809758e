CONSTANTS
  b1 = b1
  ann = ann
  bob = bob
  ann1 = ann1
  ann2 = ann2
  bob1 = bob1
  guest1 = guest1
  Anonymous = guest
  Browsers = {b1}
  BrowserOf <- OneBrowser
  Author <- AuthorOf
  Tabs = {t1}
  Users = {ann}
  Edits = {ann1}
  MaxGeneration = 3
  MaxFaults = 0
  MaxAccountOps = 1
  InitialSchemas = {"older","unusable"}
  InitialLocal = {"absent","unreadable"}
  StorageOutcomes = {TRUE,FALSE}
SPECIFICATION Spec
CHECK_DEADLOCK FALSE
INVARIANTS LocalStaysLocal CloudAllOrNothing
