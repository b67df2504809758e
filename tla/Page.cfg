SPECIFICATION PageSpec
CONSTANTS
  MaxInvalidations = 2
  MaxBootstraps = 1
  Cores = {1, 3, 6}
  PathCounts = {2, 5}
  MaxWorkers = 3
  MaxSignals = 3
  MaxFailures = 1
  InviteLimit = 1
  MaxSignups = 2
  MaxCalls = 4
  MaxFaults = 1
  Window = 2
  MaxTime = 7
  MaxBuilds = 4
INVARIANTS HeadlineSafe CurvesFresh EveryPathOnce SignupSafe NoSpin
PROPERTIES Promise PendingSettles RunsSettle SignupSettles RecoversAlone
\* Plans stop being edited, sign-ups end and deploys stop.
CHECK_DEADLOCK FALSE
