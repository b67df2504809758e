SPECIFICATION SignupSpec
CONSTANTS
  InviteLimit = 2
  MaxSignups = 1
  MaxCalls = 3
  MaxFaults = 0
INVARIANT RetryPossible
CHECK_DEADLOCK FALSE
