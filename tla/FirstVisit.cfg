SPECIFICATION PayloadSpec
CONSTANTS
  Absent = Absent
  LastDay = 3
  ThisYear = 2030
  ThisDay = 2
  DefaultAge = 30
  LegacyAge = 35
  DefaultSpending = 60
  DefaultPremium = 12
  MaxMultiplier = 1000
  LegacyPayloads = {}
  Edits = {}
INVARIANT FirstVisitKept
