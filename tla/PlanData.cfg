\* A path ends at life expectancy.
SPECIFICATION DataSpec
CHECK_DEADLOCK FALSE
CONSTANTS
  GainRatio = 50
  MedicareAge = 5
  PovertyLevel = 4
  SubsidyCliff = 16
  IrmaaBounds = {18, 26}
  CeilingMargin = 1
  PenaltyAge = 4
  PenaltyRate = 50
  HsaPenaltyRate = 50
  SeasoningYears = 2
  CreditPercent = 10
  IrmaaStep = 2
  HsaLimit = 2
  K401Limit = 5
  IraLimit = 2
  Tolerance = 1
  ConversionLimit <- MCConversionLimit
  Tax <- MCTax
  TaxableIncome <- MCTaxableIncome
  PayrollTax <- MCPayrollTax
  Plans <- MCPlans
  Openings <- MCOpenings
  Growth = {50, 150}
  Episodes <- MCEpisodes
  LifeExpectancy = 7
  CareAge = 5
  ClaimAge = 4
  RmdAge = 6
  RmdDivisor = 4
  ShortfallPasses = 12
  ReportedCare = {0, 3, 100}
  Annualizing = {1, 2}
\* An amount far beyond the wages, a lifetime shorter than the axis.
  Ages = {40}
  Lifetimes = {70, 85}
  Wages = {0, 140}
  Multipliers = {80}
  Stops = {}
  StoredSpendings = {310}
  StoredRetirementAges = {76}
  Absent = Absent
  alice = alice
  bob = bob
  Users = {alice, bob}
  Ids = {401, 402}
  Texts = {"a", "b"}
  Blank = "blank"
  Typed = {0, 5, 9}
  Legal = {4, 5}
  MaxOpens = 4
  MaxCalls = 2
  LastDay = 3
  ThisYear = 2030
  ThisDay = 2
  DefaultAge = 30
  LegacyAge = 35
  DefaultSpending = 60
  DefaultPremium = 12
  MaxMultiplier = 1000
  LegacyPayloads <- MCPayloads
  Edits <- MCEdits
  NoUser = NoUser
  NewId = NewId
  Gone = Gone
INVARIANTS CashReconciles RuinMeansEmpty CliffNotCrossed LedgersExact ReportsAgree LeversHold EditsLandWhereTyped ReloadKeepsPlan
