\* A path ends at life expectancy.
SPECIFICATION Spec
CHECK_DEADLOCK FALSE
CONSTANTS
  GainRatio = 50
  MedicareAge = 5
  PovertyLevel = 4
  SubsidyCliff = 16
  IrmaaBounds = {18, 26}
  CeilingMargin = 1
  PenaltyAge = 4
  PenaltyRate = 50
  HsaPenaltyRate = 50
  SeasoningYears = 2
  CreditPercent = 10
  IrmaaStep = 2
  HsaLimit = 2
  K401Limit = 5
  IraLimit = 2
  Tolerance = 1
  ConversionLimit <- MCConversionLimit
  Tax <- MCTax
  TaxableIncome <- MCTaxableIncome
  PayrollTax <- MCPayrollTax
  Plans <- MCPlans
  Openings <- MCOpenings
  Growth = {50, 150}
  Episodes <- MCEpisodes
  LifeExpectancy = 7
  CareAge = 5
  ClaimAge = 4
  RmdAge = 6
  RmdDivisor = 4
  ShortfallPasses = 12
  ReportedCare = {0, 3, 100}
  Annualizing = {1, 2}
INVARIANT PreviewHonoured
