------------------------------ MODULE Reports -------------------------------
(* What two screens make of the numbers the engine works with: the cash-flow *)
(* chart of a projected year, and the profile page's preview of the first    *)
(* retirement year's healthcare premium, which the browser computes itself.  *)
EXTENDS Projection

CONSTANTS
  ReportedCare,   \* care costs an engine may report for a year
  Annualizing     \* multipliers a partial first year is drawn with

ASSUME ReportAssumption ==
  ReportedCare \subseteq Nat /\ Annualizing \subseteq Nat \ {0}

(* The marketplace cliff lies below the first surcharge: four times the      *)
(* poverty level of one or two persons, 109,000 or 218,000 dollars of MAGI   *)
(* (healthcare_premiums.rs 16-17, 71, 109, 127).                             *)
ASSUME TierAssumption ==
  IrmaaBounds # {} /\ \A b \in IrmaaBounds : SubsidyCliff + CeilingMargin < b

-----------------------------------------------------------------------------
(* The chart. A partial first year is drawn as if it were a whole one.       *)

annualize(r, k) ==
  [r EXCEPT !.income = @ * k, !.spending = @ * k, !.taxes = @ * k, !.savings = @ * k,
            !.w = [taxable |-> @.taxable * k, traditional |-> @.traditional * k,
                   roth |-> @.roth * k, hsa |-> @.hsa * k]]

(* Money withdrawn and paid back is an account transfer, not an inflow. It   *)
(* is taken off the traditional withdrawal first, where a required           *)
(* distribution comes from.                                                  *)
netWithdrawals(r) ==
  LET reinvested == Positive(TotalOf(r.w) - Positive(-r.savings))
      Net(withdrawn, before) == Positive(withdrawn - Positive(reinvested - before))
  IN  [traditional |-> Net(r.w.traditional, 0),
       taxable |-> Net(r.w.taxable, r.w.traditional),
       roth |-> Net(r.w.roth, r.w.traditional + r.w.taxable),
       hsa |-> Net(r.w.hsa, r.w.traditional + r.w.taxable + r.w.roth)]

(* Care is drawn as part of spending, never as more than was spent.          *)
toCashFlowRow(r, k, reported) ==
  LET year == annualize(r, k)
      funded == Lesser(reported, Positive(year.spending))
  IN  [salary |-> IF r.retired THEN 0 ELSE year.income,
       benefit |-> IF r.retired THEN year.income ELSE 0,
       drawn |-> netWithdrawals(year), care |-> funded,
       living |-> year.spending - funded, tax |-> year.taxes]

MoneyIn(bar) == bar.salary + bar.benefit + TotalOf(bar.drawn)
MoneyOut(bar) == bar.living + bar.care + bar.tax

-----------------------------------------------------------------------------
(* The preview: the figures the profile page shows are those of the plan,    *)
(* taken here at the moment its first retirement year is priced.             *)

(* A bug: the gain that the taxable withdrawal realizes is left out.         *)
estimatedFirstRetirementYearMagi_NoGain(p, a, planned, age) ==
  LET taxable == Lesser(planned, a.balance.taxable)
      ceiling == IF age + 1 < MedicareAge THEN SubsidyCliff ELSE Least(IrmaaBounds)
      open == IF p.magiAware THEN Positive(ceiling - CeilingMargin) ELSE planned
  IN  Lesser(Lesser(planned - taxable, a.balance.traditional), open)

(* Traditional stops at the headroom, whatever the other buckets hold.       *)
estimatedFirstRetirementYearMagi(p, a, planned, age) ==
  LET taxable == Lesser(planned, a.balance.taxable)
      gain == Share(taxable, GainRatio)
      ceiling == IF age + 1 < MedicareAge THEN SubsidyCliff ELSE Least(IrmaaBounds)
      open == IF p.magiAware THEN Positive(ceiling - CeilingMargin - gain) ELSE planned
  IN  gain + Lesser(Lesser(planned - taxable, a.balance.traditional), open)

(* expectedPremiumContribution pays no credit outside its range of incomes.  *)
incomeTestedPremium(list, onMedicare, income) ==
  IF ~onMedicare /\ income \in PovertyLevel..SubsidyCliff
  THEN Lesser(list, Share(income, CreditPercent)) ELSE list

(* NotTested: no prior year is there to take an income from.                 *)
NotTested == -1

healthcareCostFor(p, age, income) ==
  LET onMedicare == age >= MedicareAge
      list == IF onMedicare THEN p.medicarePremium ELSE p.preMedicarePremium
  IN  p.outOfPocket + (IF income = NotTested THEN list
                       ELSE incomeTestedPremium(list, onMedicare, income))

(* A household that has retired already is shown the list premium.           *)
firstYearHealthcare(p, a) ==
  LET age == Greater(p.start, p.retire)
  IN  healthcareCostFor(p, age,
        IF p.start >= p.retire THEN NotTested
        ELSE estimatedFirstRetirementYearMagi(p, a, p.living + p.outOfPocket, age))

-----------------------------------------------------------------------------

(* The stacks of a year's chart meet: money in is money out, but for what a  *)
(* working year saves, to the tolerance of the year's own searches; and no   *)
(* band is drawn with a negative height or above what was withdrawn          *)
(* (cash-flow-data.ts 26-33, "an account transfer"; 76-81).                  *)
ChartReconciles ==
  Closed =>
    \A k \in Annualizing, reported \in ReportedCare :
      LET bar == toCashFlowRow(row, k, reported)
      IN  /\ MoneyIn(bar) - MoneyOut(bar) - Positive(row.savings * k)
               \in -Tolerance * k..Tolerance * k
          /\ \A type \in AccountType : bar.drawn[type] \in 0..row.w[type] * k
          /\ bar.living >= 0

(* The first retirement year is about to be priced, before Medicare or with  *)
(* no history to surcharge, after a year of wages and no other income.       *)
FirstPriced ==
  /\ phase = "begin" /\ Age = Greater(plan.start, plan.retire)
  /\ Year > 0 => /\ magi[Year].total = magi[Year].wages /\ magi[Year].wages > 0
                 /\ Age < MedicareAge
  /\ Benefit = 0 /\ CareCost = 0
  /\ "taxable" \notin accounts.cash

EngineCost == plan.outOfPocket + Premium(plan, magi, plan.living + plan.outOfPocket, 0, accounts, Age)

(* The comment on the preview (profile.tsx:72-74): the preview prices the    *)
(* first retirement year on the estimate the engine uses, otherwise it       *)
(* promises a premium the projection will not charge.                        *)
PreviewHonoured == FirstPriced => firstYearHealthcare(plan, accounts) = EngineCost

(* The same, of the households whose Roth can pay what the ceiling keeps out *)
(* of traditional: the two implementations, in two languages, of the order   *)
(* of withdrawals, the ceiling and the credit agree to the dollar            *)
(* (healthcare.ts 95-108, "Mirrors estimated_retirement_magi").              *)
PreviewWithRoth ==
  FirstPriced /\ accounts.balance.roth + accounts.balance.taxable >= plan.living + plan.outOfPocket
    => firstYearHealthcare(plan, accounts) = EngineCost

(* The browser's chart and premium preview agree with the engine's years      *)
(* (cash-flow-data.ts, healthcare.ts).                                       *)
ReportsAgree == ChartReconciles /\ PreviewWithRoth
=============================================================================
