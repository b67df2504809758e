----------------------------- MODULE Projection -----------------------------
(* One Monte Carlo path of the engine: project_scenario_internal_prepared of *)
(* simulation/projection.rs, from the as-of date through life expectancy.    *)
(* The market's return of a year, the care episode and the plan are chosen   *)
(* freely. A year is begun (basis, forced distribution, prices, market),     *)
(* funded, and closed (contributions or conversion, report).                 *)
EXTENDS YearRules

CONSTANTS
  Plans,           \* the plans a path may be run for
  Openings,        \* the accounts a plan may start with
  Growth,          \* percent of its balance an invested bucket has after a year
  Episodes,        \* care episodes: halves (years of care, times two) and cost
  LifeExpectancy,
  CareAge,         \* LTC_OBSERVATION_AGE
  ClaimAge,        \* Social Security claim age
  RmdAge,          \* get_rmd_start_age of the cohort
  RmdDivisor,      \* the distribution factor
  ShortfallPasses  \* SHORTFALL_PASSES

PlanType ==
  [start : Nat, retire : Nat, salary : Nat, spending : Nat, living : Nat, benefit : Nat,
   preMedicarePremium : Nat, medicarePremium : Nat, outOfPocket : Nat,
   magiAware : BOOLEAN, hsaEligible : BOOLEAN, backdoorRoth : BOOLEAN,
   conversion : {"off", "bracket", "irmaaTier"}, care : BOOLEAN]

ASSUME ProjectionAssumption ==
  /\ Plans \subseteq PlanType /\ \A p \in Plans : p.start <= LifeExpectancy
  /\ Openings \subseteq {a \in Accounts : a.cash = {}}
  /\ Growth \subseteq Nat
  /\ Episodes \subseteq [halves : Nat \ {0}, cost : Nat]
  /\ LifeExpectancy \in Nat /\ CareAge \in Nat /\ ClaimAge \in Nat /\ RmdAge \in Nat
  /\ RmdDivisor \in Nat \ {0} /\ ShortfallPasses \in Nat

(* The installments of an episode are whole dollars, as is every amount.     *)
ASSUME InstallmentAssumption ==
  \A p \in Plans, e \in Episodes :
    LET duration == Lesser(e.halves, 2 * (LifeExpectancy - Greater(p.start, CareAge)))
    IN  duration > 0 => e.cost % duration = 0

VARIABLES
  plan, phase,
  accounts,   \* the buckets
  basis,      \* RothBasisState
  allowance,  \* hsa_qualified_allowance
  magi,       \* magi_by_year
  care,       \* the long-term care episode: observed or not, and what was billed
  now,        \* the year in progress
  row,        \* the last year reported
  success

vars == <<plan, phase, accounts, basis, allowance, magi, care, now, row, success>>

-----------------------------------------------------------------------------

Year == Len(magi)
Age == plan.start + Year
Years == LifeExpectancy - plan.start + 1
Retired == Age >= plan.retire

(* Nothing of the year is settled yet. invested is what the buckets hold     *)
(* after the market's return, before any flow.                               *)
Fresh == [rmd |-> 0, benefit |-> 0, target |-> 0, w |-> Nothing, penalties |-> 0, gains |-> 0,
          pass |-> 0, taxes |-> 0, surplus |-> 0, short |-> FALSE, invested |-> 0]

NoEpisode == [halves |-> 0, cost |-> 0]
NoRow == [age |-> 0, retired |-> FALSE, income |-> 0, spending |-> 0, taxes |-> 0, w |-> Nothing,
          deposits |-> Nothing, savings |-> 0, forced |-> 0, gross |-> 0, converted |-> 0,
          short |-> FALSE, invested |-> 0]

Init ==
  /\ plan \in Plans
  /\ phase = "begin"
  /\ accounts \in Openings
  /\ basis = IF plan.conversion # "off" /\ plan.retire < PenaltyAge
             THEN [NoBasis EXCEPT !.enabled = TRUE, !.regular = accounts.balance.roth]
             ELSE NoBasis
  /\ allowance = 0
  /\ magi = <<>>
  /\ care = [observed |-> FALSE, episode |-> NoEpisode, billed |-> 0]
  /\ now = Fresh
  /\ row = NoRow
  /\ success = TRUE

-----------------------------------------------------------------------------
(* The beginning of a year.                                                  *)

BasisOfYear ==
  IF ~basis.enabled THEN basis
  ELSE IF Age >= PenaltyAge THEN NoBasis
  ELSE season_roth_conversions(basis, Year)

(* The balance of last year's end is the one this year begins with.          *)
RmdOfYear == IF Age >= RmdAge THEN accounts.balance.traditional \div RmdDivisor ELSE 0

(* The market's return; cash stays what it is.                               *)
Grown(percent) ==
  LET After(type) == IF type \in accounts.cash THEN accounts.balance[type]
                     ELSE Share(accounts.balance[type], percent)
  IN  [accounts EXCEPT !.balance = [taxable |-> After("taxable"), traditional |-> After("traditional"),
                                    roth |-> After("roth"), hsa |-> After("hsa")]]

(* A required distribution is taken in a working year too, before anything   *)
(* else.                                                                     *)
BeginWorkingYear ==
  /\ phase = "begin" /\ ~Retired
  /\ \E percent \in Growth :
       LET forced == Lesser(RmdOfYear, Grown(percent).balance.traditional)
       IN  /\ accounts' = [Grown(percent) EXCEPT !.balance.traditional = @ - forced]
           /\ now' = [Fresh EXCEPT !.rmd = forced, !.w.traditional = forced,
                                   !.invested = TotalOf(Grown(percent).balance)]
  /\ basis' = BasisOfYear
  /\ phase' = "shortfall"
  /\ UNCHANGED <<plan, allowance, magi, care, row, success>>

CareCost ==
  IF care.observed
  THEN cost_for_year(care.episode, Year, Years, 2 * (LifeExpectancy - Greater(plan.start, CareAge)))
  ELSE 0

Benefit == IF Age >= ClaimAge THEN plan.benefit ELSE 0

(* Prices are settled on the accounts as last year left them; the market     *)
(* moves afterwards. Medical costs and care may be paid from the HSA, the    *)
(* marketplace premium may not.                                              *)
BeginRetiredYear ==
  /\ phase = "begin" /\ Retired
  /\ LET premium == Premium(plan, magi, plan.living + plan.outOfPocket + CareCost,
                            Benefit, accounts, Age)
         qualified == plan.outOfPocket + (IF Age >= MedicareAge THEN premium ELSE 0)
     IN  /\ allowance' = allowance + CareCost + qualified
         /\ \E percent \in Growth :
              /\ accounts' = Grown(percent)
              /\ now' = [Fresh EXCEPT !.rmd = RmdOfYear, !.benefit = Benefit,
                           !.target = plan.living + premium + plan.outOfPocket + CareCost,
                           !.invested = TotalOf(Grown(percent).balance)]
  /\ care' = [care EXCEPT !.billed = @ + CareCost]
  /\ basis' = BasisOfYear
  /\ phase' = "fund"
  /\ UNCHANGED <<plan, magi, row, success>>

-----------------------------------------------------------------------------
(* Working years: the shortfall loop, then contributions.                    *)

CashFlow ==
  calculate_working_cash_flow(plan, plan.salary, plan.spending + now.penalties,
                              now.w.traditional + now.w.hsa, now.gains)

(* What the portfolio still has to cover. Taxable and Roth withdrawals are   *)
(* principal; the cash flow counts the others as income.                     *)
Unfunded == Positive(-CashFlow.net - now.w.taxable - now.w.roth)

(* One pass: draw what is missing; the draw may cost tax and penalties,      *)
(* which the next pass has to cover. A draw within the tolerance ends the    *)
(* loop and is not counted.                                                  *)
ShortfallPass ==
  /\ phase = "shortfall" /\ now.pass < ShortfallPasses /\ Unfunded > Tolerance
  /\ LET committed == plan.salary + now.w.traditional + Share(now.w.taxable, GainRatio)
         drawn == apply_withdrawal_order(plan, accounts, Unfunded, Age, committed)
     IN  /\ accounts' = [accounts EXCEPT !.balance = Less(@, drawn)]
         /\ now' = IF TotalOf(drawn) <= Tolerance
                   THEN [now EXCEPT !.pass = ShortfallPasses]
                   ELSE [now EXCEPT !.pass = @ + 1, !.w = Plus(@, drawn),
                           !.penalties = @ + penalties_on(drawn.traditional, drawn.hsa, 0, Age),
                           !.gains = @ + Share(drawn.taxable, GainRatio)]
  /\ UNCHANGED <<plan, phase, basis, allowance, magi, care, row, success>>

(* The end of every year: the report, the year's MAGI, and at CareAge the    *)
(* care episode that the path's uniform selects.                             *)
EndYear(report, conversion) ==
  /\ row' = report
  /\ magi' = Append(magi, [total |-> report.income + report.w.traditional + conversion
                                     + Share(report.w.taxable, GainRatio),
                           wages |-> IF Retired THEN 0 ELSE report.income])
  /\ success' = (success /\ ~report.short)
  /\ IF plan.care /\ LifeExpectancy > CareAge /\ Age >= CareAge /\ ~care.observed
     THEN \E e \in Episodes \cup {NoEpisode} :
            care' = [care EXCEPT !.observed = TRUE, !.episode = e]
     ELSE UNCHANGED care
  /\ phase' = IF Year + 1 < Years THEN "begin" ELSE "done"
  /\ now' = Fresh
  /\ UNCHANGED <<plan, allowance>>

CloseWorkingYear ==
  /\ phase = "shortfall" /\ (now.pass = ShortfallPasses \/ Unfunded <= Tolerance)
  /\ LET d == CashFlow.deposits
         hsa == deposit_to_bucket(accounts, "hsa", d.hsa)
         traditional == deposit_to_bucket(hsa, "traditional", d.traditional)
         roth == deposit_to_bucket(traditional, "roth", d.roth)
     IN  /\ accounts' = deposit_to_bucket(roth, "taxable", d.taxable)
         /\ basis' = IF basis.enabled
                     THEN [basis EXCEPT !.regular = Positive(@ - now.w.roth) + d.roth] ELSE basis
         /\ EndYear([age |-> Age, retired |-> FALSE, income |-> plan.salary,
                     spending |-> plan.spending - Unfunded,
                     taxes |-> CashFlow.tax + now.penalties, w |-> now.w, deposits |-> d,
                     savings |-> TotalOf(d) - TotalOf(now.w), forced |-> now.rmd,
                     gross |-> 0, converted |-> 0, short |-> Unfunded > Tolerance, invested |-> now.invested], 0)

-----------------------------------------------------------------------------
(* Retired years: withdrawals that fund the target, then a conversion.       *)

AllowanceLeft(found) == allowance - found.qualified

(* finish_ordered_withdrawals: what the year has over its target goes to     *)
(* taxable.                                                                  *)
FundRetiredYear ==
  /\ phase = "fund"
  /\ \E found \in Solutions(plan, accounts, basis,
                            [age |-> Age, benefit |-> now.benefit, rmd |-> now.rmd,
                             allowance |-> allowance], now.target) :
       LET over == found.cash - now.target
           surplus == IF over > Tolerance THEN over ELSE 0
       IN  /\ accounts' = deposit_to_bucket([accounts EXCEPT !.balance = found.balance],
                                            "taxable", surplus)
           /\ basis' = consume_roth_basis(basis, found.w.roth)
           /\ allowance' = AllowanceLeft(found)
           /\ now' = [now EXCEPT !.w = found.w, !.taxes = found.taxes, !.surplus = surplus,
                                 !.short = over < -Tolerance]
  /\ phase' = "convert"
  /\ UNCHANGED <<plan, magi, care, row, success>>

Convert(c) ==
  LET reached == c.converted - c.withheld
      taxes == now.taxes + c.tax
      sold == draw_from_bucket(draw_from_bucket(accounts, "traditional", c.converted),
                               "taxable", c.fromTaxable)
      cash == TotalOf(now.w) - taxes - now.surplus + now.benefit
  IN  /\ accounts' = deposit_to_bucket(sold, "roth", reached)
      /\ basis' = IF basis.enabled /\ c.converted > 0
                  THEN [basis EXCEPT !.lots = Append(@, [year |-> Year, principal |-> reached]),
                                     !.unseasoned = @ + reached]
                  ELSE basis
      /\ EndYear([age |-> Age, retired |-> TRUE, income |-> now.benefit,
                  spending |-> IF now.short THEN Positive(cash) ELSE now.target,
                  taxes |-> taxes,
                  w |-> [now.w EXCEPT !.taxable = @ + c.fromTaxable, !.traditional = @ + c.withheld],
                  deposits |-> [Nothing EXCEPT !.taxable = now.surplus],
                  savings |-> now.surplus - TotalOf(now.w) - c.fromTaxable - c.withheld,
                  forced |-> now.rmd, gross |-> c.converted, converted |-> reached,
                  short |-> now.short, invested |-> now.invested], reached)

(* The conversion is chosen once the year is funded, and only between        *)
(* retirement and the first required distribution.                           *)
CloseRetiredYear ==
  /\ phase = "convert"
  /\ Convert(IF Age < RmdAge /\ ~now.short THEN roth_conversion_for(plan, accounts, now)
             ELSE NoConversion)

Next ==
  \/ BeginWorkingYear \/ ShortfallPass \/ CloseWorkingYear
  \/ BeginRetiredYear \/ FundRetiredYear \/ CloseRetiredYear

Spec == Init /\ [][Next]_vars

-----------------------------------------------------------------------------

(* The year that has just been reported; the next one has not begun.         *)
Closed == phase \in {"begin", "done"} /\ magi # <<>>

Near(x, y) == x - y \in -Tolerance..Tolerance

(* Types; in particular no bucket, no basis and no HSA allowance is ever     *)
(* negative: draws stop at a balance, a qualified withdrawal at the          *)
(* allowance (projection.rs 1578-1590, 1774).                                *)
TypeOK ==
  /\ plan \in Plans
  /\ phase \in {"begin", "shortfall", "fund", "convert", "done"}
  /\ accounts \in Accounts
  /\ basis \in Basis
  /\ allowance \in Nat
  /\ magi \in Seq([total : Nat, wages : Nat])
  /\ care \in [observed : BOOLEAN, episode : Episodes \cup {NoEpisode}, billed : Nat]
  /\ success \in BOOLEAN

(* Every dollar of a reported year is accounted for. What came in and what   *)
(* was withdrawn went to taxes, spending and deposits; and the portfolio     *)
(* moved by the reported savings. Both to the tolerance of the searches, and *)
(* through the shortfall passes, the forced distribution, the reinvested     *)
(* surplus and the tax of a conversion, whoever paid it.                     *)
CashReconciles ==
  Closed =>
    /\ Near(row.income + TotalOf(row.w), row.taxes + TotalOf(row.deposits) + row.spending)
    /\ Near(TotalOf(accounts.balance), row.invested + row.savings)

(* A year is reported as ruin only when there was nothing left to sell: no   *)
(* bucket keeps a balance while spending goes unmet (projection.rs 1149,     *)
(* "Only true ruin counts as failure"; 560, the ceiling is not a cap).       *)
RuinMeansEmpty == Closed /\ row.short => TotalOf(accounts.balance) = 0

(* The thresholds that premiums of later years are tested against.           *)
TestedLater ==
  (IF row.age + 1 < MedicareAge /\ row.age + 1 >= plan.retire /\ plan.preMedicarePremium > 0
   THEN {SubsidyCliff} ELSE {})
  \cup
  (IF row.age + 2 >= MedicareAge /\ row.age + 2 >= plan.retire /\ plan.medicarePremium > 0
   THEN IrmaaBounds ELSE {})

(* A plan that watches its MAGI never gives up a credit or buys a surcharge  *)
(* tier by choice: a year that draws more traditional money than it must     *)
(* while a Roth balance is left reports a MAGI under every threshold that    *)
(* its forced income and gains alone would not have passed. A conversion is  *)
(* bound by its own ceiling only.                                            *)
CliffNotCrossed ==
  /\ Closed /\ plan.magiAware /\ row.gross = 0
  /\ row.w.traditional > row.forced
  /\ accounts.balance.roth > row.deposits.roth
  => LET forced == row.income + row.forced + Share(row.w.taxable, GainRatio)
     IN  \A t \in TestedLater : forced <= t => magi[Len(magi)].total <= t

(* The cached sum of the unseasoned principal, which every candidate of the  *)
(* withdrawal search reads, is the sum of the lots; the lots are in the      *)
(* order of their years and, once a year has begun, none has seasoned.       *)
BasisExact ==
  basis.enabled =>
    /\ basis.unseasoned = Principal(basis.lots, Len(basis.lots))
    /\ \A i, j \in DOMAIN basis.lots : i < j => basis.lots[i].year < basis.lots[j].year
    /\ phase \notin {"begin", "done"} =>
         \A i \in DOMAIN basis.lots : Year < basis.lots[i].year + SeasoningYears

(* A household that is retired when its care begins pays exactly the price   *)
(* of the episode by the end of its life, however much of the episode the    *)
(* horizon has clipped (projection.rs 181-183, "the installments sum to the  *)
(* sampled lifetime total").                                                 *)
CareChargedInFull ==
  phase = "done" /\ care.observed /\ plan.start < LifeExpectancy /\ plan.retire <= CareAge + 1
  => care.billed = care.episode.cost

(* The Roth basis ledger is exact and care is charged in full                *)
(* (simulation/projection.rs).                                               *)
LedgersExact == TypeOK /\ BasisExact /\ CareChargedInFull
=============================================================================
