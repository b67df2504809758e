----------------------------- MODULE YearRules ------------------------------
(* The rules a projected year applies: penalties and the Roth basis ledger,  *)
(* healthcare premiums, the working year's cash flow, the retirement year's  *)
(* withdrawals, Roth conversions and the long-term care episode.             *)
EXTENDS Portfolio, Totals, Sequences, FiniteSets, SequencesExt

CONSTANTS
  PenaltyAge,             \* TRADITIONAL_PENALTY_AGE
  PenaltyRate,            \* percent, EARLY_TRADITIONAL_PENALTY_RATE
  HsaPenaltyRate,         \* percent, NON_QUALIFIED_HSA_PENALTY_RATE
  SeasoningYears,         \* tax years until conversion principal is penalty-free
  CreditPercent,          \* percent of MAGI a subsidised household pays for its premium
  IrmaaStep,              \* surcharge of each tier above the previous one
  HsaLimit, K401Limit, IraLimit,
  Tolerance,              \* dollars below which a shortfall is funded
  ConversionLimit(_),     \* ceiling_limit of a conversion policy
  Tax(_, _, _),           \* income tax on ordinary income, benefit and gains
  TaxableIncome(_, _, _), \* what a bracket ceiling is measured against
  PayrollTax(_)           \* FICA on wages

ASSUME RuleAssumption ==
  /\ PenaltyAge \in Nat /\ PenaltyRate \in 0..100 /\ HsaPenaltyRate \in 0..100
  /\ SeasoningYears \in Nat \ {0} /\ CreditPercent \in 0..100 /\ IrmaaStep \in Nat
  /\ IsFiniteSet(IrmaaBounds)
  /\ HsaLimit \in Nat /\ K401Limit \in Nat /\ IraLimit \in Nat /\ Tolerance \in Nat

(* What the tax rules are like, for amounts of S: taxes are whole dollars; a  *)
(* dollar more of income or gain never lowers the tax, nor costs more than    *)
(* itself; and taxes and penalties never take more than wages and the income *)
(* beside them.                                                              *)
WholeTaxes(S) ==
  /\ \A x, y, z \in S : Tax(x, y, z) \in Int
  /\ \A x \in S : PayrollTax(x) \in Int
OrderlyTaxes(S) ==
  /\ \A x, y, z, more, gain \in S :
       Tax(x + more, y, z + gain) - Tax(x, y, z) \in 0..(more + gain)
  /\ \A wages, x, y, z \in S :
       Tax(wages + x, y, z) + PayrollTax(wages) + Share(x, Greater(PenaltyRate, HsaPenaltyRate))
         <= wages + x + y + z
  /\ \A wages \in S : PayrollTax(wages) >= 0

-----------------------------------------------------------------------------
(* The Roth basis: money that may leave free of penalty, and the principal   *)
(* of each conversion until it has seasoned.                                 *)

Basis == [enabled : BOOLEAN, regular : Nat, lots : Seq([year : Nat, principal : Nat]), unseasoned : Nat]
NoBasis == [enabled |-> FALSE, regular |-> 0, lots |-> <<>>, unseasoned |-> 0]

(* What the first n lots hold.                                               *)
Principal(lots, n) == Total([i \in DOMAIN lots |-> lots[i].principal], 1..n)

(* The first n lots have seasoned, the next one has not.                     *)
Leads(lots, taxYear, n) ==
  /\ \A i \in 1..n : taxYear >= lots[i].year + SeasoningYears
  /\ n < Len(lots) => taxYear < lots[n + 1].year + SeasoningYears

season_roth_conversions(basis, taxYear) ==
  LET n == CHOOSE k \in 0..Len(basis.lots) : Leads(basis.lots, taxYear, k)
      seasoned == Principal(basis.lots, n)
  IN  [basis EXCEPT !.regular = @ + seasoned,
                    !.unseasoned = Positive(@ - seasoned),
                    !.lots = SubSeq(@, n + 1, Len(@))]

(* What remains of the lots when past was taken from them, oldest first.     *)
Consumed(lots, past) ==
  [i \in DOMAIN lots |->
    [lots[i] EXCEPT !.principal = Positive(@ - Positive(past - Principal(lots, i - 1)))]]

(* A bug: money a lot keeps after a withdrawal that began in the regular     *)
(* basis is not reduced by what the regular basis has paid.                  *)
consume_roth_basis_RegularTwice(basis, withdrawal) ==
  IF ~basis.enabled \/ withdrawal <= 0 THEN basis
  ELSE [basis EXCEPT !.regular = Positive(@ - withdrawal),
                     !.unseasoned = Positive(@ - Positive(withdrawal - basis.regular)),
                     !.lots = Consumed(@, withdrawal)]

(* A withdrawal uses the regular basis first, then the lots.                 *)
consume_roth_basis(basis, withdrawal) ==
  LET past == Positive(withdrawal - basis.regular)
  IN  IF ~basis.enabled \/ withdrawal <= 0 THEN basis
      ELSE [basis EXCEPT !.regular = Positive(@ - withdrawal),
                         !.unseasoned = Positive(@ - past),
                         !.lots = Consumed(@, past)]

(* The conversion principal a Roth withdrawal would take too early.          *)
EarlyPrincipal(basis, withdrawal, age) ==
  IF ~basis.enabled \/ age >= PenaltyAge THEN 0
  ELSE Lesser(Positive(withdrawal - basis.regular), basis.unseasoned)

penalties_on(traditional, nonQualifiedHsa, earlyPrincipal, age) ==
  (IF age < PenaltyAge THEN Share(traditional, PenaltyRate) ELSE 0)
  + (IF age < MedicareAge THEN Share(nonQualifiedHsa, HsaPenaltyRate) ELSE 0)
  + Share(earlyPrincipal, PenaltyRate)

-----------------------------------------------------------------------------
(* Healthcare. magi is the sequence of the years modelled so far.            *)

irmaa_annual_surcharge(income) == IrmaaStep * Cardinality({b \in IrmaaBounds : income > b})

(* What a first retirement year reports in place of a last year with wages.  *)
estimated_retirement_magi(plan, prior, planned, benefit, a, age) ==
  LET carried == Positive(prior.total - prior.wages)
      drawn == apply_withdrawal_order(plan, a, planned - benefit, age, benefit + carried)
  IN  carried + benefit + drawn.traditional + TaxableGain(a, drawn)

(* The premium of a year: the credit looks one year back, the surcharge two. *)
Premium(plan, magi, planned, benefit, a, age) ==
  LET n == Len(magi)
      prior == IF magi[n].wages <= 0 THEN magi[n].total
               ELSE estimated_retirement_magi(plan, magi[n], planned, benefit, a, age)
      contribution == Share(prior, CreditPercent)
  IN  IF age >= MedicareAge
      THEN IF plan.medicarePremium > 0 /\ n >= 2
           THEN plan.medicarePremium + irmaa_annual_surcharge(magi[n - 1].total)
           ELSE plan.medicarePremium
      ELSE IF n >= 1 /\ prior \in PovertyLevel..SubsidyCliff
           THEN Lesser(contribution, plan.preMedicarePremium)
           ELSE plan.preMedicarePremium

-----------------------------------------------------------------------------
(* The working year's cash flow: savings are what taxes and spending leave.  *)

(* Pretax contributions the cash allows when the year's tax is tax.          *)
Contributions(plan, gross, spending, ordinary, tax) ==
  LET available == Positive(gross + ordinary - tax - spending)
      wanted == Lesser(IF plan.hsaEligible THEN HsaLimit ELSE 0, available)
      hsa == Lesser(wanted, gross)
  IN  [hsa |-> hsa,
       traditional |-> Lesser(Lesser(K401Limit, available - wanted), gross - hsa)]

WorkingTax(gross, ordinary, gains, c) ==
  Tax(gross - c.hsa - c.traditional + ordinary, 0, gains) + PayrollTax(gross)

(* Contributions lower the tax that limits them: four passes, then what is   *)
(* left over goes to the Roth and to taxable. net is negative in a shortfall.*)
calculate_working_cash_flow(plan, gross, spending, ordinary, gains) ==
  LET Of(tax) == Contributions(plan, gross, spending, ordinary, tax)
      Next(tax) == WorkingTax(gross, ordinary, gains, Of(tax))
      third == Next(Next(Next(WorkingTax(gross, ordinary, gains, [hsa |-> 0, traditional |-> 0]))))
      c == Of(third)
      net == gross + ordinary - Next(third) - spending - c.hsa - c.traditional
      roth == IF plan.backdoorRoth THEN Lesser(IraLimit, Positive(net)) ELSE 0
  IN  [tax |-> Next(third), net |-> net,
       deposits |-> [hsa |-> c.hsa, traditional |-> c.traditional,
                     roth |-> roth, taxable |-> Positive(net) - roth]]

-----------------------------------------------------------------------------
(* The retirement year. c holds what the year's withdrawals depend on beside *)
(* accounts and basis: age, benefit, rmd and the HSA allowance.              *)

Evaluated(a, basis, c, left, forced, drawn) ==
  LET w == [drawn EXCEPT !.traditional = @ + forced]
      qualified == Lesser(w.hsa, c.allowance)
      taxes == Tax(w.traditional + w.hsa - qualified, c.benefit, TaxableGain(a, drawn))
               + penalties_on(w.traditional, w.hsa - qualified,
                              EarlyPrincipal(basis, w.roth, c.age), c.age)
  IN  [balance |-> Less(left.balance, drawn), w |-> w, qualified |-> qualified,
       taxes |-> taxes, cash |-> c.benefit + TotalOf(w) - taxes]

(* The forced distribution and a voluntary budget, with the tax they cost.   *)
evaluate_ordered_withdrawals(plan, a, basis, c, budget) ==
  LET forced == Lesser(c.rmd, a.balance.traditional)
      left == [a EXCEPT !.balance.traditional = @ - forced]
  IN  Evaluated(a, basis, c, left, forced,
                apply_withdrawal_order(plan, left, budget, c.age, c.benefit + forced))

Funds(evaluation, target) == evaluation.cash + Tolerance >= target

(* Where a search among the budgets up to most may end: nothing voluntary    *)
(* when the forced distribution is enough; everything when that is too       *)
(* little; else a budget that funds the year and is exact or next to one     *)
(* that does not.                                                            *)
Ends(best, most, target) ==
  LET Exact(b) == best[b].cash - target \in -Tolerance..Tolerance
      Found == {b \in 1..most : Funds(best[b], target) /\ (Exact(b) \/ ~Funds(best[b - 1], target))}
  IN  CASE Funds(best[0], target) -> {best[0]}
        [] ~Funds(best[0], target) /\ ~Funds(best[most], target) -> {best[most]}
        [] OTHER -> {best[b] : b \in Found}

(* A bug: the search stops at the first bracket, twice the shortfall, even   *)
(* when that does not fund the year.                                         *)
Solutions_OneBracket(plan, a, basis, c, target) ==
  LET forced == evaluate_ordered_withdrawals(plan, a, basis, c, 0)
      bracket == Lesser(TotalOf(forced.balance), 2 * Positive(target - forced.cash))
  IN  Ends([b \in 0..bracket |-> evaluate_ordered_withdrawals(plan, a, basis, c, b)], bracket, target)

Solutions(plan, a, basis, c, target) ==
  LET most == TotalOf(evaluate_ordered_withdrawals(plan, a, basis, c, 0).balance)
  IN  Ends([b \in 0..most |-> evaluate_ordered_withdrawals(plan, a, basis, c, b)], most, target)

-----------------------------------------------------------------------------
(* The Roth conversion. y holds the year's withdrawals w and benefit.        *)

(* What a conversion costs: selling taxable to pay its tax realizes a gain   *)
(* that is taxed in turn (four passes); what taxable cannot pay is withheld. *)
outcome_of(a, y, converted) ==
  LET gains == Share(y.w.taxable, GainRatio)
      before == Tax(y.w.traditional, y.benefit, gains)
      Owed(sold) == Positive(Tax(y.w.traditional + converted, y.benefit,
                                 gains + Share(sold, GainRatio)) - before)
      Sold(sold) == Lesser(Owed(sold), a.balance.taxable)
      third == Sold(Sold(Sold(0)))
  IN  [converted |-> converted, tax |-> Owed(third), fromTaxable |-> Sold(third),
       withheld |-> Lesser(converted, Owed(third) - Sold(third))]

(* What the ceiling is compared with: MAGI or taxable income.                *)
Measure(plan, a, y, converted) ==
  LET gains == Share(y.w.taxable, GainRatio)
               + Share(outcome_of(a, y, converted).fromTaxable, GainRatio)
      ordinary == y.w.traditional + converted
  IN  IF plan.conversion = "irmaaTier" THEN y.benefit + ordinary + gains
      ELSE TaxableIncome(ordinary, y.benefit, gains)

NoConversion == [converted |-> 0, tax |-> 0, fromTaxable |-> 0, withheld |-> 0]

(* The largest whole-dollar conversion that stays within the ceiling.        *)
roth_conversion_for(plan, a, y) ==
  LET fits == {x \in 1..a.balance.traditional :
                 Measure(plan, a, y, x) <= ConversionLimit(plan.conversion)}
  IN  IF \/ plan.conversion = "off" \/ fits = {}
         \/ Measure(plan, a, y, 0) >= ConversionLimit(plan.conversion)
      THEN NoConversion
      ELSE outcome_of(a, y, Max(fits))

-----------------------------------------------------------------------------
(* Long-term care. Durations are in half years, so that an episode may begin *)
(* in the middle of a year; longest is the part of the horizon after the     *)
(* observation. The episode ends with the horizon.                           *)

(* A bug: the price is spread over the drawn duration although the horizon   *)
(* has clipped it.                                                           *)
cost_for_year_NotClipped(episode, year, years, longest) ==
  LET duration == Lesser(Lesser(episode.halves, 2 * years), longest)
      overlap == Lesser(2, Positive(2 * year + 2 - (2 * years - duration)))
  IN  IF duration <= 0 THEN 0 ELSE (episode.cost * overlap) \div episode.halves

cost_for_year(episode, year, years, longest) ==
  LET duration == Lesser(Lesser(episode.halves, 2 * years), longest)
      overlap == Lesser(2, Positive(2 * year + 2 - (2 * years - duration)))
  IN  IF duration <= 0 THEN 0 ELSE (episode.cost * overlap) \div duration
=============================================================================
