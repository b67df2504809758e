--------------------------- MODULE MCProjection -----------------------------
(* Short lives with small numbers: an age is one of seven, a fortune at most *)
(* sixty dollars, a year halves the invested buckets or adds half.           *)
EXTENDS Reports

(* A quarter of ordinary income above four dollars, half of the benefit      *)
(* counted, and an eighth of the gains.                                      *)
MCTaxableIncome(ordinary, benefit, gains) == Positive(ordinary + benefit \div 2 + gains - 4)
MCTax(ordinary, benefit, gains) == Positive(ordinary + benefit \div 2 - 4) \div 4 + gains \div 8
MCPayrollTax(wages) == wages \div 10
MCConversionLimit(policy) == IF policy = "irmaaTier" THEN 20 ELSE 12

(* These rules are like the engine's.                                        *)
ASSUME TaxesAssumption == WholeTaxes(-4..8) /\ OrderlyTaxes(0..8)

(* A saver who works until 5, an early retiree and an employee who outspends *)
(* the salary.                                                               *)
Saver == [start |-> 2, retire |-> 5, salary |-> 30, spending |-> 12, living |-> 12, benefit |-> 6,
          preMedicarePremium |-> 4, medicarePremium |-> 2, outOfPocket |-> 1,
          magiAware |-> FALSE, hsaEligible |-> TRUE, backdoorRoth |-> TRUE,
          conversion |-> "off", care |-> FALSE]
Early == [Saver EXCEPT !.start = 3, !.retire = 3, !.living = 9, !.magiAware = TRUE]
Overspender == [Saver EXCEPT !.start = 1, !.salary = 10, !.spending = 18, !.backdoorRoth = FALSE,
                             !.magiAware = TRUE]

MCPlans ==
  {Saver, Overspender, Early,
   [Saver EXCEPT !.start = 1, !.retire = 6, !.spending = 24, !.magiAware = TRUE],
   [Saver EXCEPT !.start = 1, !.retire = 3, !.spending = 28, !.conversion = "bracket"],
   [Overspender EXCEPT !.retire = 4],
   [Overspender EXCEPT !.start = 4, !.retire = 7, !.spending = 14, !.care = TRUE],
   [Early EXCEPT !.living = 12, !.magiAware = FALSE],
   [Early EXCEPT !.start = 1, !.retire = 1, !.conversion = "bracket", !.benefit = 0],
   [Early EXCEPT !.conversion = "irmaaTier", !.living = 6],
   [Saver EXCEPT !.start = 4, !.care = TRUE],
   [Saver EXCEPT !.start = 2, !.retire = 3, !.living = 24, !.magiAware = TRUE],
   [Saver EXCEPT !.start = 3, !.retire = 4, !.living = 24, !.benefit = 0, !.magiAware = TRUE],
   [Early EXCEPT !.start = 6, !.care = TRUE, !.outOfPocket = 0]}

Holding(taxable, traditional, roth, hsa, held) ==
  [balance |-> [taxable |-> taxable, traditional |-> traditional, roth |-> roth, hsa |-> hsa],
   held |-> held, cash |-> {}]

MCOpenings ==
  {Holding(0, 0, 0, 0, {}),
   Holding(20, 40, 20, 0, {"taxable", "traditional", "roth"}),
   Holding(0, 50, 10, 0, {"traditional", "roth"}),
   Holding(6, 0, 0, 40, {"taxable", "hsa"}),
   Holding(10, 30, 0, 10, {"taxable", "traditional", "hsa"})}

MCEpisodes == {[halves |-> 3, cost |-> 12], [halves |-> 8, cost |-> 12]}
=============================================================================
