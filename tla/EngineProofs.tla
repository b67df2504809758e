---------------------------- MODULE EngineProofs ----------------------------
(* Theorems about one projected path (Projection), for every set of plans,   *)
(* openings, returns, care episodes and thresholds and every horizon: the    *)
(* ledgers are exact, no premium threshold is crossed by choice, ruin is     *)
(* reported only of an empty portfolio, the reported years reconcile, and    *)
(* the browser's reports of them agree (Reports). PathInv and Balanced are   *)
(* the inductive invariants. The tax rules enter by two premises: TaxIsWhole,*)
(* and for the last two results TaxIsOrderly.                                *)
EXTENDS Reports, TotalsProofs
-----------------------------------------------------------------------------
(* Amounts *)

LEMMA ShareNat == ASSUME NEW x \in Nat, NEW p \in Nat PROVE Share(x, p) \in Nat
<1>1. x * p \in Nat
  OBVIOUS
<1>2. PICK y \in Nat : y = x * p
  BY <1>1
<1>3. y \div 100 \in Nat
  BY <1>2
<1> QED BY <1>2, <1>3 DEF Share

(* A sum rounded down loses at most a dollar to its parts, and never gains.  *)
LEMMA ShareOfSum ==
  ASSUME NEW x \in Nat, NEW y \in Nat, NEW p \in Nat
  PROVE  /\ Share(x, p) + Share(y, p) <= Share(x + y, p)
         /\ Share(x + y, p) <= Share(x, p) + Share(y, p) + 1
         /\ Share(x, p) <= Share(x + y, p)
<1>1. (x + y) * p = (x * p) + (y * p) /\ x * p \in Nat /\ y * p \in Nat
  OBVIOUS
<1>2. PICK a \in Nat, b \in Nat : a = x * p /\ b = y * p
  BY <1>1
<1>3. /\ (a \div 100) + (b \div 100) <= (a + b) \div 100
      /\ (a + b) \div 100 <= (a \div 100) + (b \div 100) + 1
      /\ a \div 100 <= (a + b) \div 100
  BY <1>2
<1> QED BY <1>1, <1>2, <1>3 DEF Share

LEMMA ShareOfRate ==
  ASSUME NEW x \in Nat, NEW r \in Nat, NEW t \in Nat, r <= t PROVE Share(x, r) <= Share(x, t)
<1>1. x * r <= x * t /\ x * r \in Nat /\ x * t \in Nat
  OBVIOUS
<1>2. PICK u \in Nat, v \in Nat : u = x * r /\ v = x * t /\ u <= v
  BY <1>1
<1>3. u \div 100 <= v \div 100
  BY <1>2
<1> QED BY <1>2, <1>3 DEF Share

LEMMA GainNat == ASSUME NEW x \in Nat PROVE Share(x, GainRatio) \in Nat
<1>1. GainRatio \in Nat
  BY PortfolioAssumption
<1> QED BY <1>1, ShareNat

LEMMA GainAtMost ==
  ASSUME NEW x \in Nat PROVE Share(x, GainRatio) \in Nat /\ Share(x, GainRatio) <= x
<1>1. PICK p \in Nat : p = GainRatio /\ p <= 100
  BY PortfolioAssumption
<1>2. x * p <= x * 100 /\ x * p \in Nat
  BY <1>1
<1>3. PICK y \in Nat : y = x * p /\ y <= x * 100
  BY <1>2
<1>4. y \div 100 \in Nat /\ y \div 100 <= x
  BY <1>3
<1> QED BY <1>1, <1>3, <1>4 DEF Share

LEMMA PositiveNat == ASSUME NEW x \in Int PROVE Positive(x) \in Nat /\ Positive(x) >= x
BY DEF Positive, Greater

LEMMA LesserOf ==
  ASSUME NEW x \in Int, NEW y \in Int
  PROVE  /\ Lesser(x, y) \in Int /\ Lesser(x, y) <= x /\ Lesser(x, y) <= y
         /\ (x \in Nat /\ y \in Nat => Lesser(x, y) \in Nat)
BY DEF Lesser

LEMMA TotalNat == ASSUME NEW b \in Balances PROVE TotalOf(b) \in Nat
<1>1. b.taxable \in Nat /\ b.traditional \in Nat /\ b.roth \in Nat /\ b.hsa \in Nat
  BY DEF Balances
<1> QED BY <1>1 DEF TotalOf

LEMMA NothingTyped == Nothing \in Balances
BY DEF Nothing, Balances

LEMMA PlusTyped == ASSUME NEW a \in Balances, NEW b \in Balances PROVE Plus(a, b) \in Balances
<1>1. a.taxable \in Nat /\ a.traditional \in Nat /\ a.roth \in Nat /\ a.hsa \in Nat
      /\ b.taxable \in Nat /\ b.traditional \in Nat /\ b.roth \in Nat /\ b.hsa \in Nat
  BY DEF Balances
<1> QED BY <1>1 DEF Plus, Balances

-----------------------------------------------------------------------------
(* The buckets *)

Within(drawn, b) ==
  /\ drawn \in Balances
  /\ drawn.taxable <= b.taxable /\ drawn.traditional <= b.traditional
  /\ drawn.roth <= b.roth /\ drawn.hsa <= b.hsa

LEMMA LessTyped ==
  ASSUME NEW b \in Balances, NEW drawn, Within(drawn, b) PROVE Less(b, drawn) \in Balances
<1>1. b.taxable \in Nat /\ b.traditional \in Nat /\ b.roth \in Nat /\ b.hsa \in Nat
      /\ drawn.taxable \in Nat /\ drawn.traditional \in Nat /\ drawn.roth \in Nat /\ drawn.hsa \in Nat
  BY DEF Balances, Within
<1> QED BY <1>1 DEF Less, Balances, Within

LEMMA AccountsIs ==
  ASSUME NEW a
  PROVE  a \in Accounts <=>
           \E b \in Balances, h \in SUBSET AccountType, c \in SUBSET AccountType :
             a = [balance |-> b, held |-> h, cash |-> c]
BY DEF Accounts

LEMMA DepositTyped ==
  ASSUME NEW a \in Accounts, NEW type \in AccountType, NEW amount \in Int
  PROVE  /\ deposit_to_bucket(a, type, amount) \in Accounts
         /\ deposit_to_bucket(a, type, amount).balance =
              [a.balance EXCEPT ![type] = @ + Positive(amount)]
<1>1. PICK b \in Balances, h \in SUBSET AccountType, c \in SUBSET AccountType :
        a = [balance |-> b, held |-> h, cash |-> c]
  BY AccountsIs
<1>2. /\ b = [taxable |-> b.taxable, traditional |-> b.traditional, roth |-> b.roth, hsa |-> b.hsa]
      /\ b.taxable \in Nat /\ b.traditional \in Nat /\ b.roth \in Nat /\ b.hsa \in Nat
  BY DEF Balances
<1>3. CASE amount <= 0
  <2>1. [b EXCEPT ![type] = @ + 0] = b
    BY <1>2 DEF AccountType
  <2>2. Positive(amount) = 0
    BY <1>3 DEF Positive, Greater
  <2> QED BY <1>1, <1>3, <2>1, <2>2 DEF deposit_to_bucket
<1>4. CASE amount > 0
  <2>1. Positive(amount) = amount
    BY <1>4 DEF Positive, Greater
  <2>2. [b EXCEPT ![type] = @ + amount] \in Balances
    BY <1>2, <1>4 DEF AccountType, Balances
  <2>3. h \cup {type} \in SUBSET AccountType /\ c \cup {type} \in SUBSET AccountType
    OBVIOUS
  <2>4. PICK d : d = deposit_to_bucket(a, type, amount)
    OBVIOUS
  <2>5. d.balance = [b EXCEPT ![type] = @ + amount] /\ d.held = h \cup {type}
        /\ d.cash \in {c, c \cup {type}} /\ d = [balance |-> d.balance, held |-> d.held, cash |-> d.cash]
    BY <2>4, <1>1, <1>4 DEF deposit_to_bucket
  <2>6. d \in Accounts
    BY <2>2, <2>3, <2>5 DEF Accounts
  <2> QED BY <1>1, <2>1, <2>4, <2>5, <2>6
<1> QED BY <1>3, <1>4

LEMMA LeastIs ==
  ASSUME NEW S, S \subseteq Nat, S # {}
  PROVE  Least(S) \in S /\ \A t \in S : Least(S) <= t
BY LeastNatural DEF Least

LEMMA ThresholdsNat ==
  ASSUME NEW p, NEW age, NEW committed PROVE Thresholds(p, age, committed) \subseteq Nat
BY PortfolioAssumption DEF Thresholds

(* What may be drawn within the band keeps the income under it.               *)
LEMMA FittingIs ==
  ASSUME NEW p, NEW left \in Nat, NEW age \in Nat, NEW committed \in Nat
  PROVE  /\ Fitting(p, left, age, committed) \in Nat
         /\ Fitting(p, left, age, committed) <= left
         /\ p.magiAware => \A t \in Thresholds(p, age, committed) :
              \/ Fitting(p, left, age, committed) = 0
              \/ committed + Fitting(p, left, age, committed) + CeilingMargin <= t
<1> DEFINE T == Thresholds(p, age, committed)
           F == Fitting(p, left, age, committed)
<1>1. CeilingMargin \in Nat
  BY PortfolioAssumption
<1>2. CASE p.magiAware /\ T # {}
  <2>1. PICK least \in Nat : least = Least(T) /\ \A t \in T : least <= t /\ t \in Nat
    BY <1>2, ThresholdsNat, LeastIs
  <2>2. F = Lesser(left, Greater(least - CeilingMargin, committed) - committed)
    BY <1>2, <2>1 DEF Fitting, Headroom
  <2> HIDE DEF F, T
  <2>3. F \in Nat /\ F <= left /\ (F = 0 \/ committed + F + CeilingMargin <= least)
    BY <1>1, <2>1, <2>2 DEF Lesser, Greater
  <2>4. \A t \in T : F = 0 \/ committed + F + CeilingMargin <= t
    BY <1>1, <2>1, <2>3
  <2> QED BY <2>3, <2>4 DEF F, T
<1>3. CASE ~(p.magiAware /\ T # {})
  BY <1>3 DEF Fitting
<1> QED BY <1>2, <1>3

LEMMA InOrderIs ==
  ASSUME NEW b \in Balances, NEW taxable \in Nat, taxable <= b.taxable, NEW left \in Nat,
         NEW fits \in Nat, fits <= left
  PROVE  LET drawn == InOrder(b, taxable, left, fits)
         IN  /\ Within(drawn, b) /\ drawn.taxable = taxable
             /\ drawn.roth < b.roth => drawn.traditional <= fits
             /\ left >= b.traditional + b.roth + b.hsa =>
                  drawn.traditional = b.traditional /\ drawn.roth = b.roth /\ drawn.hsa = b.hsa
             /\ drawn.traditional <= left /\ TotalOf(drawn) <= taxable + left
<1>1. b.taxable \in Nat /\ b.traditional \in Nat /\ b.roth \in Nat /\ b.hsa \in Nat
  BY DEF Balances
<1> DEFINE capped == Lesser(fits, b.traditional)
           roth == Lesser(left - capped, b.roth)
           over == Lesser(left - capped - roth, b.traditional - capped)
           hsa == Lesser(left - capped - roth - over, b.hsa)
<1>2. InOrder(b, taxable, left, fits) =
        [taxable |-> taxable, traditional |-> capped + over, roth |-> roth, hsa |-> hsa]
  BY DEF InOrder
<1>3. /\ capped \in Nat /\ capped <= fits /\ capped <= b.traditional
      /\ (capped = fits \/ capped = b.traditional)
  BY <1>1 DEF Lesser
<1> HIDE DEF capped
<1>4. roth \in Nat /\ roth <= b.roth /\ roth <= left - capped
      /\ (roth = b.roth \/ roth = left - capped)
  BY <1>1, <1>3 DEF Lesser
<1> HIDE DEF roth
<1>5. over \in Nat /\ over <= b.traditional - capped /\ over <= left - capped - roth
      /\ (over = b.traditional - capped \/ over = left - capped - roth)
  BY <1>1, <1>3, <1>4 DEF Lesser
<1> HIDE DEF over
<1>6. /\ hsa \in Nat /\ hsa <= b.hsa /\ hsa <= left - capped - roth - over
      /\ (hsa = b.hsa \/ hsa = left - capped - roth - over)
  BY <1>1, <1>3, <1>4, <1>5 DEF Lesser
<1> HIDE DEF hsa
<1>7. /\ roth < b.roth => capped + over <= fits
      /\ left >= b.traditional + b.roth + b.hsa =>
           capped + over = b.traditional /\ roth = b.roth /\ hsa = b.hsa
      /\ capped + over <= left /\ capped + over \in Nat /\ capped + over <= b.traditional
  BY <1>1, <1>3, <1>4, <1>5, <1>6
<1>8. taxable + (capped + over) + roth + hsa <= taxable + left
  BY <1>1, <1>3, <1>4, <1>5, <1>6
<1> QED BY <1>2, <1>4, <1>6, <1>7, <1>8 DEF Within, Balances, TotalOf

(* What a draw takes: within the buckets, all of them when it asks for all,   *)
(* and no traditional money before taxable is used up nor, while a Roth       *)
(* balance is left, over the band of the income it makes.                    *)
Draws(drawn, p, a, amount, age, committed) ==
  LET income == committed + Share(drawn.taxable, GainRatio)
  IN  /\ Within(drawn, a.balance)
      /\ amount >= TotalOf(a.balance) => drawn = a.balance
      /\ TotalOf(drawn) <= Positive(amount)
      /\ drawn.traditional > 0 => drawn.taxable = a.balance.taxable
      /\ p.magiAware /\ drawn.traditional > 0 /\ drawn.roth < a.balance.roth =>
           \A t \in Thresholds(p, age, income) : income + drawn.traditional + CeilingMargin <= t

LEMMA DrawIs ==
  ASSUME NEW p, NEW a \in Accounts, NEW amount \in Int, NEW age \in Nat, NEW committed \in Nat
  PROVE  Draws(apply_withdrawal_order(p, a, amount, age, committed), p, a, amount, age, committed)
<1>1. PICK b \in Balances : b = a.balance
  BY DEF Accounts
<1>2. /\ b = [taxable |-> b.taxable, traditional |-> b.traditional, roth |-> b.roth, hsa |-> b.hsa]
      /\ b.taxable \in Nat /\ b.traditional \in Nat /\ b.roth \in Nat /\ b.hsa \in Nat
  BY DEF Balances
<1>3. PICK taxable \in Nat : taxable = Lesser(Positive(amount), b.taxable)
  BY <1>2, PositiveNat, LesserOf
<1>4. PICK left \in Nat : left = Positive(amount) - taxable
  BY <1>2, <1>3, PositiveNat DEF Lesser
<1>5. taxable <= b.taxable /\ (left > 0 => taxable = b.taxable)
      /\ (amount >= TotalOf(b) => taxable = b.taxable /\ left >= b.traditional + b.roth + b.hsa)
  BY <1>2, <1>3, <1>4 DEF Lesser, Positive, Greater, TotalOf
<1>6. PICK income \in Nat : income = committed + Share(taxable, GainRatio)
  <2>1. Share(taxable, GainRatio) \in Nat
    BY GainNat
  <2> QED BY <2>1
<1>7. PICK fits \in Nat :
        /\ fits = Fitting(p, left, age, income) /\ fits <= left
        /\ p.magiAware => \A t \in Thresholds(p, age, income) :
             fits = 0 \/ income + fits + CeilingMargin <= t
  <2> DEFINE fits == Fitting(p, left, age, income)
  <2>1. /\ fits \in Nat /\ fits <= left
        /\ p.magiAware => \A t \in Thresholds(p, age, income) :
             fits = 0 \/ income + fits + CeilingMargin <= t
    BY FittingIs
  <2> QED BY <2>1
<1>8. PICK drawn : drawn = InOrder(b, taxable, left, fits)
  OBVIOUS
<1>9. apply_withdrawal_order(p, a, amount, age, committed) = drawn
  BY <1>1, <1>3, <1>4, <1>6, <1>7, <1>8 DEF apply_withdrawal_order
<1>10. /\ Within(drawn, b) /\ drawn.taxable = taxable
       /\ drawn.roth < b.roth => drawn.traditional <= fits
       /\ left >= b.traditional + b.roth + b.hsa =>
            drawn.traditional = b.traditional /\ drawn.roth = b.roth /\ drawn.hsa = b.hsa
       /\ drawn.traditional <= left /\ TotalOf(drawn) <= taxable + left
  BY <1>5, <1>7, <1>8, InOrderIs
<1>11. drawn \in Balances
  BY <1>10 DEF Within
<1>12. drawn.traditional \in Nat
       /\ drawn = [taxable |-> drawn.taxable, traditional |-> drawn.traditional,
                   roth |-> drawn.roth, hsa |-> drawn.hsa]
  BY <1>11 DEF Balances
<1>13. amount >= TotalOf(b) => drawn = b
  BY <1>2, <1>5, <1>10, <1>12
<1>14. drawn.traditional > 0 => drawn.taxable = b.taxable
  BY <1>5, <1>10, <1>12
<1>15. ASSUME p.magiAware, drawn.traditional > 0, drawn.roth < b.roth,
              NEW t \in Thresholds(p, age, income)
       PROVE  income + drawn.traditional + CeilingMargin <= t
  <2>1. t \in Nat /\ CeilingMargin \in Nat
    BY ThresholdsNat, PortfolioAssumption
  <2>2. drawn.traditional <= fits
    BY <1>10, <1>15
  <2>3. fits # 0
    BY <1>12, <1>15, <2>2
  <2>4. income + fits + CeilingMargin <= t
    BY <1>7, <1>15, <2>3
  <2> QED BY <1>12, <2>1, <2>2, <2>4
<1>16. TotalOf(drawn) <= Positive(amount)
  BY <1>3, <1>4, <1>10, PositiveNat
<1> QED BY <1>1, <1>6, <1>9, <1>10, <1>13, <1>14, <1>15, <1>16 DEF Draws

-----------------------------------------------------------------------------
(* The rules of a year *)

(* Amounts are whole dollars, taxes among them.                              *)
TaxIsWhole == WholeTaxes(Int)

(* No dollar is taxed away.                                                  *)
TaxIsOrderly == OrderlyTaxes(Nat)

LEMMA TaxInt ==
  ASSUME TaxIsWhole, NEW x \in Int, NEW y \in Int, NEW z \in Int PROVE Tax(x, y, z) \in Int
BY DEF TaxIsWhole, WholeTaxes

(* More income and gains are taxed more, and by no more than themselves.      *)
LEMMA TaxGrows ==
  ASSUME TaxIsWhole, TaxIsOrderly, NEW x \in Nat, NEW y \in Nat, NEW z \in Nat,
         NEW more \in Nat, NEW gain \in Nat
  PROVE  /\ Tax(x, y, z) <= Tax(x + more, y, z + gain)
         /\ Tax(x + more, y, z + gain) <= Tax(x, y, z) + more + gain
<1>1. x + more \in Int /\ z + gain \in Int /\ x \in Int /\ y \in Int /\ z \in Int
  OBVIOUS
<1>2. PICK before \in Int, after \in Int :
        before = Tax(x, y, z) /\ after = Tax(x + more, y, z + gain)
  BY <1>1, TaxInt
<1>3. after - before \in 0..(more + gain)
  BY <1>2 DEF TaxIsOrderly, OrderlyTaxes
<1> QED BY <1>2, <1>3

MagiRecord == [total : Nat, wages : Nat]

LEMMA PremiumNat ==
  ASSUME NEW p \in Plans, NEW m \in Seq(MagiRecord), NEW planned, NEW benefit, NEW a, NEW age \in Nat
  PROVE  Premium(p, m, planned, benefit, a, age) \in Nat
<1>1. p.medicarePremium \in Nat /\ p.preMedicarePremium \in Nat
  BY ProjectionAssumption DEF PlanType
<1>2. \A income : irmaa_annual_surcharge(income) \in Nat
  <2>1. ASSUME NEW income PROVE irmaa_annual_surcharge(income) \in Nat
    <3>1. Cardinality({b \in IrmaaBounds : income > b}) \in Nat
      BY RuleAssumption, FS_Subset, FS_CardinalityType
    <3>2. IrmaaStep \in Nat
      BY RuleAssumption
    <3> HIDE DEF irmaa_annual_surcharge
    <3>3. PICK n \in Nat : n = Cardinality({b \in IrmaaBounds : income > b})
      BY <3>1
    <3>4. IrmaaStep * n \in Nat
      BY <3>2, <3>3
    <3> QED BY <3>3, <3>4 DEF irmaa_annual_surcharge
  <2> QED BY <2>1
<1>3. \A prior \in PovertyLevel..SubsidyCliff :
        Lesser(Share(prior, CreditPercent), p.preMedicarePremium) \in Nat
  <2>1. ASSUME NEW prior \in PovertyLevel..SubsidyCliff
        PROVE  Lesser(Share(prior, CreditPercent), p.preMedicarePremium) \in Nat
    <3>1. prior \in Nat /\ CreditPercent \in Nat
      BY PortfolioAssumption, RuleAssumption
    <3>2. PICK share \in Nat : share = Share(prior, CreditPercent)
      BY <3>1, ShareNat
    <3> QED BY <3>2, <1>1 DEF Lesser
  <2> QED BY <2>1
<1> QED BY <1>1, <1>2, <1>3 DEF Premium

LEMMA PenaltiesNat ==
  ASSUME NEW traditional \in Nat, NEW hsa \in Nat, NEW early \in Nat, NEW age \in Nat
  PROVE  penalties_on(traditional, hsa, early, age) \in Nat
<1>1. PenaltyRate \in Nat /\ HsaPenaltyRate \in Nat
  BY RuleAssumption
<1>2. /\ Share(traditional, PenaltyRate) \in Nat /\ Share(hsa, HsaPenaltyRate) \in Nat
      /\ Share(early, PenaltyRate) \in Nat
  BY <1>1, ShareNat
<1> QED BY <1>2 DEF penalties_on

LEMMA CareCostNat ==
  ASSUME NEW e, e.halves \in Nat, e.cost \in Nat, NEW year \in Nat, NEW years \in Int,
         NEW longest \in Int
  PROVE  cost_for_year(e, year, years, longest) \in Nat
<1> DEFINE duration == Lesser(Lesser(e.halves, 2 * years), longest)
           overlap == Lesser(2, Positive(2 * year + 2 - (2 * years - duration)))
<1>1. duration \in Int
  BY DEF Lesser
<1>2. overlap \in Nat
  BY <1>1 DEF Lesser, Positive, Greater
<1>3. cost_for_year(e, year, years, longest) =
        IF duration <= 0 THEN 0 ELSE (e.cost * overlap) \div duration
  BY DEF cost_for_year
<1> HIDE DEF duration, overlap
<1>4. e.cost * overlap \in Nat
  BY <1>2
<1>5. duration > 0 => (e.cost * overlap) \div duration \in Nat
  BY <1>1, <1>4
<1> QED BY <1>1, <1>3, <1>5

LEMMA ContributionsAre ==
  ASSUME NEW p \in Plans, NEW gross \in Nat, NEW spending \in Int, NEW ordinary \in Int,
         NEW tax \in Int
  PROVE  LET c == Contributions(p, gross, spending, ordinary, tax)
         IN  c.hsa \in Nat /\ c.traditional \in Nat
<1>1. HsaLimit \in Nat /\ K401Limit \in Nat
  BY RuleAssumption
<1>2. PICK available \in Nat : available = Positive(gross + ordinary - tax - spending)
  BY PositiveNat
<1>3. PICK wanted \in Nat : /\ wanted = Lesser(IF p.hsaEligible THEN HsaLimit ELSE 0, available)
                            /\ wanted <= available
  BY <1>1, <1>2 DEF Lesser
<1>4. PICK hsa \in Nat : hsa = Lesser(wanted, gross) /\ hsa <= gross
  BY <1>3 DEF Lesser
<1>5. PICK traditional \in Nat :
        traditional = Lesser(Lesser(K401Limit, available - wanted), gross - hsa)
  BY <1>1, <1>2, <1>3, <1>4 DEF Lesser
<1>6. Contributions(p, gross, spending, ordinary, tax) = [hsa |-> hsa, traditional |-> traditional]
  BY <1>2, <1>3, <1>4, <1>5 DEF Contributions
<1> QED BY <1>6

LEMMA WorkingTaxInt ==
  ASSUME TaxIsWhole, NEW gross \in Nat, NEW ordinary \in Int, NEW gains \in Int, NEW c,
         c.hsa \in Nat, c.traditional \in Nat
  PROVE  WorkingTax(gross, ordinary, gains, c) \in Int
<1>1. PICK x \in Int : x = gross - c.hsa - c.traditional + ordinary
  OBVIOUS
<1>2. Tax(x, 0, gains) \in Int
  BY TaxInt
<1>3. PayrollTax(gross) \in Int
  BY DEF TaxIsWhole, WholeTaxes
<1> QED BY <1>1, <1>2, <1>3 DEF WorkingTax

LEMMA CashFlowIs ==
  ASSUME TaxIsWhole, NEW p \in Plans, NEW gross \in Nat, NEW spending \in Int,
         NEW ordinary \in Int, NEW gains \in Int
  PROVE  LET flow == calculate_working_cash_flow(p, gross, spending, ordinary, gains)
         IN  flow.net \in Int /\ flow.deposits \in Balances
<1> DEFINE Of(tax) == Contributions(p, gross, spending, ordinary, tax)
           NextTax(tax) == WorkingTax(gross, ordinary, gains, Of(tax))
<1>1. \A tax \in Int : Of(tax).hsa \in Nat /\ Of(tax).traditional \in Nat
  BY ContributionsAre
<1>2. \A tax \in Int : NextTax(tax) \in Int
  BY <1>1, WorkingTaxInt
<1>3. PICK none : none = [hsa |-> 0, traditional |-> 0]
  OBVIOUS
<1>4. none.hsa \in Nat /\ none.traditional \in Nat
  BY <1>3
<1>5. WorkingTax(gross, ordinary, gains, none) \in Int
  BY <1>4, WorkingTaxInt
<1>6. PICK third \in Int :
        third = NextTax(NextTax(NextTax(WorkingTax(gross, ordinary, gains,
                                                    [hsa |-> 0, traditional |-> 0]))))
  BY <1>2, <1>3, <1>5
<1>7. PICK last \in Int : last = NextTax(third)
  BY <1>2
<1>8. PICK hsa \in Nat, traditional \in Nat : hsa = Of(third).hsa /\ traditional = Of(third).traditional
  BY <1>1
<1>9. PICK net \in Int : net = gross + ordinary - last - spending - hsa - traditional
  OBVIOUS
<1>10. PICK roth \in Nat : roth = (IF p.backdoorRoth THEN Lesser(IraLimit, Positive(net)) ELSE 0)
                           /\ roth <= Positive(net)
  BY RuleAssumption, PositiveNat DEF Lesser
<1>11. Positive(net) - roth \in Nat
  BY <1>10, PositiveNat
<1>12. PICK flow : flow = calculate_working_cash_flow(p, gross, spending, ordinary, gains)
  OBVIOUS
<1>13. flow = [tax |-> last, net |-> net,
               deposits |-> [hsa |-> hsa, traditional |-> traditional, roth |-> roth,
                             taxable |-> Positive(net) - roth]]
  BY <1>6, <1>7, <1>8, <1>9, <1>10, <1>12 DEF calculate_working_cash_flow
<1>14. flow.net = net /\ flow.deposits = [hsa |-> hsa, traditional |-> traditional, roth |-> roth,
                                          taxable |-> Positive(net) - roth]
  BY <1>13
<1>15. flow.deposits \in Balances
  BY <1>11, <1>14 DEF Balances
<1> QED BY <1>12, <1>14, <1>15

(* The greater of the two rates of penalty.                                  *)
Steep == Greater(PenaltyRate, HsaPenaltyRate)

LEMMA SteepNat == Steep \in Nat
BY RuleAssumption DEF Steep, Greater

(* No penalty is more than that rate takes.                                  *)
LEMMA PenaltiesAtMost ==
  ASSUME NEW traditional \in Nat, NEW other \in Nat, NEW age \in Nat
  PROVE  /\ Steep \in Nat
         /\ penalties_on(traditional, other, 0, age) \in Nat
         /\ penalties_on(traditional, other, 0, age) <= Share(traditional + other, Steep)
<1>1. PICK p \in Nat, q \in Nat, most \in Nat :
        p = PenaltyRate /\ q = HsaPenaltyRate /\ most = Steep /\ p <= most /\ q <= most
  BY RuleAssumption DEF Steep, Greater
<1>2. PICK s1 \in Nat, s2 \in Nat, m1 \in Nat, m2 \in Nat, m \in Nat :
        /\ s1 = Share(traditional, p) /\ s2 = Share(other, q)
        /\ m1 = Share(traditional, most) /\ m2 = Share(other, most)
        /\ m = Share(traditional + other, most)
  <2>1. traditional + other \in Nat
    OBVIOUS
  <2> QED BY <1>1, <2>1, ShareNat
<1>3. s1 <= m1 /\ s2 <= m2 /\ m1 + m2 <= m
  BY <1>1, <1>2, ShareOfRate, ShareOfSum
<1>4. Share(0, p) = 0
  <2>1. 0 * p = 0 /\ 0 \div 100 = 0
    OBVIOUS
  <2> QED BY <2>1 DEF Share
<1>5. penalties_on(traditional, other, 0, age)
        = (IF age < PenaltyAge THEN s1 ELSE 0) + (IF age < MedicareAge THEN s2 ELSE 0) + 0
  BY <1>1, <1>2, <1>4 DEF penalties_on
<1>6. PICK a \in Nat, b \in Nat :
        /\ a = (IF age < PenaltyAge THEN s1 ELSE 0) /\ a <= s1
        /\ b = (IF age < MedicareAge THEN s2 ELSE 0) /\ b <= s2
  <2>1. (IF age < PenaltyAge THEN s1 ELSE 0) \in 0..s1
    OBVIOUS
  <2>2. (IF age < MedicareAge THEN s2 ELSE 0) \in 0..s2
    OBVIOUS
  <2> QED BY <2>1, <2>2
<1>7. penalties_on(traditional, other, 0, age) = a + b
  BY <1>5, <1>6
<1> QED BY <1>1, <1>2, <1>3, <1>6, <1>7

(* Taxes and penalties leave something of what was withdrawn.                 *)
LEMMA TaxLeaves ==
  ASSUME TaxIsWhole, TaxIsOrderly, NEW traditional \in Nat, NEW other \in Nat, NEW early \in Nat,
         NEW age \in Nat, NEW benefit \in Nat, NEW gain \in Nat
  PROVE  Tax(traditional + other, benefit, gain) + penalties_on(traditional, other, early, age)
           <= traditional + other + early + benefit + gain
<1>1. PICK p \in Nat, q \in Nat, most \in Nat :
        /\ p = PenaltyRate /\ q = HsaPenaltyRate /\ most = Greater(PenaltyRate, HsaPenaltyRate)
        /\ p <= most /\ q <= most /\ p <= 100
  BY RuleAssumption DEF Greater
<1>2. \A x \in Nat, r \in Nat, t \in Nat : r <= t => Share(x, r) <= Share(x, t)
  BY ShareOfRate
<1>3. \A x \in Nat : Share(x, 100) = x
  BY DEF Share
<1>4. PICK s1 \in Nat, s2 \in Nat, s3 \in Nat :
        s1 = Share(traditional, p) /\ s2 = Share(other, q) /\ s3 = Share(early, p)
  BY <1>1, ShareNat
<1>5. PICK m1 \in Nat, m2 \in Nat, m \in Nat :
        m1 = Share(traditional, most) /\ m2 = Share(other, most) /\ m = Share(traditional + other, most)
  <2>1. traditional + other \in Nat
    OBVIOUS
  <2> QED BY <1>1, <2>1, ShareNat
<1>6. s1 <= m1 /\ s2 <= m2
  BY <1>1, <1>2, <1>4, <1>5
<1>7. s3 <= early
  <2>1. Share(early, p) <= Share(early, 100)
    BY <1>1, <1>2
  <2> QED BY <1>3, <1>4, <2>1
<1>8. m1 + m2 <= m
  BY <1>5, ShareOfSum
<1>9. PICK ordinary \in Nat : ordinary = traditional + other
  OBVIOUS
<1>10. PICK tax \in Int : tax = Tax(ordinary, benefit, gain)
  <2>1. ordinary \in Int /\ benefit \in Int /\ gain \in Int
    OBVIOUS
  <2> QED BY <2>1, TaxInt
<1>11. tax + m <= ordinary + benefit + gain
  <2>1. PICK payroll \in Nat : payroll = PayrollTax(0)
    <3>1. PayrollTax(0) \in Int
      BY DEF TaxIsWhole, WholeTaxes
    <3>2. PayrollTax(0) >= 0
      BY DEF TaxIsOrderly, OrderlyTaxes
    <3> QED BY <3>1, <3>2
  <2>2. Tax(0 + ordinary, benefit, gain) + PayrollTax(0)
          + Share(ordinary, Greater(PenaltyRate, HsaPenaltyRate)) <= 0 + ordinary + benefit + gain
    BY DEF TaxIsOrderly, OrderlyTaxes
  <2>3. 0 + ordinary = ordinary
    OBVIOUS
  <2>4. Tax(ordinary, benefit, gain) + payroll + m <= ordinary + benefit + gain
    BY <1>1, <1>5, <1>9, <2>1, <2>2, <2>3
  <2> QED BY <1>10, <2>1, <2>4
<1>12. PICK penalties \in Nat : /\ penalties = penalties_on(traditional, other, early, age)
                                /\ penalties <= s1 + s2 + s3
  <2>1. penalties_on(traditional, other, early, age) \in Nat
    BY PenaltiesNat
  <2>2. penalties_on(traditional, other, early, age)
          = (IF age < PenaltyAge THEN s1 ELSE 0) + (IF age < MedicareAge THEN s2 ELSE 0) + s3
    BY <1>1, <1>4 DEF penalties_on
  <2>3. (IF age < PenaltyAge THEN s1 ELSE 0) + (IF age < MedicareAge THEN s2 ELSE 0) + s3
          <= s1 + s2 + s3
    <3>1. PICK a \in Nat : a = (IF age < PenaltyAge THEN s1 ELSE 0) /\ a <= s1
      OBVIOUS
    <3>2. PICK b \in Nat : b = (IF age < MedicareAge THEN s2 ELSE 0) /\ b <= s2
      OBVIOUS
    <3> QED BY <3>1, <3>2
  <2> QED BY <2>1, <2>2, <2>3
<1> QED BY <1>6, <1>7, <1>8, <1>9, <1>10, <1>11, <1>12

(* What is contributed when that much cash is available: the limits, one      *)
(* after the other, and never more than the wages.                           *)
Contributed(p, gross, available) ==
  LET hsa == Lesser(IF p.hsaEligible THEN HsaLimit ELSE 0, available)
  IN  Lesser(hsa + Lesser(K401Limit, available - hsa), gross)

LEMMA ContributedIs ==
  ASSUME NEW p \in Plans, NEW gross \in Nat, NEW spending \in Int, NEW ordinary \in Int,
         NEW tax \in Int
  PROVE  LET c == Contributions(p, gross, spending, ordinary, tax)
         IN  c.hsa + c.traditional
               = Contributed(p, gross, Positive(gross + ordinary - tax - spending))
<1>1. PICK limit \in Nat, other \in Nat :
        limit = (IF p.hsaEligible THEN HsaLimit ELSE 0) /\ other = K401Limit
  BY RuleAssumption
<1>2. PICK available \in Nat : available = Positive(gross + ordinary - tax - spending)
  BY PositiveNat
<1>3. PICK wanted \in Nat : wanted = Lesser(limit, available) /\ wanted <= available
  BY DEF Lesser
<1>4. PICK next \in Nat : next = Lesser(other, available - wanted)
  <2>1. PICK rest \in Nat : rest = available - wanted
    BY <1>3
  <2> QED BY <2>1, LesserOf
<1>5. PICK hsa \in Nat : hsa = Lesser(wanted, gross) /\ hsa <= gross /\ hsa <= wanted
                         /\ (hsa = wanted \/ hsa = gross)
  BY DEF Lesser
<1>6. PICK traditional \in Nat : traditional = Lesser(next, gross - hsa)
  <2>1. PICK rest \in Nat : rest = gross - hsa
    BY <1>5
  <2> QED BY <2>1, LesserOf
<1>7. Contributions(p, gross, spending, ordinary, tax) = [hsa |-> hsa, traditional |-> traditional]
  BY <1>1, <1>2, <1>3, <1>4, <1>5, <1>6 DEF Contributions
<1>8. Contributed(p, gross, available) = Lesser(wanted + next, gross)
  BY <1>1, <1>3, <1>4 DEF Contributed
<1>9. hsa + traditional = Lesser(wanted + next, gross)
  BY <1>5, <1>6 DEF Lesser
<1> QED BY <1>2, <1>7, <1>8, <1>9

LEMMA ContributedGrows ==
  ASSUME NEW p \in Plans, NEW gross \in Nat, NEW few \in Nat, NEW many \in Nat, few <= many
  PROVE  /\ Contributed(p, gross, few) \in Nat /\ Contributed(p, gross, few) <= few
         /\ Contributed(p, gross, few) <= gross
         /\ Contributed(p, gross, few) <= Contributed(p, gross, many)
<1>1. PICK limit \in Nat, other \in Nat :
        limit = (IF p.hsaEligible THEN HsaLimit ELSE 0) /\ other = K401Limit
  BY RuleAssumption
<1>2. Contributed(p, gross, few)
        = Lesser(Lesser(limit, few) + Lesser(other, few - Lesser(limit, few)), gross)
  BY <1>1 DEF Contributed
<1>3. Contributed(p, gross, many)
        = Lesser(Lesser(limit, many) + Lesser(other, many - Lesser(limit, many)), gross)
  BY <1>1 DEF Contributed
<1>4. PICK w \in Nat, u \in Nat : /\ w = Lesser(limit, few) /\ u = Lesser(limit, many)
                                 /\ w <= u /\ few - w <= many - u /\ w <= few /\ u <= many
  BY DEF Lesser
<1>5. PICK v \in Nat, t \in Nat : /\ v = Lesser(other, few - w) /\ t = Lesser(other, many - u)
                                 /\ v <= t /\ v <= few - w
  <2>1. PICK less \in Nat, rest \in Nat : less = few - w /\ rest = many - u /\ less <= rest
    BY <1>4
  <2>2. PICK v \in Nat : v = Lesser(other, less) /\ v <= less /\ v <= other
    BY LesserOf
  <2>3. PICK t \in Nat : t = Lesser(other, rest) /\ (t = other \/ t = rest)
    <3>1. Lesser(other, rest) \in Nat /\ Lesser(other, rest) \in {other, rest}
      BY DEF Lesser
    <3> QED BY <3>1
  <2> QED BY <2>1, <2>2, <2>3
<1> QED BY <1>2, <1>3, <1>4, <1>5 DEF Lesser

NoContribution == [hsa |-> 0, traditional |-> 0]

(* A working year's books. Contributions lower the tax, and the tax found     *)
(* last is of the contributions made; where taxes and spending leave nothing, *)
(* nothing is contributed.                                                   *)
LEMMA FlowBooks ==
  ASSUME TaxIsWhole, TaxIsOrderly, NEW p \in Plans, NEW gross \in Nat, NEW spending \in Int,
         NEW ordinary \in Nat, NEW gains \in Nat
  PROVE  LET flow == calculate_working_cash_flow(p, gross, spending, ordinary, gains)
             plain == gross + ordinary - WorkingTax(gross, ordinary, gains, NoContribution) - spending
         IN  /\ flow.net \in Int /\ flow.tax \in Int /\ flow.deposits \in Balances
             /\ TotalOf(flow.deposits) + flow.tax + spending + flow.net
                  = gross + ordinary + Positive(flow.net)
             /\ plain <= 0 \/ flow.net < 0 => flow.net = plain
<1> DEFINE Of(tax) == Contributions(p, gross, spending, ordinary, tax)
           NextTax(tax) == WorkingTax(gross, ordinary, gains, Of(tax))
           Left(tax) == Positive(gross + ordinary - tax - spending)
           C(tax) == Contributed(p, gross, Left(tax))
           After(c) == Tax(gross + ordinary - c, 0, gains) + PayrollTax(gross)
<1>1. \A tax \in Int : /\ Left(tax) \in Nat /\ Of(tax).hsa \in Nat /\ Of(tax).traditional \in Nat
                       /\ Of(tax).hsa + Of(tax).traditional = C(tax)
                       /\ C(tax) \in Nat /\ C(tax) <= gross /\ C(tax) <= Left(tax)
  <2>1. ASSUME NEW tax \in Int
        PROVE  /\ Left(tax) \in Nat /\ Of(tax).hsa \in Nat /\ Of(tax).traditional \in Nat
               /\ Of(tax).hsa + Of(tax).traditional = C(tax)
               /\ C(tax) \in Nat /\ C(tax) <= gross /\ C(tax) <= Left(tax)
    <3>1. Left(tax) \in Nat
      <4>1. gross + ordinary - tax - spending \in Int
        OBVIOUS
      <4> QED BY <4>1, PositiveNat
    <3>2. ordinary \in Int
      OBVIOUS
    <3> HIDE DEF Left
    <3>3. C(tax) \in Nat /\ C(tax) <= gross /\ C(tax) <= Left(tax)
      BY <3>1, ContributedGrows
    <3>4. Of(tax).hsa + Of(tax).traditional = C(tax)
      BY <3>2, ContributedIs DEF Left
    <3>5. Of(tax).hsa \in Nat /\ Of(tax).traditional \in Nat
      BY <3>2, ContributionsAre
    <3> QED BY <3>1, <3>3, <3>4, <3>5
  <2> QED BY <2>1
<1>2. \A tax, more \in Int : tax <= more => C(more) <= C(tax)
  <2>1. ASSUME NEW tax \in Int, NEW more \in Int, tax <= more PROVE C(more) <= C(tax)
    <3>1. Left(more) <= Left(tax)
      BY <2>1 DEF Positive, Greater
    <3>2. Left(more) \in Nat /\ Left(tax) \in Nat
      BY <1>1
    <3> HIDE DEF Left
    <3> QED BY <3>1, <3>2, ContributedGrows
  <2> QED BY <2>1
<1> HIDE DEF C
<1>3. \A c \in 0..gross : After(c) \in Int /\ \A d \in 0..gross : c <= d => After(d) <= After(c)
  <2>1. ASSUME NEW c \in 0..gross, NEW d \in 0..gross, c <= d
        PROVE  After(c) \in Int /\ After(d) \in Int /\ After(d) <= After(c)
    <3>1. PICK x \in Nat, more \in Nat : x = gross + ordinary - d /\ more = d - c
      BY <2>1
    <3>2. x + more = gross + ordinary - c /\ gains + 0 = gains
      BY <3>1
    <3>3. Tax(x, 0, gains) <= Tax(x + more, 0, gains + 0)
      BY TaxGrows
    <3>4. PICK low \in Int, high \in Int, payroll \in Int :
            low = Tax(x, 0, gains) /\ high = Tax(x + more, 0, gains) /\ payroll = PayrollTax(gross)
      <4>1. x \in Int /\ x + more \in Int /\ gains \in Int /\ gross \in Int
        OBVIOUS
      <4>2. PayrollTax(gross) \in Int
        BY <4>1 DEF TaxIsWhole, WholeTaxes
      <4>3. Tax(x, 0, gains) \in Int /\ Tax(x + more, 0, gains) \in Int
        <5>1. 0 \in Int
          OBVIOUS
        <5> QED BY <4>1, <5>1, TaxInt
      <4> QED BY <4>2, <4>3
    <3>5. After(d) = low + payroll /\ After(c) = high + payroll /\ low <= high
      BY <3>1, <3>2, <3>3, <3>4
    <3> QED BY <3>4, <3>5
  <2> QED BY <2>1
<1>4. \A tax \in Int : NextTax(tax) = After(C(tax))
  <2>1. ASSUME NEW tax \in Int PROVE NextTax(tax) = After(C(tax))
    <3>1. PICK h \in Nat, t \in Nat : h = Of(tax).hsa /\ t = Of(tax).traditional /\ h + t = C(tax)
      BY <1>1
    <3>2. gross - h - t + ordinary = gross + ordinary - C(tax)
      BY <3>1
    <3> QED BY <3>1, <3>2 DEF WorkingTax
  <2> QED BY <2>1
<1>5. PICK top \in Int : top = After(0)
  BY <1>3
<1>6. WorkingTax(gross, ordinary, gains, NoContribution) = top
  <2>1. gross - 0 - 0 + ordinary = gross + ordinary - 0
    OBVIOUS
  <2> QED BY <1>5, <2>1 DEF WorkingTax, NoContribution
<1>7. \A tax \in Int : /\ C(tax) \in 0..gross /\ NextTax(tax) \in Int /\ NextTax(tax) <= top
                       /\ (C(tax) = 0 => NextTax(tax) = top)
                       /\ \A more \in Int : tax <= more => NextTax(tax) <= NextTax(more)
  <2> HIDE DEF NextTax, After
  <2>1. ASSUME NEW tax \in Int
        PROVE  /\ C(tax) \in 0..gross /\ NextTax(tax) \in Int /\ NextTax(tax) <= top
               /\ (C(tax) = 0 => NextTax(tax) = top)
    <3>1. PICK c \in 0..gross : c = C(tax)
      <4>1. C(tax) \in 0..gross
        BY <1>1
      <4> QED BY <4>1
    <3>2. 0 \in 0..gross /\ 0 <= c
      OBVIOUS
    <3>3. After(c) \in Int /\ After(c) <= After(0)
      BY <1>3, <3>2
    <3> QED BY <1>4, <1>5, <3>1, <3>3
  <2>2. ASSUME NEW tax \in Int, NEW more \in Int, tax <= more
        PROVE  NextTax(tax) <= NextTax(more)
    <3>1. PICK c \in 0..gross, d \in 0..gross : c = C(more) /\ d = C(tax) /\ c <= d
      <4>1. C(more) \in 0..gross /\ C(tax) \in 0..gross
        BY <1>1
      <4>2. C(more) <= C(tax)
        BY <1>2, <2>2
      <4> QED BY <4>1, <4>2
    <3>2. After(d) <= After(c)
      BY <1>3, <3>1
    <3> QED BY <1>4, <3>1, <3>2
  <2> QED BY <2>1, <2>2
<1> HIDE DEF NextTax, After
<1>8. PICK t1 \in Int, t2 \in Int, third \in Int, last \in Int :
        /\ t1 = NextTax(top) /\ t2 = NextTax(t1) /\ third = NextTax(t2) /\ last = NextTax(third)
        /\ t1 <= top /\ t2 <= t1 /\ third <= t2 /\ last <= third
  <2>1. PICK t1 \in Int : t1 = NextTax(top) /\ t1 <= top
    BY <1>7
  <2>2. PICK t2 \in Int : t2 = NextTax(t1) /\ t2 <= t1
    BY <1>7, <2>1
  <2>3. PICK third \in Int : third = NextTax(t2) /\ third <= t2
    BY <1>7, <2>2
  <2>4. PICK last \in Int : last = NextTax(third) /\ last <= third
    BY <1>7, <2>3
  <2> QED BY <2>1, <2>2, <2>3, <2>4
<1>9. PICK hsa \in Nat, traditional \in Nat :
        hsa = Of(third).hsa /\ traditional = Of(third).traditional /\ hsa + traditional = C(third)
  BY <1>1
<1>10. PICK net \in Int : net = gross + ordinary - last - spending - hsa - traditional
  OBVIOUS
<1>11. PICK over \in Nat, roth \in Nat, rest \in Nat :
         /\ over = Positive(net) /\ rest = over - roth
         /\ roth = (IF p.backdoorRoth THEN Lesser(IraLimit, Positive(net)) ELSE 0)
  <2>1. PICK over \in Nat : over = Positive(net)
    BY PositiveNat
  <2>2. PICK roth \in Nat :
          roth = (IF p.backdoorRoth THEN Lesser(IraLimit, over) ELSE 0) /\ roth <= over
    BY RuleAssumption DEF Lesser
  <2>3. over - roth \in Nat
    BY <2>2
  <2> QED BY <2>1, <2>2, <2>3
<1>12. PICK flow : flow = calculate_working_cash_flow(p, gross, spending, ordinary, gains)
  OBVIOUS
<1>13. flow = [tax |-> last, net |-> net,
               deposits |-> [hsa |-> hsa, traditional |-> traditional, roth |-> roth, taxable |-> rest]]
  BY <1>6, <1>8, <1>9, <1>10, <1>11, <1>12
     DEF calculate_working_cash_flow, NextTax, NoContribution
<1>14. flow.net = net /\ flow.tax = last
       /\ flow.deposits = [hsa |-> hsa, traditional |-> traditional, roth |-> roth, taxable |-> rest]
  BY <1>13
<1>15. TotalOf(flow.deposits) = rest + traditional + roth + hsa
  BY <1>14 DEF TotalOf
<1>16. flow.deposits \in Balances
  BY <1>14 DEF Balances
<1>17. TotalOf(flow.deposits) + last + spending + net = gross + ordinary + over
  BY <1>10, <1>11, <1>15
<1>18. PICK plain \in Int : plain = gross + ordinary - top - spending
  OBVIOUS
<1>19. plain <= 0 => net = plain
  <2>1. ASSUME plain <= 0 PROVE net = plain
    <3>1. Left(top) = 0
      BY <1>18, <2>1 DEF Positive, Greater
    <3>2. C(top) = 0
      BY <1>1, <3>1
    <3>3. t1 = top /\ t2 = top /\ third = top /\ last = top
      BY <1>7, <1>8, <3>2
    <3>4. hsa + traditional = 0
      BY <1>9, <3>2, <3>3
    <3> QED BY <1>9, <1>10, <1>18, <3>3, <3>4
  <2> QED BY <2>1
<1>20. net < 0 => net = plain
  <2>1. ASSUME net < 0 PROVE net = plain
    <3>1. PICK left \in Nat : left = Left(third) /\ hsa + traditional <= left
      BY <1>1, <1>9
    <3>2. left = 0
      <4>1. left > 0 => left = gross + ordinary - third - spending
        BY <3>1 DEF Positive, Greater
      <4> QED BY <1>8, <1>10, <2>1, <3>1, <4>1
    <3>3. C(third) = 0 /\ hsa = 0 /\ traditional = 0
      BY <1>9, <3>1, <3>2
    <3>4. last = top
      BY <1>7, <1>8, <3>3
    <3> QED BY <1>10, <1>18, <3>3, <3>4
  <2> QED BY <2>1
<1> QED BY <1>6, <1>11, <1>12, <1>14, <1>16, <1>17, <1>18, <1>19, <1>20

-----------------------------------------------------------------------------
(* The retirement year and the conversion *)

(* What a year's withdrawals depend on.                                      *)
Context(c) == c.age \in Nat /\ c.benefit \in Nat /\ c.rmd \in Nat /\ c.allowance \in Nat

(* The forced distribution first, then a draw from what it left: within the   *)
(* buckets and the allowance, dollar for dollar, everything when the budget   *)
(* is everything, and, beyond the distribution and while a Roth balance is    *)
(* left, under each threshold that the other income has not passed.          *)
Evaluates(e, p, a, c, budget) ==
  LET forced == Lesser(c.rmd, a.balance.traditional)
      gain == Share(e.w.taxable, GainRatio)
  IN  /\ e.balance \in Balances /\ e.w \in Balances /\ e.cash \in Int /\ e.taxes \in Int
      /\ e.qualified \in Nat /\ e.qualified <= c.allowance
      /\ TotalOf(e.balance) + TotalOf(e.w) = TotalOf(a.balance)
      /\ e.cash = c.benefit + TotalOf(e.w) - e.taxes
      /\ TaxIsOrderly => e.cash >= 0
      /\ budget = 0 => TotalOf(e.balance) + forced = TotalOf(a.balance)
      /\ budget + forced >= TotalOf(a.balance) => TotalOf(e.balance) = 0
      /\ p.magiAware /\ e.w.traditional > c.rmd /\ e.balance.roth > 0 =>
           \A t \in Thresholds(p, c.age, c.benefit + c.rmd + gain) :
             c.benefit + e.w.traditional + gain <= t

LEMMA EvaluationIs ==
  ASSUME TaxIsWhole, NEW p, NEW a \in Accounts, NEW ledger, ledger \in Basis, NEW c, Context(c),
         NEW budget \in Nat
  PROVE  Evaluates(evaluate_ordered_withdrawals(p, a, ledger, c, budget), p, a, c, budget)
<1>1. PICK b \in Balances, h \in SUBSET AccountType, k \in SUBSET AccountType :
        a = [balance |-> b, held |-> h, cash |-> k]
  BY AccountsIs
<1>2. /\ b = [taxable |-> b.taxable, traditional |-> b.traditional, roth |-> b.roth, hsa |-> b.hsa]
      /\ b.taxable \in Nat /\ b.traditional \in Nat /\ b.roth \in Nat /\ b.hsa \in Nat
  BY DEF Balances
<1>3. c.age \in Nat /\ c.benefit \in Nat /\ c.rmd \in Nat /\ c.allowance \in Nat
  BY DEF Context
<1>4. PICK forced \in Nat :
        /\ forced = Lesser(c.rmd, b.traditional) /\ forced <= c.rmd /\ forced <= b.traditional
        /\ (forced = c.rmd \/ forced = b.traditional)
  BY <1>2, <1>3 DEF Lesser
<1>5. PICK rest \in Balances :
        rest = [taxable |-> b.taxable, traditional |-> b.traditional - forced,
                roth |-> b.roth, hsa |-> b.hsa]
  <2>1. b.traditional - forced \in Nat
    BY <1>2, <1>4
  <2> QED BY <1>2, <2>1 DEF Balances
<1>6. PICK left \in Accounts : left = [balance |-> rest, held |-> h, cash |-> k]
  BY AccountsIs
<1>7. left = [a EXCEPT !.balance.traditional = @ - forced] /\ left.balance = rest
  BY <1>1, <1>2, <1>5, <1>6
<1>8. PICK drawn : drawn = apply_withdrawal_order(p, left, budget, c.age, c.benefit + forced)
  OBVIOUS
<1>9. PICK committed \in Nat : committed = c.benefit + forced
  BY <1>3
<1>10. Draws(drawn, p, left, budget, c.age, committed)
  <2>1. budget \in Int
    OBVIOUS
  <2> QED BY <1>3, <1>8, <1>9, <2>1, DrawIs
<1>11. /\ drawn \in Balances
       /\ drawn = [taxable |-> drawn.taxable, traditional |-> drawn.traditional,
                   roth |-> drawn.roth, hsa |-> drawn.hsa]
       /\ drawn.taxable \in Nat /\ drawn.traditional \in Nat /\ drawn.roth \in Nat /\ drawn.hsa \in Nat
       /\ drawn.taxable <= b.taxable /\ drawn.traditional <= b.traditional - forced
       /\ drawn.roth <= b.roth /\ drawn.hsa <= b.hsa
  BY <1>2, <1>4, <1>5, <1>7, <1>10 DEF Draws, Within, Balances
<1>12. PICK w \in Balances : /\ w = [drawn EXCEPT !.traditional = @ + forced]
                             /\ w.taxable = drawn.taxable /\ w.roth = drawn.roth /\ w.hsa = drawn.hsa
                             /\ w.traditional = drawn.traditional + forced
  <2>1. PICK w : w = [taxable |-> drawn.taxable, traditional |-> drawn.traditional + forced,
                      roth |-> drawn.roth, hsa |-> drawn.hsa]
    OBVIOUS
  <2>2. drawn.traditional + forced \in Nat
    BY <1>4, <1>11
  <2>3. w \in Balances
    BY <1>11, <2>1, <2>2 DEF Balances
  <2>4. w = [drawn EXCEPT !.traditional = @ + forced]
    BY <1>11, <2>1
  <2> QED BY <2>1, <2>3, <2>4
<1>13. PICK qualified \in Nat : /\ qualified = Lesser(w.hsa, c.allowance)
                                /\ qualified <= c.allowance /\ qualified <= w.hsa
  BY <1>3, <1>11, <1>12 DEF Lesser
<1>14. PICK gain \in Nat : gain = TaxableGain(a, drawn) /\ gain <= w.taxable
  BY <1>11, <1>12, GainAtMost DEF TaxableGain
<1>15. PICK early \in Nat : early = EarlyPrincipal(ledger, w.roth, c.age) /\ early <= w.roth
  <2>1. ledger.regular \in Nat /\ ledger.unseasoned \in Nat
    BY DEF Basis
  <2>2. w.roth \in Nat
    BY <1>11, <1>12
  <2> QED BY <2>1, <2>2 DEF EarlyPrincipal, Lesser, Positive, Greater
<1>16. PICK taxes \in Int :
         taxes = Tax(w.traditional + w.hsa - qualified, c.benefit, gain)
                 + penalties_on(w.traditional, w.hsa - qualified, early, c.age)
  <2>1. PICK ordinary \in Int, other \in Nat, traditional \in Nat :
          ordinary = w.traditional + w.hsa - qualified /\ other = w.hsa - qualified
          /\ traditional = w.traditional
    BY <1>4, <1>11, <1>12, <1>13
  <2>2. Tax(ordinary, c.benefit, gain) \in Int
    <3>1. c.benefit \in Int /\ gain \in Int
      BY <1>3
    <3> QED BY <3>1, TaxInt
  <2>3. penalties_on(traditional, other, early, c.age) \in Nat
    BY <1>3, PenaltiesNat
  <2> QED BY <2>1, <2>2, <2>3
<1>17. PICK total \in Nat : total = TotalOf(w)
  BY TotalNat
<1>18. PICK e : e = evaluate_ordered_withdrawals(p, a, ledger, c, budget)
  OBVIOUS
<1>19. e = [balance |-> Less(rest, drawn), w |-> w, qualified |-> qualified, taxes |-> taxes,
            cash |-> c.benefit + total - taxes]
  BY <1>1, <1>4, <1>7, <1>8, <1>12, <1>13, <1>14, <1>15, <1>16, <1>17, <1>18
     DEF evaluate_ordered_withdrawals, Evaluated
<1>20. e.balance = Less(rest, drawn) /\ e.w = w /\ e.qualified = qualified /\ e.taxes = taxes
       /\ e.cash \in Int /\ e.cash = c.benefit + TotalOf(e.w) - e.taxes
  BY <1>3, <1>17, <1>19
<1>21. e.balance \in Balances
  BY <1>7, <1>10, <1>20, LessTyped DEF Draws
<1>22. TotalOf(e.balance) + forced + TotalOf(drawn) = TotalOf(b)
  BY <1>2, <1>4, <1>5, <1>11, <1>20 DEF Less, TotalOf
<1>23. /\ budget = 0 => TotalOf(drawn) = 0
       /\ budget + forced >= TotalOf(b) => TotalOf(drawn) = TotalOf(rest)
  <2>1. TotalOf(drawn) \in Nat
    BY <1>11, TotalNat
  <2>2. TotalOf(rest) = TotalOf(b) - forced /\ TotalOf(rest) \in Nat /\ TotalOf(b) \in Int
    BY <1>2, <1>4, <1>5 DEF TotalOf
  <2>3. budget = 0 => Positive(budget) = 0
    BY DEF Positive, Greater
  <2>4. (budget >= TotalOf(rest) => drawn = rest) /\ TotalOf(drawn) <= Positive(budget)
    BY <1>7, <1>10 DEF Draws
  <2> QED BY <1>4, <2>1, <2>2, <2>3, <2>4
<1>24. TotalOf(rest) = TotalOf(b) - forced /\ TotalOf(b) \in Nat /\ TotalOf(e.balance) \in Nat
  BY <1>2, <1>4, <1>5, <1>21, TotalNat DEF TotalOf
<1>25. ASSUME p.magiAware, w.traditional > c.rmd, e.balance.roth > 0,
              NEW t \in Thresholds(p, c.age, c.benefit + c.rmd + Share(w.taxable, GainRatio))
       PROVE  c.benefit + w.traditional + Share(w.taxable, GainRatio) <= t
  <2>1. drawn.traditional > 0 /\ forced = c.rmd
    <3>1. drawn.traditional + forced > c.rmd
      BY <1>12, <1>25
    <3>2. drawn.traditional \in Nat /\ b.traditional \in Nat /\ c.rmd \in Nat
          /\ drawn.traditional <= b.traditional - forced
      BY <1>2, <1>3, <1>11
    <3> QED BY <1>4, <3>1, <3>2
  <2>2. drawn.roth < rest.roth
    BY <1>2, <1>5, <1>11, <1>20, <1>25 DEF Less
  <2>3. PICK realized \in Nat : realized = Share(drawn.taxable, GainRatio)
    BY <1>11, GainNat
  <2>4. PICK income \in Nat : income = committed + realized /\ income = c.benefit + c.rmd + realized
    BY <1>3, <1>9, <2>1
  <2>5. t \in Thresholds(p, c.age, income) /\ t \in Nat /\ CeilingMargin \in Nat
    BY <1>12, <1>25, <2>3, <2>4, ThresholdsNat, PortfolioAssumption
  <2>6. income + drawn.traditional + CeilingMargin <= t
    BY <1>7, <1>10, <1>25, <2>1, <2>2, <2>3, <2>4, <2>5 DEF Draws
  <2>7. w.traditional = drawn.traditional + c.rmd /\ realized = Share(w.taxable, GainRatio)
    BY <1>12, <2>1, <2>3
  <2> QED BY <1>3, <1>11, <2>3, <2>4, <2>5, <2>6, <2>7
<1>26. /\ budget = 0 => TotalOf(e.balance) + forced = TotalOf(b)
       /\ budget + forced >= TotalOf(b) => TotalOf(e.balance) = 0
  BY <1>4, <1>22, <1>23, <1>24
<1>27. TotalOf(e.balance) + TotalOf(e.w) = TotalOf(b)
  <2>1. TotalOf(w) = forced + TotalOf(drawn)
    BY <1>4, <1>11, <1>12 DEF TotalOf
  <2>2. TotalOf(drawn) \in Nat
    BY <1>11, TotalNat
  <2> QED BY <1>20, <1>22, <1>24, <2>1, <2>2
<1>28. ASSUME TaxIsOrderly PROVE e.cash >= 0
  <2>1. PICK traditional \in Nat, other \in Nat, hsa \in Nat, roth \in Nat, sold \in Nat :
          /\ traditional = w.traditional /\ hsa = w.hsa /\ other = w.hsa - qualified
          /\ roth = w.roth /\ sold = w.taxable
    BY <1>4, <1>11, <1>12, <1>13
  <2>2. Tax(traditional + other, c.benefit, gain) + penalties_on(traditional, other, early, c.age)
          <= traditional + other + early + c.benefit + gain
    BY <1>3, <1>28, TaxLeaves
  <2>3. w.traditional + w.hsa - qualified = traditional + other
    BY <2>1
  <2>4. taxes <= traditional + other + early + c.benefit + gain
    BY <1>16, <2>1, <2>2, <2>3
  <2>5. total = sold + traditional + roth + hsa
    BY <1>17, <2>1 DEF TotalOf
  <2>6. other <= hsa
    BY <2>1
  <2> QED BY <1>3, <1>14, <1>15, <1>17, <1>20, <2>1, <2>4, <2>5, <2>6
<1> QED BY <1>1, <1>4, <1>13, <1>18, <1>20, <1>21, <1>25, <1>26, <1>27, <1>28 DEF Evaluates

(* A search that ends without the money has sold everything.                 *)
LEMMA SolutionIs ==
  ASSUME TaxIsWhole, NEW p, NEW a \in Accounts, NEW ledger, ledger \in Basis, NEW c, Context(c),
         NEW target \in Int, NEW found \in Solutions(p, a, ledger, c, target)
  PROVE  \E budget \in Nat :
           /\ found = evaluate_ordered_withdrawals(p, a, ledger, c, budget)
           /\ ~Funds(found, target) => TotalOf(found.balance) = 0
<1> DEFINE E(budget) == evaluate_ordered_withdrawals(p, a, ledger, c, budget)
           forced == Lesser(c.rmd, a.balance.traditional)
           most == TotalOf(E(0).balance)
           best == [budget \in 0..most |-> E(budget)]
<1>0. \A budget \in Nat : Evaluates(E(budget), p, a, c, budget)
  BY EvaluationIs
<1> HIDE DEF E
<1>1. /\ E(0).balance \in Balances
      /\ most + forced = TotalOf(a.balance)
  BY <1>0 DEF Evaluates
<1>2. most \in Nat
  BY <1>1, TotalNat
<1>3. most + forced >= TotalOf(a.balance)
  <2>1. a.balance \in Balances
    BY DEF Accounts
  <2>2. TotalOf(a.balance) \in Nat
    BY <2>1, TotalNat
  <2> QED BY <1>1, <2>2
<1>4. TotalOf(E(most).balance) = 0
  <2> HIDE DEF most
  <2> QED BY <1>0, <1>2, <1>3 DEF Evaluates
<1>5. found \in Ends(best, most, target)
  BY DEF Solutions, E
<1> HIDE DEF most
<1>6. best[0] = E(0) /\ best[most] = E(most) /\ 0 \in 0..most /\ most \in 0..most
  BY <1>2
<1>7. \/ found = best[0] /\ Funds(best[0], target)
      \/ found = best[most]
      \/ \E budget \in 1..most : found = best[budget] /\ Funds(best[budget], target)
  BY <1>5 DEF Ends
<1>8. CASE found = best[0] /\ Funds(best[0], target)
  BY <1>6, <1>8 DEF E
<1>9. CASE found = best[most]
  BY <1>2, <1>4, <1>6, <1>9 DEF E
<1>10. ASSUME NEW budget \in 1..most, found = best[budget], Funds(best[budget], target)
       PROVE  found = E(budget) /\ Funds(found, target) /\ budget \in Nat
  BY <1>2, <1>10
<1> QED BY <1>7, <1>8, <1>9, <1>10 DEF E

LEMMA OutcomeIs ==
  ASSUME TaxIsWhole, NEW a \in Accounts, NEW y, y.w \in Balances, y.benefit \in Nat,
         NEW converted \in Nat
  PROVE  LET c == outcome_of(a, y, converted)
         IN  /\ c.converted = converted /\ c.tax \in Nat
             /\ c.fromTaxable \in Nat /\ c.fromTaxable <= a.balance.taxable
             /\ c.withheld \in Nat /\ c.withheld <= converted
             /\ TaxIsOrderly => c.tax = c.fromTaxable + c.withheld
<1>1. PICK taxable \in Nat : taxable = a.balance.taxable
  BY DEF Accounts, Balances
<1>2. PICK traditional \in Nat, gains \in Nat :
        traditional = y.w.traditional /\ gains = Share(y.w.taxable, GainRatio)
  <2>1. y.w.traditional \in Nat /\ y.w.taxable \in Nat
    BY DEF Balances
  <2> QED BY <2>1, GainNat
<1>3. PICK before \in Int : before = Tax(traditional, y.benefit, gains)
  <2>1. traditional \in Int /\ y.benefit \in Int /\ gains \in Int
    OBVIOUS
  <2> QED BY <2>1, TaxInt
<1> DEFINE Owed(sold) == Positive(Tax(traditional + converted, y.benefit,
                                      gains + Share(sold, GainRatio)) - before)
           Sold(sold) == Lesser(Owed(sold), taxable)
           third == Sold(Sold(Sold(0)))
<1>4. \A sold \in Nat : Owed(sold) \in Nat
  <2>1. ASSUME NEW sold \in Nat PROVE Owed(sold) \in Nat
    <3>1. PICK gain \in Int : gain = gains + Share(sold, GainRatio)
      BY GainNat
    <3>2. PICK ordinary \in Int : ordinary = traditional + converted
      OBVIOUS
    <3>3. PICK after \in Int : after = Tax(ordinary, y.benefit, gain)
      <4>1. y.benefit \in Int
        OBVIOUS
      <4> QED BY <4>1, TaxInt
    <3> QED BY <3>1, <3>2, <3>3 DEF Positive, Greater
  <2> QED BY <2>1
<1>5. outcome_of(a, y, converted) =
        [converted |-> converted, tax |-> Owed(third), fromTaxable |-> Sold(third),
         withheld |-> Lesser(converted, Owed(third) - Sold(third))]
  BY <1>1, <1>2, <1>3 DEF outcome_of
<1>a. TaxIsOrderly => \A sold \in Nat : Owed(sold) <= converted + sold
  <2>1. ASSUME TaxIsOrderly, NEW sold \in Nat PROVE Owed(sold) <= converted + sold
    <3>1. PICK gain \in Nat : gain = Share(sold, GainRatio) /\ gain <= sold
      BY GainAtMost
    <3>2. PICK after \in Int : after = Tax(traditional + converted, y.benefit, gains + gain)
      <4>1. traditional + converted \in Int /\ y.benefit \in Int /\ gains + gain \in Int
        OBVIOUS
      <4> QED BY <4>1, TaxInt
    <3>3. after - before <= converted + gain
      <4>1. Tax(traditional + converted, y.benefit, gains + gain) - Tax(traditional, y.benefit, gains)
              \in 0..(converted + gain)
        BY <2>1 DEF TaxIsOrderly, OrderlyTaxes
      <4>2. after - before \in 0..(converted + gain)
        BY <1>3, <3>2, <4>1
      <4> QED BY <4>2
    <3>4. Owed(sold) = Positive(after - before)
      BY <3>1, <3>2
    <3> QED BY <3>1, <3>3, <3>4 DEF Positive, Greater
  <2> QED BY <2>1
<1> HIDE DEF Owed
<1>6. \A sold \in Nat : Sold(sold) \in Nat /\ Sold(sold) <= taxable /\ Sold(sold) <= Owed(sold)
  BY <1>4 DEF Lesser
<1>7. third \in Nat
  BY <1>6
<1> HIDE DEF Sold, third
<1>b. third <= taxable /\ (Sold(third) = Owed(third) \/ Sold(third) = taxable)
  BY <1>4, <1>6, <1>7 DEF Sold, third, Lesser
<1>8. PICK owed \in Nat, sold \in Nat :
        owed = Owed(third) /\ sold = Sold(third) /\ sold <= taxable /\ sold <= owed
  BY <1>4, <1>6, <1>7
<1>c. TaxIsOrderly => owed = sold + Lesser(converted, owed - sold)
  <2>1. ASSUME TaxIsOrderly PROVE owed - sold <= converted
    BY <1>7, <1>8, <1>a, <1>b, <2>1
  <2> QED BY <1>8, <2>1 DEF Lesser
<1>9. Lesser(converted, owed - sold) \in Nat /\ Lesser(converted, owed - sold) <= converted
  BY <1>8 DEF Lesser
<1> QED BY <1>1, <1>5, <1>8, <1>9, <1>c

(* The largest of some numbers up to a bound.                                *)
LEMMA LargestIs ==
  ASSUME NEW n \in Nat, NEW S, S \subseteq 1..n, S # {}
  PROVE  Max(S) \in S
<1> DEFINE T == {n - x : x \in S}
<1>1. T \subseteq Nat /\ T # {}
  <2>1. \A x \in S : x \in Int /\ x <= n
    OBVIOUS
  <2>2. \A x \in S : n - x \in Nat
    BY <2>1
  <2> QED BY <2>2
<1>2. PICK m \in T : \A k \in T : m <= k
  BY <1>1, LeastNatural
<1>3. PICK x \in S : m = n - x
  BY <1>2
<1>4. \A y \in S : x >= y
  <2>1. ASSUME NEW y \in S PROVE x >= y
    <3>1. n - y \in T /\ y \in Int /\ x \in Int
      BY <1>3
    <3>2. m <= n - y
      BY <1>2, <3>1
    <3> QED BY <1>3, <3>1, <3>2
  <2> QED BY <2>1
<1> QED BY <1>4 DEF Max

Conversion(c, a) ==
  /\ c.converted \in Nat /\ c.converted <= a.balance.traditional
  /\ c.fromTaxable \in Nat /\ c.fromTaxable <= a.balance.taxable
  /\ c.withheld \in Nat /\ c.withheld <= c.converted
  /\ c.tax \in Nat /\ (TaxIsOrderly => c.tax = c.fromTaxable + c.withheld)
  /\ c.converted = 0 => c.fromTaxable = 0 /\ c.withheld = 0

LEMMA NoConversionIs == ASSUME NEW a \in Accounts PROVE Conversion(NoConversion, a)
<1>1. a.balance.traditional \in Nat /\ a.balance.taxable \in Nat
  BY DEF Accounts, Balances
<1> QED BY <1>1 DEF Conversion, NoConversion

LEMMA ConversionIs ==
  ASSUME TaxIsWhole, NEW p, NEW a \in Accounts, NEW y, y.w \in Balances, y.benefit \in Nat
  PROVE  Conversion(roth_conversion_for(p, a, y), a)
<1> DEFINE fits == {x \in 1..a.balance.traditional :
                      Measure(p, a, y, x) <= ConversionLimit(p.conversion)}
<1>1. a.balance.traditional \in Nat
  BY DEF Accounts, Balances
<1>2. \/ roth_conversion_for(p, a, y) = NoConversion
      \/ fits # {} /\ roth_conversion_for(p, a, y) = outcome_of(a, y, Max(fits))
  BY DEF roth_conversion_for
<1>3. CASE fits # {} /\ roth_conversion_for(p, a, y) = outcome_of(a, y, Max(fits))
  <2>1. Max(fits) \in fits
    BY <1>1, <1>3, LargestIs
  <2>2. PICK x \in Nat : x = Max(fits) /\ x > 0 /\ x <= a.balance.traditional
    BY <1>1, <2>1
  <2>3. LET c == outcome_of(a, y, x)
        IN  /\ c.converted = x /\ c.tax \in Nat
            /\ c.fromTaxable \in Nat /\ c.fromTaxable <= a.balance.taxable
            /\ c.withheld \in Nat /\ c.withheld <= x
            /\ TaxIsOrderly => c.tax = c.fromTaxable + c.withheld
    BY OutcomeIs
  <2>4. roth_conversion_for(p, a, y) = outcome_of(a, y, x)
    BY <1>3, <2>2
  <2> HIDE DEF fits
  <2> QED BY <2>2, <2>3, <2>4 DEF Conversion
<1> QED BY <1>2, <1>3, NoConversionIs

-----------------------------------------------------------------------------
(* The Roth basis ledger *)

Lot == [year : Nat, principal : Nat]

LEMMA PrincipalIs ==
  ASSUME NEW lots \in Seq(Lot)
  PROVE  /\ Principal(lots, 0) = 0
         /\ \A n \in 0..Len(lots) : Principal(lots, n) \in Nat
         /\ \A n \in 0..Len(lots) : n < Len(lots) =>
              Principal(lots, n + 1) = Principal(lots, n) + lots[n + 1].principal
<1> DEFINE f == [i \in DOMAIN lots |-> lots[i].principal]
<1>0. DOMAIN lots = 1..Len(lots) /\ Len(lots) \in Nat /\ \A i \in 1..Len(lots) : lots[i] \in Lot
  OBVIOUS
<1>1. DOMAIN lots = 1..Len(lots) /\ Len(lots) \in Nat
      /\ \A i \in 1..Len(lots) : lots[i].principal \in Nat
  BY <1>0 DEF Lot
<1>2. \A i \in 1..Len(lots) : f[i] = lots[i].principal /\ f[i] \in Nat
  BY <1>1
<1>3. \A n : Principal(lots, n) = Total(f, 1..n)
  BY DEF Principal
<1> HIDE DEF f
<1>4. Principal(lots, 0) = 0
  <2>1. \A x \in 1..0 : f[x] = 0
    OBVIOUS
  <2> QED BY <1>3, <2>1, TotalOfNothing
<1>5. ASSUME NEW n \in 0..Len(lots) PROVE Principal(lots, n) \in Nat
  <2>1. IsFiniteSet(1..n)
    BY <1>1, FS_Interval
  <2>2. \A x \in 1..n : f[x] \in Nat
    BY <1>1, <1>2
  <2> QED BY <1>3, <2>1, <2>2, TotalIsNat
<1>6. ASSUME NEW n \in 0..Len(lots), n < Len(lots)
      PROVE  Principal(lots, n + 1) = Principal(lots, n) + lots[n + 1].principal
  <2>0. n \in Nat
    BY <1>1
  <2>1. IsFiniteSet(1..n) /\ 1..(n + 1) = (1..n) \cup {n + 1} /\ n + 1 \notin 1..n
    <3>1. IsFiniteSet(1..n)
      BY <2>0, FS_Interval
    <3>2. 1..(n + 1) = (1..n) \cup {n + 1} /\ n + 1 \notin 1..n
      BY <2>0
    <3> QED BY <3>1, <3>2
  <2>2. (\A x \in 1..n : f[x] \in Nat) /\ f[n + 1] \in Nat /\ f[n + 1] = lots[n + 1].principal
    BY <1>1, <1>2, <1>6
  <2>3. PICK S : S = 1..n
    OBVIOUS
  <2>4. PICK x : x = n + 1
    OBVIOUS
  <2>5. Total(f, S \cup {x}) = Total(f, S) + f[x]
    BY <2>1, <2>2, <2>3, <2>4, TotalOfMore
  <2> QED BY <1>3, <2>1, <2>2, <2>3, <2>4, <2>5
<1> QED BY <1>4, <1>5, <1>6

(* Lots that begin alike hold alike.                                         *)
LEMMA PrincipalSame ==
  ASSUME NEW lots \in Seq(Lot), NEW more \in Seq(Lot), NEW n \in Nat, n <= Len(lots),
         n <= Len(more), \A i \in 1..n : more[i].principal = lots[i].principal
  PROVE  Principal(more, n) = Principal(lots, n)
<1> DEFINE f == [i \in DOMAIN lots |-> lots[i].principal]
           g == [i \in DOMAIN more |-> more[i].principal]
<1>1. \A i \in 1..n : g[i] = f[i]
  <2>1. \A i \in 1..n : i \in DOMAIN lots /\ i \in DOMAIN more
    OBVIOUS
  <2> QED BY <2>1
<1>2. Principal(lots, n) = Total(f, 1..n) /\ Principal(more, n) = Total(g, 1..n)
  BY DEF Principal
<1> HIDE DEF f, g
<1> QED BY <1>1, <1>2, TotalSame

(* A step that follows for each next number gives all of them.                *)
LEMMA UpTo ==
  ASSUME NEW n \in Nat, NEW S, 0 \in S, \A m \in 0..n : m < n /\ m \in S => m + 1 \in S
  PROVE  0..n \subseteq S
<1> DEFINE Bad == {m \in 0..n : m \notin S}
<1>1. SUFFICES ASSUME Bad # {} PROVE FALSE
  OBVIOUS
<1>2. Bad \subseteq Nat
  OBVIOUS
<1>3. PICK m \in Bad : \A k \in Bad : m <= k
  BY <1>1, <1>2, LeastNatural
<1>4. m \in Nat /\ m # 0 /\ m <= n /\ m \notin S
  BY <1>3
<1>5. m - 1 \in 0..n /\ m - 1 < n /\ (m - 1) + 1 = m
  BY <1>4
<1>6. m - 1 \in S
  <2>1. m - 1 \notin Bad
    BY <1>3, <1>4
  <2> QED BY <1>5, <2>1
<1> QED BY <1>4, <1>5, <1>6

(* What the later lots hold is what all hold less what the first ones did.    *)
LEMMA PrincipalOfTail ==
  ASSUME NEW lots \in Seq(Lot), NEW n \in 0..Len(lots)
  PROVE  LET tail == SubSeq(lots, n + 1, Len(lots))
         IN  /\ tail \in Seq(Lot) /\ Len(tail) = Len(lots) - n
             /\ \A i \in 1..Len(tail) : tail[i] = lots[n + i]
             /\ Principal(tail, Len(tail)) = Principal(lots, Len(lots)) - Principal(lots, n)
<1>0. PICK all \in Nat, from \in Nat : all = Len(lots) /\ from = n /\ from <= all
  OBVIOUS
<1>1. PICK tail : tail = SubSeq(lots, n + 1, Len(lots))
  OBVIOUS
<1>2. \A i \in (n + 1)..Len(lots) : lots[i] \in Lot
  BY <1>0
<1>3. tail \in Seq(Lot)
  BY <1>0, <1>1, <1>2
<1>4. Len(tail) = all - from
  BY <1>0, <1>1
<1>5. \A i \in 1..Len(tail) : tail[i] = lots[from + i]
  <2>1. ASSUME NEW i \in 1..(all - from) PROVE tail[i] = lots[from + i]
    BY <1>0, <1>1, <2>1
  <2> QED BY <1>4, <2>1
<1> DEFINE S == {m \in 0..Len(tail) :
                   Principal(tail, m) = Principal(lots, from + m) - Principal(lots, from)}
<1>6. 0 \in S
  <2>1. Principal(tail, 0) = 0 /\ Principal(lots, from) \in Nat
    BY <1>0, <1>3, PrincipalIs
  <2> QED BY <1>0, <1>4, <2>1
<1>7. ASSUME NEW m \in 0..Len(tail), m < Len(tail), m \in S PROVE m + 1 \in S
  <2>1. Principal(tail, m + 1) = Principal(tail, m) + tail[m + 1].principal
    BY <1>3, <1>7, PrincipalIs
  <2>2. from + m \in 0..Len(lots) /\ from + m < Len(lots) /\ (from + m) + 1 = from + (m + 1)
    BY <1>0, <1>4, <1>7
  <2>3. Principal(lots, from + (m + 1)) = Principal(lots, from + m) + lots[from + (m + 1)].principal
    BY <2>2, PrincipalIs
  <2>4. tail[m + 1] = lots[from + (m + 1)]
    <3>1. m + 1 \in 1..Len(tail)
      BY <1>0, <1>4, <1>7
    <3> QED BY <1>5, <3>1
  <2>5. Principal(tail, m) = Principal(lots, from + m) - Principal(lots, from)
    BY <1>7
  <2>6. Principal(lots, from + m) \in Nat /\ Principal(lots, from) \in Nat
    BY <1>0, <2>2, PrincipalIs
  <2>7. lots[from + (m + 1)].principal \in Nat
    <3>1. from + (m + 1) \in 1..Len(lots)
      BY <1>0, <2>2
    <3>2. lots[from + (m + 1)] \in Lot
      BY <3>1
    <3> QED BY <3>2 DEF Lot
  <2>8. m + 1 \in 0..Len(tail)
    BY <1>0, <1>4, <1>7
  <2> QED BY <2>1, <2>3, <2>4, <2>5, <2>6, <2>7, <2>8
<1>8. Len(tail) \in S
  <2>1. Len(tail) \in Nat
    BY <1>3
  <2>2. 0..Len(tail) \subseteq S
    <3> HIDE DEF S
    <3> QED BY <1>6, <1>7, <2>1, UpTo
  <2> QED BY <2>1, <2>2
<1>9. from + Len(tail) = Len(lots)
  BY <1>0, <1>4
<1> QED BY <1>0, <1>1, <1>3, <1>4, <1>5, <1>8, <1>9

LEMMA PrincipalOfAppend ==
  ASSUME NEW lots \in Seq(Lot), NEW lot \in Lot
  PROVE  LET more == Append(lots, lot)
         IN  /\ more \in Seq(Lot) /\ Len(more) = Len(lots) + 1
             /\ Principal(more, Len(more)) = Principal(lots, Len(lots)) + lot.principal
<1>1. PICK more : more = Append(lots, lot)
  OBVIOUS
<1>2. more \in Seq(Lot) /\ Len(more) = Len(lots) + 1 /\ more[Len(lots) + 1] = lot
      /\ \A i \in 1..Len(lots) : more[i] = lots[i]
  BY <1>1
<1>3. PICK n \in Nat : n = Len(lots)
  OBVIOUS
<1>4. Principal(more, n) = Principal(lots, n)
  <2>1. n <= Len(more)
    BY <1>2, <1>3
  <2>2. n <= Len(lots) /\ \A i \in 1..n : more[i].principal = lots[i].principal
    BY <1>2, <1>3
  <2> QED BY <1>2, <2>1, <2>2, PrincipalSame
<1>5. Principal(more, n + 1) = Principal(more, n) + more[n + 1].principal
  <2>1. n \in 0..Len(more) /\ n < Len(more)
    BY <1>2, <1>3
  <2> QED BY <1>2, <2>1, PrincipalIs
<1> QED BY <1>1, <1>2, <1>3, <1>4, <1>5

LEMMA ConsumedIs ==
  ASSUME NEW lots \in Seq(Lot), NEW past \in Nat
  PROVE  LET left == Consumed(lots, past)
         IN  /\ left \in Seq(Lot) /\ Len(left) = Len(lots)
             /\ \A i \in 1..Len(lots) : left[i].year = lots[i].year
             /\ Principal(left, Len(left)) = Positive(Principal(lots, Len(lots)) - past)
<1>1. PICK left : left = Consumed(lots, past)
  OBVIOUS
<1>2. DOMAIN lots = 1..Len(lots) /\ Len(lots) \in Nat /\ \A i \in 1..Len(lots) : lots[i] \in Lot
  OBVIOUS
<1>3. \A i \in 1..Len(lots) : Principal(lots, i - 1) \in Nat
  <2>1. \A i \in 1..Len(lots) : i - 1 \in 0..Len(lots)
    BY <1>2
  <2> QED BY <2>1, PrincipalIs
<1> DEFINE kept(i) == Positive(lots[i].principal - Positive(past - Principal(lots, i - 1)))
<1>4. \A i \in 1..Len(lots) : left[i] = [lots[i] EXCEPT !.principal = kept(i)]
  BY <1>1, <1>2 DEF Consumed
<1>5. \A i \in 1..Len(lots) : kept(i) \in Nat
  <2>1. ASSUME NEW i \in 1..Len(lots) PROVE kept(i) \in Nat
    <3>1. lots[i].principal \in Nat /\ Principal(lots, i - 1) \in Nat
      BY <1>2, <1>3 DEF Lot
    <3>2. PICK rest \in Nat : rest = Positive(past - Principal(lots, i - 1))
      BY <3>1 DEF Positive, Greater
    <3> QED BY <3>1, <3>2 DEF Positive, Greater
  <2> QED BY <2>1
<1>6. \A i \in 1..Len(lots) : left[i] \in Lot /\ left[i].year = lots[i].year
                              /\ left[i].principal = kept(i)
  <2>1. ASSUME NEW i \in 1..Len(lots)
        PROVE  left[i] \in Lot /\ left[i].year = lots[i].year /\ left[i].principal = kept(i)
    <3>1. PICK k \in Nat : k = kept(i)
      BY <1>5
    <3> HIDE DEF kept
    <3> QED BY <1>2, <1>4, <3>1 DEF Lot
  <2> QED BY <2>1
<1>7. left \in Seq(Lot) /\ Len(left) = Len(lots)
  <2>1. DOMAIN left = 1..Len(lots)
    BY <1>1, <1>2 DEF Consumed
  <2>2. PICK n \in Nat : n = Len(lots)
    BY <1>2
  <2>3. left = [i \in 1..n |-> left[i]]
    BY <1>1, <1>2, <2>2 DEF Consumed
  <2>4. left \in [1..n -> Lot]
    BY <1>6, <2>2, <2>3
  <2>5. left \in Seq(Lot)
    BY <2>4
  <2> QED BY <2>1, <2>2, <2>5
<1> HIDE DEF kept
<1> DEFINE S == {m \in 0..Len(lots) : Principal(left, m) = Positive(Principal(lots, m) - past)}
<1>8. 0 \in S
  <2>1. Principal(left, 0) = 0 /\ Principal(lots, 0) = 0
    BY <1>7, PrincipalIs
  <2> QED BY <1>2, <2>1 DEF Positive, Greater
<1>9. ASSUME NEW m \in 0..Len(lots), m < Len(lots), m \in S PROVE m + 1 \in S
  <2>1. m + 1 \in 1..Len(lots) /\ (m + 1) - 1 = m /\ m + 1 \in 0..Len(lots)
    BY <1>2, <1>9
  <2>2. PICK before \in Nat, amount \in Nat :
          before = Principal(lots, m) /\ amount = lots[m + 1].principal
    BY <1>2, <2>1, PrincipalIs DEF Lot
  <2>3. Principal(lots, m + 1) = before + amount
    BY <1>9, <2>2, PrincipalIs
  <2>4. Principal(left, m + 1) = Principal(left, m) + left[m + 1].principal
    BY <1>7, <1>9, PrincipalIs
  <2>5. left[m + 1].principal = Positive(amount - Positive(past - before))
    BY <1>6, <2>1, <2>2 DEF kept
  <2>6. Principal(left, m) = Positive(before - past)
    BY <1>9, <2>2
  <2>7. Positive(before - past) + Positive(amount - Positive(past - before))
          = Positive(before + amount - past)
    BY DEF Positive, Greater
  <2> QED BY <2>1, <2>3, <2>4, <2>5, <2>6, <2>7
<1>10. Len(lots) \in S
  <2>1. 0..Len(lots) \subseteq S
    <3> HIDE DEF S
    <3> QED BY <1>2, <1>8, <1>9, UpTo
  <2> QED BY <1>2, <2>1
<1> QED BY <1>1, <1>6, <1>7, <1>10

-----------------------------------------------------------------------------

(* What BasisExact says of a ledger whose lots are older than a year.        *)
Ledger(b, year) ==
  b.enabled =>
    /\ b.unseasoned = Principal(b.lots, Len(b.lots))
    /\ \A i, j \in DOMAIN b.lots : i < j => b.lots[i].year < b.lots[j].year
    /\ \A i \in DOMAIN b.lots : b.lots[i].year < year

Unripe(b, year) ==
  b.enabled => \A i \in DOMAIN b.lots : year < b.lots[i].year + SeasoningYears

LEMMA BasisIs ==
  ASSUME NEW b \in Basis
  PROVE  \E e \in BOOLEAN, r \in Nat, l \in Seq(Lot), u \in Nat :
           b = [enabled |-> e, regular |-> r, lots |-> l, unseasoned |-> u]
BY DEF Basis, Lot

LEMMA LeadsExists ==
  ASSUME NEW lots \in Seq(Lot), NEW year \in Nat
  PROVE  \E n \in 0..Len(lots) : Leads(lots, year, n)
<1> DEFINE T == {k \in 0..Len(lots) : k < Len(lots) => year < lots[k + 1].year + SeasoningYears}
<1>0. PICK all \in Nat : all = Len(lots)
  OBVIOUS
<1>1. all \in T /\ T \subseteq Nat
  BY <1>0
<1>2. PICK n \in T : \A k \in T : n <= k
  <2>1. T # {}
    BY <1>1
  <2> HIDE DEF T
  <2> QED BY <1>1, <2>1, LeastNatural
<1>3. \A i \in 1..n : year >= lots[i].year + SeasoningYears
  <2>1. ASSUME NEW i \in 1..n PROVE year >= lots[i].year + SeasoningYears
    <3>1. n \in Nat /\ n <= all /\ i \in 1..all
      BY <1>0, <1>2
    <3>2. i - 1 \in 0..all /\ i - 1 < all /\ i - 1 < n /\ (i - 1) + 1 = i
      BY <3>1
    <3>3. i - 1 \notin T
      BY <1>2, <3>1, <3>2
    <3>4. ~(year < lots[i].year + SeasoningYears)
      BY <1>0, <3>2, <3>3
    <3>5. lots[i].year \in Nat /\ SeasoningYears \in Nat
      <4>1. lots[i] \in Lot
        BY <1>0, <3>1
      <4> QED BY <4>1, RuleAssumption DEF Lot
    <3> QED BY <3>4, <3>5
  <2> QED BY <2>1
<1> QED BY <1>2, <1>3 DEF Leads

LEMMA SeasonKeeps ==
  ASSUME NEW b \in Basis, b.enabled, NEW year \in Nat, Ledger(b, year)
  PROVE  LET after == season_roth_conversions(b, year)
         IN  after \in Basis /\ Ledger(after, year) /\ Unripe(after, year)
<1>1. PICK e \in BOOLEAN, r \in Nat, l \in Seq(Lot), u \in Nat :
        b = [enabled |-> e, regular |-> r, lots |-> l, unseasoned |-> u]
  BY BasisIs
<1>a. b.enabled = e /\ b.regular = r /\ b.lots = l /\ b.unseasoned = u
  BY <1>1
<1>2. PICK n : n = (CHOOSE k \in 0..Len(l) : Leads(l, year, k))
  OBVIOUS
<1>3. n \in 0..Len(l) /\ Leads(l, year, n)
  BY <1>2, LeadsExists
<1>4. PICK seasoned \in Nat : seasoned = Principal(l, n)
  BY <1>3, PrincipalIs
<1>5. PICK tail \in Seq(Lot) :
        /\ tail = SubSeq(l, n + 1, Len(l)) /\ Len(tail) = Len(l) - n
        /\ \A i \in 1..Len(tail) : tail[i] = l[n + i]
        /\ Principal(tail, Len(tail)) = Principal(l, Len(l)) - seasoned
  BY <1>3, <1>4, PrincipalOfTail
<1>6. PICK after : after = [enabled |-> e, regular |-> r + seasoned,
                            lots |-> tail, unseasoned |-> Positive(u - seasoned)]
  OBVIOUS
<1>7. season_roth_conversions(b, year) = after
  <2>1. [b EXCEPT !.regular = @ + seasoned, !.unseasoned = Positive(@ - seasoned),
                  !.lots = SubSeq(@, n + 1, Len(@))] = after
    <3>1. [b EXCEPT !.regular = r + seasoned, !.unseasoned = Positive(u - seasoned),
                    !.lots = tail] = after
      <4>1. PICK m : m = [b EXCEPT !.regular = r + seasoned, !.unseasoned = Positive(u - seasoned),
                           !.lots = tail]
        OBVIOUS
      <4>2. m.enabled = e /\ m.regular = r + seasoned /\ m.lots = tail /\ m.unseasoned = Positive(u - seasoned)
        BY <1>a, <4>1
      <4>3. m = [enabled |-> m.enabled, regular |-> m.regular, lots |-> m.lots,
                 unseasoned |-> m.unseasoned]
        BY <1>1, <4>1
      <4> QED BY <1>6, <4>1, <4>2, <4>3
    <3> QED BY <1>a, <1>5, <3>1
  <2> QED BY <1>a, <1>2, <1>4, <2>1 DEF season_roth_conversions
<1>8. Positive(u - seasoned) \in Nat /\ r + seasoned \in Nat
  BY DEF Positive, Greater
<1>9. after \in Basis
  BY <1>6, <1>8 DEF Basis, Lot
<1>10. /\ u = Principal(l, Len(l))
       /\ \A i, j \in 1..Len(l) : i < j => l[i].year < l[j].year
       /\ \A i \in 1..Len(l) : l[i].year < year
  BY <1>a DEF Ledger
<1>11. Principal(tail, Len(tail)) \in Nat
  <2>1. Len(tail) \in 0..Len(tail)
    OBVIOUS
  <2> QED BY <2>1, PrincipalIs
<1>12. Positive(u - seasoned) = Principal(tail, Len(tail))
  BY <1>5, <1>10, <1>11 DEF Positive, Greater
<1>13. PICK all \in Nat, from \in Nat : all = Len(l) /\ from = n /\ from <= all
  BY <1>3
<1>14. DOMAIN tail = 1..(all - from) /\ \A i \in 1..(all - from) : tail[i] = l[from + i]
  BY <1>5, <1>13
<1>15. \A i \in 1..(all - from) : from + i \in 1..Len(l)
  BY <1>13
<1>16. \A i, j \in 1..(all - from) : i < j => tail[i].year < tail[j].year
  <2>1. ASSUME NEW i \in 1..(all - from), NEW j \in 1..(all - from), i < j
        PROVE  tail[i].year < tail[j].year
    <3>1. from + i < from + j
      BY <2>1
    <3> QED BY <1>10, <1>14, <1>15, <3>1
  <2> QED BY <2>1
<1>17. \A i \in 1..(all - from) : tail[i].year < year
  BY <1>10, <1>14, <1>15
<1>18. \A i \in 1..(all - from) : year < tail[i].year + SeasoningYears
  <2>1. ASSUME NEW i \in 1..(all - from) PROVE year < tail[i].year + SeasoningYears
    <3>1. from < all /\ 1 \in 1..(all - from)
      BY <1>13
    <3>2. year < tail[1].year + SeasoningYears
      BY <1>3, <1>13, <1>14, <3>1 DEF Leads
    <3>3. i = 1 \/ tail[1].year < tail[i].year
      BY <1>16, <3>1
    <3>4. tail[1].year \in Nat /\ tail[i].year \in Nat /\ SeasoningYears \in Nat
      <4>1. tail[1] \in Lot /\ tail[i] \in Lot
        BY <1>5, <1>13, <3>1
      <4> QED BY <4>1, RuleAssumption DEF Lot
    <3> QED BY <3>2, <3>3, <3>4
  <2> QED BY <2>1
<1>19. Ledger(after, year) /\ Unripe(after, year)
  BY <1>6, <1>12, <1>14, <1>16, <1>17, <1>18 DEF Ledger, Unripe
<1> QED BY <1>7, <1>9, <1>19

LEMMA ConsumeKeeps ==
  ASSUME NEW b \in Basis, NEW withdrawal \in Nat, NEW year \in Nat, Ledger(b, year), Unripe(b, year)
  PROVE  LET after == consume_roth_basis(b, withdrawal)
         IN  after \in Basis /\ Ledger(after, year) /\ Unripe(after, year)
<1>1. PICK e \in BOOLEAN, r \in Nat, l \in Seq(Lot), u \in Nat :
        b = [enabled |-> e, regular |-> r, lots |-> l, unseasoned |-> u]
  BY BasisIs
<1>a. b.enabled = e /\ b.regular = r /\ b.lots = l /\ b.unseasoned = u
  BY <1>1
<1>2. CASE ~e \/ withdrawal <= 0
  BY <1>1, <1>2 DEF consume_roth_basis
<1>3. CASE e /\ withdrawal > 0
  <2>1. PICK past \in Nat : past = Positive(withdrawal - r)
    <3>1. withdrawal - r \in Int
      OBVIOUS
    <3> QED BY <3>1, PositiveNat
  <2>2. PICK left \in Seq(Lot) :
          /\ left = Consumed(l, past) /\ Len(left) = Len(l)
          /\ \A i \in 1..Len(l) : left[i].year = l[i].year
          /\ Principal(left, Len(left)) = Positive(Principal(l, Len(l)) - past)
    BY ConsumedIs
  <2>3. PICK after : after = [enabled |-> e, regular |-> Positive(r - withdrawal), lots |-> left,
                              unseasoned |-> Positive(u - past)]
    OBVIOUS
  <2>4. consume_roth_basis(b, withdrawal) = after
    <3>1. [b EXCEPT !.regular = Positive(@ - withdrawal), !.unseasoned = Positive(@ - past),
                    !.lots = Consumed(@, past)] = after
      <4>1. [b EXCEPT !.regular = Positive(r - withdrawal), !.unseasoned = Positive(u - past),
                      !.lots = left] = after
        <5>1. PICK m : m = [b EXCEPT !.regular = Positive(r - withdrawal), !.unseasoned = Positive(u - past),
                             !.lots = left]
          OBVIOUS
        <5>2. m.enabled = e /\ m.regular = Positive(r - withdrawal) /\ m.lots = left /\ m.unseasoned = Positive(u - past)
          BY <1>a, <5>1
        <5>3. m = [enabled |-> m.enabled, regular |-> m.regular, lots |-> m.lots,
                   unseasoned |-> m.unseasoned]
          BY <1>1, <5>1
        <5> QED BY <2>3, <5>1, <5>2, <5>3
      <4> QED BY <1>a, <2>2, <4>1
    <3> QED BY <1>a, <1>3, <2>1, <3>1 DEF consume_roth_basis
  <2>5. Positive(r - withdrawal) \in Nat /\ Positive(u - past) \in Nat
    BY DEF Positive, Greater
  <2>6. after \in Basis
    BY <2>3, <2>5 DEF Basis, Lot
  <2>7. /\ u = Principal(l, Len(l))
        /\ \A i, j \in 1..Len(l) : i < j => l[i].year < l[j].year
        /\ \A i \in 1..Len(l) : l[i].year < year
        /\ \A i \in 1..Len(l) : year < l[i].year + SeasoningYears
    BY <1>1, <1>3 DEF Ledger, Unripe
  <2>8. DOMAIN left = 1..Len(l)
    BY <2>2
  <2>9. /\ \A i, j \in 1..Len(l) : i < j => left[i].year < left[j].year
        /\ \A i \in 1..Len(l) : left[i].year < year
        /\ \A i \in 1..Len(l) : year < left[i].year + SeasoningYears
    BY <2>2, <2>7
  <2>10. Ledger(after, year) /\ Unripe(after, year)
    BY <2>2, <2>3, <2>7, <2>8, <2>9 DEF Ledger, Unripe
  <2> QED BY <2>4, <2>6, <2>10
<1> QED BY <1>1, <1>2, <1>3

LEMMA ConvertKeeps ==
  ASSUME NEW b \in Basis, NEW year \in Nat, NEW reached \in Nat, Ledger(b, year)
  PROVE  LET after == [b EXCEPT !.lots = Append(@, [year |-> year, principal |-> reached]),
                                !.unseasoned = @ + reached]
         IN  after \in Basis /\ Ledger(after, year + 1)
<1>1. PICK e \in BOOLEAN, r \in Nat, l \in Seq(Lot), u \in Nat :
        b = [enabled |-> e, regular |-> r, lots |-> l, unseasoned |-> u]
  BY BasisIs
<1>a. b.enabled = e /\ b.regular = r /\ b.lots = l /\ b.unseasoned = u
  BY <1>1
<1>2. PICK lot \in Lot : lot = [year |-> year, principal |-> reached]
  BY DEF Lot
<1>3. PICK more \in Seq(Lot) :
        /\ more = Append(l, lot) /\ Len(more) = Len(l) + 1
        /\ Principal(more, Len(more)) = Principal(l, Len(l)) + lot.principal
  BY PrincipalOfAppend
<1>4. PICK total \in Nat : total = u + reached
  OBVIOUS
<1>5. PICK after : after = [enabled |-> e, regular |-> r, lots |-> more, unseasoned |-> total]
  OBVIOUS
<1>6. after = [b EXCEPT !.lots = Append(@, [year |-> year, principal |-> reached]),
                        !.unseasoned = @ + reached]
  <2>1. [b EXCEPT !.lots = more, !.unseasoned = total] = after
    <3>1. PICK m : m = [b EXCEPT !.lots = more, !.unseasoned = total]
      OBVIOUS
    <3>2. m.enabled = e /\ m.regular = r /\ m.lots = more /\ m.unseasoned = total
      BY <1>a, <3>1
    <3>3. m = [enabled |-> m.enabled, regular |-> m.regular, lots |-> m.lots,
               unseasoned |-> m.unseasoned]
      BY <1>1, <3>1
    <3> QED BY <1>5, <3>1, <3>2, <3>3
  <2> QED BY <1>a, <1>2, <1>3, <1>4, <2>1
<1>7. after \in Basis
  BY <1>5 DEF Basis, Lot
<1>8. ASSUME e PROVE Ledger(after, year + 1)
  <2>1. /\ u = Principal(l, Len(l))
        /\ \A i, j \in 1..Len(l) : i < j => l[i].year < l[j].year
        /\ \A i \in 1..Len(l) : l[i].year < year
    BY <1>a, <1>8 DEF Ledger
  <2>2. PICK n \in Nat : n = Len(l)
    OBVIOUS
  <2>3. DOMAIN more = 1..(n + 1) /\ more[n + 1] = lot /\ \A i \in 1..n : more[i] = l[i]
    BY <1>3, <2>2
  <2>4. \A i \in 1..(n + 1) : i \in 1..n \/ i = n + 1
    OBVIOUS
  <2>5. \A i \in 1..n : l[i].year \in Nat
    <3>1. \A i \in 1..n : l[i] \in Lot
      BY <2>2
    <3> QED BY <3>1 DEF Lot
  <2>6. lot.year = year
    BY <1>2
  <2>7. \A i \in 1..(n + 1) : more[i].year < year + 1
    BY <2>1, <2>2, <2>3, <2>4, <2>5, <2>6
  <2>8. ASSUME NEW i \in 1..(n + 1), NEW j \in 1..(n + 1), i < j PROVE more[i].year < more[j].year
    <3>1. i \in 1..n
      BY <2>8
    <3> QED BY <2>1, <2>2, <2>3, <2>4, <2>6, <2>8, <3>1
  <2>9. Principal(more, Len(more)) = total
    BY <1>2, <1>3, <1>4, <2>1
  <2> QED BY <1>5, <2>3, <2>7, <2>8, <2>9 DEF Ledger
<1>9. ~e => Ledger(after, year + 1)
  BY <1>5 DEF Ledger
<1> QED BY <1>6, <1>7, <1>8, <1>9

-----------------------------------------------------------------------------
(* The price of care *)

HorizonOf(p) == LifeExpectancy - p.start + 1

Duration(p, e) ==
  Lesser(Lesser(e.halves, 2 * HorizonOf(p)), 2 * (LifeExpectancy - Greater(p.start, CareAge)))

(* What the first y years are charged: the half years of the episode that     *)
(* lie in them, at the price of one.                                         *)
Charged(p, e, y) ==
  IF Duration(p, e) <= 0 THEN 0
  ELSE (e.cost \div Duration(p, e)) * Positive(2 * y - 2 * HorizonOf(p) + Duration(p, e))

CostOf(p, e, y) ==
  cost_for_year(e, y, HorizonOf(p), 2 * (LifeExpectancy - Greater(p.start, CareAge)))

LEMMA PlanIs ==
  ASSUME NEW p \in Plans
  PROVE  /\ p.start \in Nat /\ p.retire \in Nat /\ p.salary \in Nat /\ p.spending \in Nat
         /\ p.living \in Nat /\ p.benefit \in Nat /\ p.outOfPocket \in Nat
         /\ p.start <= LifeExpectancy /\ LifeExpectancy \in Nat /\ CareAge \in Nat
         /\ HorizonOf(p) \in Nat /\ HorizonOf(p) >= 1
<1>1. p \in PlanType /\ p.start <= LifeExpectancy /\ LifeExpectancy \in Nat /\ CareAge \in Nat
  BY ProjectionAssumption
<1>2. /\ p.start \in Nat /\ p.retire \in Nat /\ p.salary \in Nat /\ p.spending \in Nat
      /\ p.living \in Nat /\ p.benefit \in Nat /\ p.outOfPocket \in Nat
  BY <1>1 DEF PlanType
<1> QED BY <1>1, <1>2 DEF HorizonOf

LEMMA EpisodeIs ==
  ASSUME NEW e \in Episodes \cup {NoEpisode}
  PROVE  /\ e.halves \in Nat /\ e.cost \in Nat
         /\ (e \in Episodes /\ e.halves > 0) \/ (e.halves = 0 /\ e.cost = 0)
<1>1. e \in Episodes => e \in [halves : Nat \ {0}, cost : Nat]
  BY ProjectionAssumption
<1>2. e = NoEpisode => e.halves = 0 /\ e.cost = 0
  BY DEF NoEpisode
<1> QED BY <1>1, <1>2

LEMMA Divides ==
  ASSUME NEW c \in Nat, NEW d \in Nat, d > 0, (c % d) = 0
  PROVE  (c \div d) \in Nat /\ (c \div d) * d = c
OBVIOUS

LEMMA Multiple ==
  ASSUME NEW k \in Nat, NEW x \in Nat, NEW d \in Nat, d > 0
  PROVE  ((k * d) * x) \div d = k * x
<1>1. (k * d) * x = (k * x) * d
  OBVIOUS
<1>2. PICK n \in Nat : n = k * x
  OBVIOUS
<1>3. (n * d) \div d = n
  OBVIOUS
<1> QED BY <1>1, <1>2, <1>3

(* The clipped episode, and the price of one of its half years.              *)
LEMMA DurationIs ==
  ASSUME NEW p \in Plans, NEW e \in Episodes \cup {NoEpisode}
  PROVE  /\ Duration(p, e) \in Int
         /\ Duration(p, e) <= 2 * (LifeExpectancy - Greater(p.start, CareAge))
         /\ Duration(p, e) > 0 =>
              \E price \in Nat : e.cost = price * Duration(p, e) /\ price = e.cost \div Duration(p, e)
         /\ p.start < LifeExpectancy /\ CareAge < LifeExpectancy /\ Duration(p, e) <= 0 => e.cost = 0
<1>1. PICK h \in Nat, c \in Nat : h = e.halves /\ c = e.cost
  BY EpisodeIs
<1>2. PICK longest \in Int : longest = 2 * (LifeExpectancy - Greater(p.start, CareAge))
  BY PlanIs DEF Greater
<1>3. PICK horizon \in Nat : horizon = HorizonOf(p) /\ longest <= 2 * horizon
  BY <1>2, PlanIs DEF Greater, HorizonOf
<1>4. PICK d \in Int : d = Lesser(h, longest)
  BY DEF Lesser
<1>5. Duration(p, e) = d /\ d <= longest
  BY <1>1, <1>2, <1>3, <1>4 DEF Duration, Lesser
<1>6. ASSUME d > 0 PROVE \E price \in Nat : c = price * d /\ price = c \div d
  <2>1. e \in Episodes
    BY <1>1, <1>4, <1>6, EpisodeIs DEF Lesser
  <2>2. (c % d) = 0
    <3>1. LET duration == Lesser(e.halves, 2 * (LifeExpectancy - Greater(p.start, CareAge)))
          IN  duration > 0 => (e.cost % duration) = 0
      BY <2>1, InstallmentAssumption
    <3> QED BY <1>1, <1>2, <1>4, <1>6, <3>1
  <2>3. (c \div d) \in Nat /\ (c \div d) * d = c
    BY <1>6, <2>2, Divides
  <2> QED BY <2>3
<1>7. ASSUME p.start < LifeExpectancy, CareAge < LifeExpectancy, d <= 0 PROVE c = 0
  <2>1. longest > 0
    BY <1>2, <1>7, PlanIs DEF Greater
  <2>2. h = 0
    BY <1>4, <1>7, <2>1 DEF Lesser
  <2>3. (e.halves > 0) \/ e.cost = 0
    BY EpisodeIs
  <2> QED BY <1>1, <2>2, <2>3
<1> QED BY <1>1, <1>2, <1>5, <1>6, <1>7

LEMMA CostIs ==
  ASSUME NEW p \in Plans, NEW e \in Episodes \cup {NoEpisode}, NEW y \in Nat
  PROVE  CostOf(p, e, y) \in Nat
<1>1. e.halves \in Nat /\ e.cost \in Nat
  BY EpisodeIs
<1>2. PICK horizon \in Int, longest \in Int :
        horizon = HorizonOf(p) /\ longest = 2 * (LifeExpectancy - Greater(p.start, CareAge))
  BY PlanIs DEF Greater
<1>3. cost_for_year(e, y, horizon, longest) \in Nat
  BY <1>1, CareCostNat
<1> QED BY <1>2, <1>3 DEF CostOf

(* Each year is charged the part of it that no earlier year was.              *)
LEMMA ChargedStep ==
  ASSUME NEW p \in Plans, NEW e \in Episodes \cup {NoEpisode}, NEW y \in Nat
  PROVE  Charged(p, e, y) + CostOf(p, e, y) = Charged(p, e, y + 1)
<1>1. PICK d \in Int, horizon \in Nat : d = Duration(p, e) /\ horizon = HorizonOf(p)
  BY DurationIs, PlanIs
<1>2. CostOf(p, e, y) =
        IF d <= 0 THEN 0
        ELSE (e.cost * Lesser(2, Positive(2 * y + 2 - (2 * horizon - d)))) \div d
  BY <1>1 DEF CostOf, cost_for_year, Duration
<1>3. CASE d <= 0
  BY <1>1, <1>2, <1>3 DEF Charged
<1>4. CASE d > 0
  <2>1. PICK price \in Nat : e.cost = price * d /\ price = e.cost \div d
    BY <1>1, <1>4, DurationIs
  <2>2. PICK before \in Nat, overlap \in Nat, after \in Nat :
          /\ before = Positive(2 * y - 2 * horizon + d)
          /\ overlap = Lesser(2, Positive(2 * y + 2 - (2 * horizon - d)))
          /\ after = Positive(2 * (y + 1) - 2 * horizon + d)
    <3>1. 2 * y - 2 * horizon + d \in Int /\ 2 * y + 2 - (2 * horizon - d) \in Int
          /\ 2 * (y + 1) - 2 * horizon + d \in Int
      OBVIOUS
    <3>2. Lesser(2, Positive(2 * y + 2 - (2 * horizon - d))) \in Nat
      BY <3>1, PositiveNat, LesserOf
    <3> QED BY <3>1, <3>2, PositiveNat
  <2>3. after = before + overlap
    BY <2>2 DEF Lesser, Positive, Greater
  <2>4. CostOf(p, e, y) = price * overlap
    BY <1>2, <1>4, <2>1, <2>2, Multiple
  <2>5. Charged(p, e, y) = price * before /\ Charged(p, e, y + 1) = price * after
    BY <1>1, <1>4, <2>1, <2>2 DEF Charged
  <2>6. price * before + price * overlap = price * (before + overlap)
    OBVIOUS
  <2> QED BY <2>3, <2>4, <2>5, <2>6
<1> QED BY <1>3, <1>4

LEMMA ChargedStarts ==
  ASSUME NEW p \in Plans, NEW e \in Episodes \cup {NoEpisode}, NEW y \in Nat,
         p.start + y <= Greater(p.start, CareAge)
  PROVE  Charged(p, e, y + 1) = 0
<1>1. PICK d \in Int, horizon \in Nat : d = Duration(p, e) /\ horizon = HorizonOf(p)
  BY DurationIs, PlanIs
<1>2. PICK first \in Nat : first = Greater(p.start, CareAge)
  BY PlanIs DEF Greater
<1>3. 2 * (y + 1) - 2 * horizon + d <= 0
  <2>1. d <= 2 * (LifeExpectancy - first)
    BY <1>1, <1>2, DurationIs
  <2>2. horizon = LifeExpectancy - p.start + 1 /\ p.start \in Nat /\ LifeExpectancy \in Nat
    BY <1>1, PlanIs DEF HorizonOf
  <2>3. p.start + y <= first
    BY <1>2
  <2> QED BY <2>1, <2>2, <2>3
<1>4. Positive(2 * (y + 1) - 2 * horizon + d) = 0
  BY <1>3 DEF Positive, Greater
<1>5. CASE d <= 0
  BY <1>1, <1>5 DEF Charged
<1>6. CASE d > 0
  <2>1. PICK price \in Nat : price = e.cost \div d
    BY <1>1, <1>6, DurationIs
  <2>2. Charged(p, e, y + 1) = price * 0
    BY <1>1, <1>4, <1>6, <2>1 DEF Charged
  <2> QED BY <2>2
<1> QED BY <1>5, <1>6

LEMMA ChargedEnds ==
  ASSUME NEW p \in Plans, NEW e \in Episodes \cup {NoEpisode}, p.start < LifeExpectancy,
         CareAge < LifeExpectancy
  PROVE  Charged(p, e, HorizonOf(p)) = e.cost
<1>1. PICK d \in Int, horizon \in Nat : d = Duration(p, e) /\ horizon = HorizonOf(p)
  BY DurationIs, PlanIs
<1>2. CASE d <= 0
  BY <1>1, <1>2, DurationIs DEF Charged
<1>3. CASE d > 0
  <2>1. PICK price \in Nat : e.cost = price * d /\ price = e.cost \div d
    BY <1>1, <1>3, DurationIs
  <2>2. Positive(2 * horizon - 2 * horizon + d) = d
    BY <1>3 DEF Positive, Greater
  <2> QED BY <1>1, <1>3, <2>1, <2>2 DEF Charged
<1> QED BY <1>2, <1>3

-----------------------------------------------------------------------------
(* The inductive invariant *)

NowType ==
  [rmd : Nat, benefit : Nat, target : Nat, w : Balances, penalties : Nat, gains : Nat,
   pass : Nat, taxes : Int, surplus : Nat, short : BOOLEAN, invested : Nat]

(* Where the path is: a year is in progress until the last one is closed, and *)
(* a working year has drawn its forced distribution before anything else.    *)
Placed ==
  /\ now \in NowType
  /\ phase # "done" => Year < Years
  /\ phase = "done" => Year = Years
  /\ phase = "shortfall" => ~Retired /\ now.w.traditional >= now.rmd
  /\ phase \in {"fund", "convert"} => Retired

LedgerKept ==
  /\ Ledger(basis, Year)
  /\ phase \notin {"begin", "done"} => Unripe(basis, Year)

(* Care is observed at the end of the first year that reaches CareAge, and    *)
(* from then on each year is charged its part as it begins.                  *)
CareKept ==
  /\ ~care.observed =>
       /\ care.billed = 0
       /\ plan.care /\ LifeExpectancy > CareAge /\ phase # "done" =>
            Age <= Greater(plan.start, CareAge)
  /\ care.observed =>
       /\ LifeExpectancy > CareAge /\ Age > Greater(plan.start, CareAge)
       /\ plan.start < LifeExpectancy /\ plan.retire <= CareAge + 1 =>
            care.billed = Charged(plan, care.episode,
                                  IF phase \in {"begin", "done"} THEN Year ELSE Year + 1)

(* The thresholds later premiums test a year of that age against.             *)
Tested(p, age) ==
  (IF age + 1 < MedicareAge /\ age + 1 >= p.retire /\ p.preMedicarePremium > 0
   THEN {SubsidyCliff} ELSE {})
  \cup
  (IF age + 2 >= MedicareAge /\ age + 2 >= p.retire /\ p.medicarePremium > 0
   THEN IrmaaBounds ELSE {})

(* Voluntary traditional money has crossed no threshold that the rest of the  *)
(* income had not.                                                           *)
Under(p, age, income, w, rmd) ==
  LET gain == Share(w.taxable, GainRatio)
  IN  \A t \in Tested(p, age) : income + rmd + gain <= t => income + w.traditional + gain <= t

CliffKept ==
  plan.magiAware /\ now.w.traditional > now.rmd /\ accounts.balance.roth > 0 =>
    /\ phase = "shortfall" => /\ accounts.balance.taxable = 0
                              /\ Under(plan, Age, plan.salary, now.w, now.rmd)
    /\ phase = "convert" => Under(plan, Age, now.benefit, now.w, now.rmd)

RuinKept == phase = "convert" /\ now.short => TotalOf(accounts.balance) = 0

Reported == CliffNotCrossed /\ (row.retired => RuinMeansEmpty)

PathInv ==
  TypeOK /\ Placed /\ LedgerKept /\ CareKept /\ CliffKept /\ RuinKept /\ Reported

CareType == [observed : BOOLEAN, episode : Episodes \cup {NoEpisode}, billed : Nat]

LEMMA YearIs ==
  ASSUME TypeOK
  PROVE  /\ plan \in Plans /\ Year \in Nat /\ Age \in Nat /\ Age = plan.start + Year
         /\ Years = HorizonOf(plan)
<1>1. plan \in Plans /\ magi \in Seq([total : Nat, wages : Nat])
  BY DEF TypeOK
<1>2. Year \in Nat
  BY <1>1 DEF Year
<1>3. plan.start \in Nat
  BY <1>1, PlanIs
<1> QED BY <1>1, <1>2, <1>3 DEF Age, Years, HorizonOf

LEMMA FreshTyped == Fresh \in NowType
BY NothingTyped DEF Fresh, NowType

LEMMA ThresholdsAre ==
  ASSUME NEW p, NEW age, NEW committed, NEW t \in Tested(p, age), committed <= t
  PROVE  t \in Thresholds(p, age, committed)
BY DEF Tested, Thresholds

LEMMA TestedNat == ASSUME NEW p, NEW age PROVE Tested(p, age) \subseteq Nat
BY PortfolioAssumption DEF Tested

LEMMA PathStarts == ASSUME Init PROVE PathInv
<1>1. plan \in Plans /\ accounts \in Accounts /\ magi = <<>> /\ phase = "begin" /\ now = Fresh
      /\ care = [observed |-> FALSE, episode |-> NoEpisode, billed |-> 0]
  BY ProjectionAssumption DEF Init
<1>2. NoBasis \in Basis
  BY DEF NoBasis, Basis
<1>3. accounts.balance.roth \in Nat
  BY <1>1 DEF Accounts, Balances
<1>4. [NoBasis EXCEPT !.enabled = TRUE, !.regular = accounts.balance.roth]
        = [enabled |-> TRUE, regular |-> accounts.balance.roth, lots |-> <<>>, unseasoned |-> 0]
  <2>1. PICK m : m = [NoBasis EXCEPT !.enabled = TRUE, !.regular = accounts.balance.roth]
    OBVIOUS
  <2>2. m.enabled = TRUE /\ m.regular = accounts.balance.roth /\ m.lots = <<>> /\ m.unseasoned = 0
    BY <2>1 DEF NoBasis
  <2>3. m = [enabled |-> m.enabled, regular |-> m.regular, lots |-> m.lots,
             unseasoned |-> m.unseasoned]
    BY <2>1 DEF NoBasis
  <2> QED BY <2>1, <2>2, <2>3
<1>5. \E b \in BOOLEAN, r \in Nat : basis = [enabled |-> b, regular |-> r, lots |-> <<>>, unseasoned |-> 0]
  BY <1>3, <1>4 DEF Init, NoBasis
<1>6. basis \in Basis /\ basis.lots = <<>> /\ basis.unseasoned = 0
  BY <1>5 DEF Basis
<1>7. TypeOK
  <2>1. allowance \in Nat /\ success \in BOOLEAN /\ magi \in Seq([total : Nat, wages : Nat])
    BY <1>1 DEF Init
  <2>2. care \in CareType
    BY <1>1 DEF CareType
  <2> QED BY <1>1, <1>6, <2>1, <2>2 DEF TypeOK, CareType
<1>8. Year = 0 /\ Age = plan.start
  BY <1>1, PlanIs DEF Year, Age
<1>9. Placed
  <2>1. Year < Years
    BY <1>1, <1>8, PlanIs DEF Years, HorizonOf
  <2> QED BY <1>1, <2>1, FreshTyped DEF Placed
<1>10. LedgerKept
  <2>1. Principal(<<>>, 0) = 0
    <3>1. <<>> \in Seq(Lot)
      OBVIOUS
    <3> QED BY <3>1, PrincipalIs
  <2>2. DOMAIN basis.lots = {} /\ Len(basis.lots) = 0
    BY <1>6
  <2> QED BY <1>1, <1>6, <2>1, <2>2 DEF LedgerKept, Ledger
<1>11. CareKept
  BY <1>1, <1>8, PlanIs DEF CareKept, Greater
<1>12. CliffKept /\ RuinKept
  BY <1>1 DEF CliffKept, RuinKept
<1>13. Reported
  BY <1>1 DEF Reported, CliffNotCrossed, RuinMeansEmpty, Closed
<1> QED BY <1>7, <1>9, <1>10, <1>11, <1>12, <1>13 DEF PathInv

-----------------------------------------------------------------------------
(* The year begins *)

LEMMA BasisOfYearIs ==
  ASSUME TypeOK, LedgerKept
  PROVE  BasisOfYear \in Basis /\ Ledger(BasisOfYear, Year) /\ Unripe(BasisOfYear, Year)
<1>1. basis \in Basis /\ Year \in Nat /\ Ledger(basis, Year)
  BY YearIs DEF TypeOK, LedgerKept
<1>2. CASE ~basis.enabled
  BY <1>1, <1>2 DEF BasisOfYear, Ledger, Unripe
<1>3. CASE basis.enabled /\ Age >= PenaltyAge
  <2>1. NoBasis \in Basis /\ ~NoBasis.enabled
    BY DEF NoBasis, Basis
  <2> QED BY <1>3, <2>1 DEF BasisOfYear, Ledger, Unripe
<1>4. CASE basis.enabled /\ ~(Age >= PenaltyAge)
  BY <1>1, <1>4, SeasonKeeps DEF BasisOfYear
<1> QED BY <1>2, <1>3, <1>4

LEMMA RmdNat == ASSUME TypeOK PROVE RmdOfYear \in Nat
<1>1. accounts.balance.traditional \in Nat /\ RmdDivisor \in Nat \ {0}
  BY ProjectionAssumption DEF TypeOK, Accounts, Balances
<1>2. PICK x \in Nat, d \in Nat : x = accounts.balance.traditional /\ d = RmdDivisor /\ d # 0
  BY <1>1
<1>3. (x \div d) \in Nat
  BY <1>2
<1> QED BY <1>2, <1>3 DEF RmdOfYear

LEMMA GrownTyped == ASSUME TypeOK, NEW percent \in Growth PROVE Grown(percent) \in Accounts
<1>1. PICK b \in Balances, h \in SUBSET AccountType, c \in SUBSET AccountType :
        accounts = [balance |-> b, held |-> h, cash |-> c]
  BY AccountsIs DEF TypeOK
<1>2. percent \in Nat
  BY ProjectionAssumption
<1>3. b.taxable \in Nat /\ b.traditional \in Nat /\ b.roth \in Nat /\ b.hsa \in Nat
  BY DEF Balances
<1> DEFINE After(type) == IF type \in c THEN b[type] ELSE Share(b[type], percent)
<1>4. /\ After("taxable") \in Nat /\ After("traditional") \in Nat
      /\ After("roth") \in Nat /\ After("hsa") \in Nat
  BY <1>2, <1>3, ShareNat
<1>5. PICK grown : grown = [taxable |-> After("taxable"), traditional |-> After("traditional"),
                            roth |-> After("roth"), hsa |-> After("hsa")]
  OBVIOUS
<1>6. grown \in Balances
  BY <1>4, <1>5 DEF Balances
<1>7. Grown(percent) = [accounts EXCEPT !.balance = grown]
  BY <1>1, <1>5 DEF Grown
<1>8. Grown(percent) = [balance |-> grown, held |-> h, cash |-> c]
  BY <1>1, <1>7
<1> QED BY <1>6, <1>8 DEF Accounts

LEMMA CareCostIs ==
  ASSUME TypeOK
  PROVE  /\ CareCost \in Nat
         /\ care.observed => CareCost = CostOf(plan, care.episode, Year)
<1>1. care.episode \in Episodes \cup {NoEpisode} /\ care.observed \in BOOLEAN
  BY DEF TypeOK
<1>2. CostOf(plan, care.episode, Year) \in Nat
  BY <1>1, YearIs, CostIs
<1>3. CareCost = IF care.observed THEN CostOf(plan, care.episode, Year) ELSE 0
  BY YearIs DEF CareCost, CostOf
<1> QED BY <1>2, <1>3

LEMMA WorkingYearBegins == ASSUME PathInv, BeginWorkingYear PROVE PathInv'
<1>1. TypeOK /\ Placed /\ LedgerKept /\ CareKept
  BY DEF PathInv
<1>2. phase = "begin" /\ ~Retired /\ phase' = "shortfall" /\ basis' = BasisOfYear
      /\ UNCHANGED <<plan, allowance, magi, care, row, success>>
  BY DEF BeginWorkingYear
<1>3. Year' = Year /\ Age' = Age /\ Years' = Years /\ Retired' = Retired
  BY <1>2 DEF Year, Age, Years, Retired
<1>a. PICK percent \in Growth :
        LET forced == Lesser(RmdOfYear, Grown(percent).balance.traditional)
        IN  /\ accounts' = [Grown(percent) EXCEPT !.balance.traditional = @ - forced]
            /\ now' = [Fresh EXCEPT !.rmd = forced, !.w.traditional = forced,
                                    !.invested = TotalOf(Grown(percent).balance)]
  BY DEF BeginWorkingYear
<1>4. PICK forced :
        /\ forced = Lesser(RmdOfYear, Grown(percent).balance.traditional)
        /\ accounts' = [Grown(percent) EXCEPT !.balance.traditional = @ - forced]
        /\ now' = [Fresh EXCEPT !.rmd = forced, !.w.traditional = forced,
                                !.invested = TotalOf(Grown(percent).balance)]
  BY <1>a
<1>5. PICK b \in Balances, h \in SUBSET AccountType, c \in SUBSET AccountType :
        Grown(percent) = [balance |-> b, held |-> h, cash |-> c]
  BY <1>1, GrownTyped, AccountsIs
<1>6. /\ b = [taxable |-> b.taxable, traditional |-> b.traditional, roth |-> b.roth, hsa |-> b.hsa]
      /\ b.taxable \in Nat /\ b.traditional \in Nat /\ b.roth \in Nat /\ b.hsa \in Nat
  BY DEF Balances
<1>7. forced \in Nat /\ forced <= b.traditional
  BY <1>1, <1>4, <1>5, <1>6, RmdNat DEF Lesser
<1>8. accounts' \in Accounts
  <2>1. PICK rest \in Nat : rest = b.traditional - forced
    BY <1>6, <1>7
  <2>2. PICK left : left = [taxable |-> b.taxable, traditional |-> rest, roth |-> b.roth, hsa |-> b.hsa]
    OBVIOUS
  <2>3. left \in Balances
    BY <1>6, <2>2 DEF Balances
  <2>4. accounts' = [balance |-> left, held |-> h, cash |-> c]
    BY <1>4, <1>5, <1>6, <2>1, <2>2
  <2> QED BY <2>3, <2>4 DEF Accounts
<1>9. now' \in NowType /\ now'.w.traditional = now'.rmd
  <2>1. PICK total \in Nat : total = TotalOf(Grown(percent).balance)
    BY <1>5, TotalNat
  <2>2. PICK w : w = [taxable |-> 0, traditional |-> forced, roth |-> 0, hsa |-> 0]
    OBVIOUS
  <2>3. w \in Balances
    BY <1>7, <2>2 DEF Balances
  <2>4. now' = [rmd |-> forced, benefit |-> 0, target |-> 0, w |-> w, penalties |-> 0, gains |-> 0,
                pass |-> 0, taxes |-> 0, surplus |-> 0, short |-> FALSE, invested |-> total]
    <3>1. PICK n : n = now'
      OBVIOUS
    <3>2. n = [rmd |-> n.rmd, benefit |-> n.benefit, target |-> n.target, w |-> n.w,
               penalties |-> n.penalties, gains |-> n.gains, pass |-> n.pass, taxes |-> n.taxes,
               surplus |-> n.surplus, short |-> n.short, invested |-> n.invested]
      BY <1>4, <3>1 DEF Fresh
    <3>3. /\ n.rmd = forced /\ n.benefit = 0 /\ n.target = 0 /\ n.penalties = 0 /\ n.gains = 0
          /\ n.pass = 0 /\ n.taxes = 0 /\ n.surplus = 0 /\ n.short = FALSE /\ n.invested = total
      BY <1>4, <2>1, <3>1 DEF Fresh
    <3>4. n.w = [Nothing EXCEPT !.traditional = forced]
      BY <1>4, <3>1 DEF Fresh
    <3>5. n.w = w
      BY <2>2, <3>4 DEF Nothing
    <3> QED BY <3>1, <3>2, <3>3, <3>5
  <2> QED BY <1>7, <2>1, <2>2, <2>3, <2>4 DEF NowType
<1>10. TypeOK'
  BY <1>1, <1>2, <1>8, BasisOfYearIs DEF TypeOK
<1>11. Placed'
  <2>1. now'.rmd \in Nat
    BY <1>9 DEF NowType
  <2> QED BY <1>1, <1>2, <1>3, <1>9, <2>1 DEF Placed
<1>12. LedgerKept'
  BY <1>1, <1>2, <1>3, BasisOfYearIs DEF LedgerKept
<1>13. CareKept'
  <2>1. plan.retire \in Nat /\ CareAge \in Nat /\ Age \in Nat /\ plan.start \in Nat
    BY <1>1, YearIs, PlanIs
  <2>2. care.observed => ~(plan.retire <= CareAge + 1)
    BY <1>1, <1>2, <2>1 DEF CareKept, Retired, Greater
  <2> QED BY <1>1, <1>2, <1>3, <2>2 DEF CareKept
<1>14. CliffKept' /\ RuinKept'
  <2>1. now'.rmd \in Nat
    BY <1>9 DEF NowType
  <2> QED BY <1>2, <1>9, <2>1 DEF CliffKept, RuinKept
<1>15. Reported'
  BY <1>2 DEF Reported, CliffNotCrossed, RuinMeansEmpty, Closed
<1> QED BY <1>10, <1>11, <1>12, <1>13, <1>14, <1>15 DEF PathInv

LEMMA RetiredYearBegins == ASSUME PathInv, BeginRetiredYear PROVE PathInv'
<1>1. TypeOK /\ Placed /\ LedgerKept /\ CareKept
  BY DEF PathInv
<1>2. phase = "begin" /\ Retired /\ phase' = "fund" /\ basis' = BasisOfYear
      /\ care' = [care EXCEPT !.billed = @ + CareCost]
      /\ UNCHANGED <<plan, magi, row, success>>
  BY DEF BeginRetiredYear
<1>3. Year' = Year /\ Age' = Age /\ Years' = Years /\ Retired' = Retired
  BY <1>2 DEF Year, Age, Years, Retired
<1>4. PICK premium : premium = Premium(plan, magi, plan.living + plan.outOfPocket + CareCost,
                                       Benefit, accounts, Age)
  OBVIOUS
<1>5. premium \in Nat
  <2>1. plan \in Plans /\ magi \in Seq(MagiRecord) /\ Age \in Nat
    BY <1>1, YearIs DEF TypeOK, MagiRecord
  <2> QED BY <1>4, <2>1, PremiumNat
<1>6. PICK cost \in Nat : cost = CareCost
  BY <1>1, CareCostIs
<1>7. PICK percent \in Growth :
        /\ accounts' = Grown(percent)
        /\ now' = [Fresh EXCEPT !.rmd = RmdOfYear, !.benefit = Benefit,
                     !.target = plan.living + premium + plan.outOfPocket + CareCost,
                     !.invested = TotalOf(Grown(percent).balance)]
  BY <1>4 DEF BeginRetiredYear
<1>8. allowance' = allowance + CareCost
                     + (plan.outOfPocket + (IF Age >= MedicareAge THEN premium ELSE 0))
  BY <1>4 DEF BeginRetiredYear
<1>9. /\ plan.living \in Nat /\ plan.outOfPocket \in Nat /\ plan.benefit \in Nat
      /\ plan.retire \in Nat /\ plan.start \in Nat /\ CareAge \in Nat
  BY <1>1, YearIs, PlanIs
<1>10. allowance' \in Nat
  <2>1. allowance \in Nat
    BY <1>1 DEF TypeOK
  <2> QED BY <1>5, <1>6, <1>8, <1>9, <2>1
<1>11. accounts' \in Accounts
  BY <1>1, <1>7, GrownTyped
<1>12. now' \in NowType /\ now'.w = Nothing /\ now'.short = FALSE
  <2>1. PICK total \in Nat : total = TotalOf(Grown(percent).balance)
    BY <1>7, <1>11, TotalNat DEF Accounts
  <2>2. PICK rmd \in Nat : rmd = RmdOfYear
    BY <1>1, RmdNat
  <2>3. PICK benefit \in Nat : benefit = Benefit
    BY <1>9 DEF Benefit
  <2>4. PICK target \in Nat : target = plan.living + premium + plan.outOfPocket + CareCost
    BY <1>5, <1>6, <1>9
  <2>5. PICK n : n = now'
    OBVIOUS
  <2>6. n = [rmd |-> n.rmd, benefit |-> n.benefit, target |-> n.target, w |-> n.w,
             penalties |-> n.penalties, gains |-> n.gains, pass |-> n.pass, taxes |-> n.taxes,
             surplus |-> n.surplus, short |-> n.short, invested |-> n.invested]
    BY <1>7, <2>5 DEF Fresh
  <2>7. /\ n.rmd = rmd /\ n.benefit = benefit /\ n.target = target /\ n.penalties = 0 /\ n.gains = 0
        /\ n.pass = 0 /\ n.taxes = 0 /\ n.surplus = 0 /\ n.short = FALSE /\ n.invested = total
        /\ n.w = Nothing
    BY <1>7, <2>1, <2>2, <2>3, <2>4, <2>5 DEF Fresh
  <2>8. n = [rmd |-> rmd, benefit |-> benefit, target |-> target, w |-> Nothing,
             penalties |-> 0, gains |-> 0, pass |-> 0, taxes |-> 0, surplus |-> 0,
             short |-> FALSE, invested |-> total]
    BY <2>6, <2>7
  <2>9. n \in NowType
    BY <2>8, NothingTyped DEF NowType
  <2> QED BY <2>5, <2>7, <2>9
<1>13. PICK o \in BOOLEAN, e \in Episodes \cup {NoEpisode}, billed \in Nat :
         care = [observed |-> o, episode |-> e, billed |-> billed]
  BY <1>1 DEF TypeOK
<1>14. PICK more \in Nat : more = billed + cost
  OBVIOUS
<1>15. care' = [observed |-> o, episode |-> e, billed |-> more]
  <2>1. care' = [care EXCEPT !.billed = more]
    BY <1>2, <1>6, <1>13, <1>14
  <2> QED BY <1>13, <2>1
<1>16. TypeOK'
  <2>1. care' \in [observed : BOOLEAN, episode : Episodes \cup {NoEpisode}, billed : Nat]
    BY <1>15
  <2> QED BY <1>1, <1>2, <1>10, <1>11, <2>1, BasisOfYearIs DEF TypeOK
<1>17. Placed'
  BY <1>1, <1>2, <1>3, <1>12 DEF Placed
<1>18. LedgerKept'
  BY <1>1, <1>2, <1>3, BasisOfYearIs DEF LedgerKept
<1>19. CareKept'
  <2>1. PICK p \in Plans, y \in Nat : p = plan /\ y = Year
    BY <1>1, YearIs
  <2>2. care'.observed = o /\ care'.episode = e /\ care'.billed = more
        /\ care.observed = o /\ care.episode = e /\ care.billed = billed
    BY <1>13, <1>15
  <2>3. CASE ~o
    <3>1. cost = 0
      BY <1>6, <2>2, <2>3 DEF CareCost
    <3> QED BY <1>1, <1>2, <1>3, <1>14, <2>2, <2>3, <3>1 DEF CareKept
  <2>4. CASE o
    <3>1. cost = CostOf(p, e, y)
      BY <1>1, <1>6, <2>1, <2>2, <2>4, CareCostIs
    <3>2. Charged(p, e, y) + CostOf(p, e, y) = Charged(p, e, y + 1)
      BY ChargedStep
    <3>3. p.start < LifeExpectancy /\ p.retire <= CareAge + 1 => billed = Charged(p, e, y)
      BY <1>1, <1>2, <2>1, <2>2, <2>4 DEF CareKept
    <3>4. p.start < LifeExpectancy /\ p.retire <= CareAge + 1 => more = Charged(p, e, y + 1)
      BY <1>14, <3>1, <3>2, <3>3
    <3>5. LifeExpectancy > CareAge /\ Age > Greater(plan.start, CareAge)
      BY <1>1, <2>2, <2>4 DEF CareKept
    <3> QED BY <1>2, <1>3, <2>1, <2>2, <2>4, <3>4, <3>5 DEF CareKept
  <2> QED BY <2>3, <2>4
<1>20. CliffKept' /\ RuinKept'
  BY <1>2 DEF CliffKept, RuinKept
<1>21. Reported'
  BY <1>2 DEF Reported, CliffNotCrossed, RuinMeansEmpty, Closed
<1> QED BY <1>16, <1>17, <1>18, <1>19, <1>20, <1>21 DEF PathInv

-----------------------------------------------------------------------------
(* The year ends *)

(* What the report of a year has to be for the invariant to go on.            *)
Sound(report) == report.income \in Nat /\ report.w \in Balances /\ report.short \in BOOLEAN

(* The state the end of a year leaves, apart from the accounts and the basis. *)
Settled(report, conversion) ==
  /\ plan' = plan /\ allowance' = allowance /\ row' = report /\ now' = Fresh
  /\ phase' \in {"begin", "done"} /\ magi' \in Seq([total : Nat, wages : Nat])
  /\ care' \in CareType /\ success' \in BOOLEAN
  /\ Year' = Year + 1
  /\ magi'[Len(magi')].total = report.income + report.w.traditional + conversion
                                 + Share(report.w.taxable, GainRatio)

LEMMA YearEnds ==
  ASSUME TypeOK, Placed, phase \in {"shortfall", "convert"}, NEW report, Sound(report),
         NEW conversion \in Nat, EndYear(report, conversion)
  PROVE  Settled(report, conversion)
<1>1. PICK gain \in Nat : gain = Share(report.w.taxable, GainRatio)
  BY GainNat DEF Sound, Balances
<1>2. PICK drawn \in Nat, income \in Nat : drawn = report.w.traditional /\ income = report.income
  BY DEF Sound, Balances
<1>3. PICK total \in Nat : total = income + drawn + conversion + gain
  OBVIOUS
<1>4. PICK wages \in Nat : wages = IF Retired THEN 0 ELSE income
  OBVIOUS
<1>5. PICK record \in [total : Nat, wages : Nat] : record = [total |-> total, wages |-> wages]
  OBVIOUS
<1>6. magi' = Append(magi, record)
  BY <1>1, <1>2, <1>3, <1>4, <1>5 DEF EndYear
<1>7. magi \in Seq([total : Nat, wages : Nat])
  BY DEF TypeOK
<1>8. /\ magi' \in Seq([total : Nat, wages : Nat]) /\ Len(magi') = Len(magi) + 1
      /\ magi'[Len(magi')] = record
  BY <1>6, <1>7
<1>9. care' \in CareType
  <2>1. care \in CareType
    BY DEF TypeOK, CareType
  <2>2. ASSUME NEW e \in Episodes \cup {NoEpisode},
               care' = [care EXCEPT !.observed = TRUE, !.episode = e]
        PROVE  care' \in CareType
    BY <2>1, <2>2 DEF CareType
  <2> QED BY <2>1, <2>2 DEF EndYear
<1>10. success' \in BOOLEAN
  BY DEF EndYear, TypeOK, Sound
<1>11. phase' \in {"begin", "done"} /\ plan' = plan /\ allowance' = allowance
       /\ row' = report /\ now' = Fresh
  BY DEF EndYear
<1>12. magi'[Len(magi')].total = total
  BY <1>5, <1>8
<1> QED BY <1>1, <1>2, <1>3, <1>8, <1>9, <1>10, <1>11, <1>12 DEF Settled, Year

LEMMA NextYearPlaced ==
  ASSUME TypeOK, Placed, phase \in {"shortfall", "convert"}, NEW report, NEW conversion,
         EndYear(report, conversion), Settled(report, conversion)
  PROVE  Placed'
<1>1. Year < Years /\ Year \in Nat /\ Years \in Nat
  BY YearIs, PlanIs DEF Placed
<1>2. Years' = Years /\ Year' = Year + 1
  BY DEF Settled, Years
<1>3. phase' = IF Year + 1 < Years THEN "begin" ELSE "done"
  BY DEF EndYear
<1>4. now' \in NowType
  BY FreshTyped DEF Settled
<1>5. phase' # "done" => Year' < Years'
  BY <1>2, <1>3
<1>6. phase' = "done" => Year' = Years'
  BY <1>1, <1>2, <1>3
<1>7. phase' \in {"begin", "done"}
  BY <1>3
<1> QED BY <1>4, <1>5, <1>6, <1>7 DEF Placed

LEMMA NextYearCare ==
  ASSUME TypeOK, Placed, CareKept, phase \in {"shortfall", "convert"}, NEW report, NEW conversion,
         EndYear(report, conversion), Settled(report, conversion)
  PROVE  CareKept'
<1>1. PICK p \in Plans, y \in Nat : p = plan /\ y = Year
  BY YearIs
<1>2. plan' = p /\ Year' = y + 1 /\ Age = p.start + y /\ Age' = p.start + (y + 1)
  BY <1>1, YearIs DEF Settled, Age
<1>3. /\ p.start \in Nat /\ p.retire \in Nat /\ CareAge \in Nat /\ LifeExpectancy \in Nat
      /\ p.start <= LifeExpectancy
  BY PlanIs
<1>4. phase' \in {"begin", "done"}
  BY DEF Settled
<1>5. PICK o \in BOOLEAN, e \in Episodes \cup {NoEpisode}, billed \in Nat :
         care = [observed |-> o, episode |-> e, billed |-> billed]
  BY DEF TypeOK
<1>6. care.observed = o /\ care.episode = e /\ care.billed = billed
  BY <1>5
<1>7. CASE /\ p.care /\ LifeExpectancy > CareAge /\ Age >= CareAge /\ ~o
  <2>1. PICK drawn \in Episodes \cup {NoEpisode} :
          care' = [care EXCEPT !.observed = TRUE, !.episode = drawn]
    BY <1>1, <1>6, <1>7 DEF EndYear
  <2>2. care'.observed = TRUE /\ care'.episode = drawn /\ care'.billed = billed
    BY <1>5, <2>1
  <2>3. billed = 0 /\ p.start + y <= Greater(p.start, CareAge)
    BY <1>1, <1>2, <1>6, <1>7 DEF CareKept
  <2>4. Charged(p, drawn, y + 1) = 0
    BY <2>3, ChargedStarts
  <2>5. p.start + (y + 1) > Greater(p.start, CareAge)
    BY <1>2, <1>3, <1>7 DEF Greater
  <2> QED BY <1>2, <1>4, <1>7, <2>2, <2>3, <2>4, <2>5 DEF CareKept
<1>8. CASE ~(p.care /\ LifeExpectancy > CareAge /\ Age >= CareAge /\ ~o)
  <2>1. care' = care
    BY <1>1, <1>6, <1>8 DEF EndYear
  <2>2. CASE ~o
    <3>1. p.care /\ LifeExpectancy > CareAge => p.start + (y + 1) <= Greater(p.start, CareAge)
      BY <1>2, <1>3, <1>8, <2>2 DEF Greater
    <3>2. billed = 0
      BY <1>6, <2>2 DEF CareKept
    <3> QED BY <1>2, <1>6, <2>1, <2>2, <3>1, <3>2 DEF CareKept
  <2>3. CASE o
    <3>1. LifeExpectancy > CareAge /\ p.start + y > Greater(p.start, CareAge)
      BY <1>1, <1>2, <1>6, <2>3 DEF CareKept
    <3>2. p.start + (y + 1) > Greater(p.start, CareAge)
      BY <1>3, <3>1 DEF Greater
    <3>3. p.start < LifeExpectancy /\ p.retire <= CareAge + 1 => billed = Charged(p, e, y + 1)
      BY <1>1, <1>6, <2>3 DEF CareKept
    <3> QED BY <1>2, <1>4, <1>6, <2>1, <2>3, <3>1, <3>2, <3>3 DEF CareKept
  <2> QED BY <2>2, <2>3
<1> QED BY <1>7, <1>8

-----------------------------------------------------------------------------
(* Working years *)

LEMMA CashFlowTyped ==
  ASSUME TaxIsWhole, TypeOK, Placed
  PROVE  CashFlow.net \in Int /\ CashFlow.deposits \in Balances /\ Unfunded \in Nat
<1>1. PICK spending \in Int, ordinary \in Int, gains \in Int :
        /\ spending = plan.spending + now.penalties
        /\ ordinary = now.w.traditional + now.w.hsa /\ gains = now.gains
  <2>1. now.penalties \in Nat /\ now.gains \in Nat /\ now.w \in Balances
    BY DEF Placed, NowType
  <2>2. now.w.traditional \in Nat /\ now.w.hsa \in Nat
    BY <2>1 DEF Balances
  <2>3. plan.spending \in Nat
    BY YearIs, PlanIs
  <2> QED BY <2>1, <2>2, <2>3
<1>2. plan \in Plans /\ plan.salary \in Nat
  BY YearIs, PlanIs
<1>3. CashFlow.net \in Int /\ CashFlow.deposits \in Balances
  BY <1>1, <1>2, CashFlowIs DEF CashFlow
<1>4. now.w.taxable \in Nat /\ now.w.roth \in Nat
  BY DEF Placed, NowType, Balances
<1>5. -CashFlow.net - now.w.taxable - now.w.roth \in Int
  BY <1>3, <1>4
<1> QED BY <1>3, <1>5, PositiveNat DEF Unfunded

(* A draw keeps voluntary traditional money under the thresholds.             *)
LEMMA DrawStaysUnder ==
  ASSUME NEW p, NEW a \in Accounts, NEW amount, NEW age, NEW income \in Nat, NEW rmd \in Nat,
         NEW w \in Balances, w.traditional >= rmd, NEW drawn, p.magiAware,
         Draws(drawn, p, a, amount, age, income + w.traditional + Share(w.taxable, GainRatio)),
         drawn.roth < a.balance.roth, w.traditional + drawn.traditional > rmd,
         w.traditional > rmd => a.balance.taxable = 0 /\ Under(p, age, income, w, rmd)
  PROVE  /\ a.balance.taxable - drawn.taxable = 0
         /\ \A sum \in Balances :
              /\ sum.traditional = w.traditional + drawn.traditional
              /\ sum.taxable = w.taxable + drawn.taxable
              => Under(p, age, income, sum, rmd)
<1>1. PICK wt \in Nat, wd \in Nat, dt \in Nat, dd \in Nat, left \in Nat :
        /\ wt = w.taxable /\ wd = w.traditional /\ dt = drawn.taxable /\ dd = drawn.traditional
        /\ left = a.balance.taxable /\ dt <= left
  <2>1. w.taxable \in Nat /\ w.traditional \in Nat /\ a.balance.taxable \in Nat
    BY DEF Balances, Accounts
  <2>2. drawn.taxable \in Nat /\ drawn.traditional \in Nat /\ drawn.taxable <= a.balance.taxable
    BY DEF Draws, Within, Balances
  <2> QED BY <2>1, <2>2
<1>2. PICK gain \in Nat, more \in Nat, both \in Nat :
        /\ gain = Share(wt, GainRatio) /\ more = Share(dt, GainRatio)
        /\ both = Share(wt + dt, GainRatio)
        /\ gain + more <= both /\ both <= gain + more + 1
  <2>1. GainRatio \in Nat /\ wt + dt \in Nat
    BY PortfolioAssumption
  <2>2. /\ Share(wt, GainRatio) \in Nat /\ Share(dt, GainRatio) \in Nat
        /\ Share(wt + dt, GainRatio) \in Nat
    BY <2>1, ShareNat
  <2> QED BY <2>1, <2>2, ShareOfSum
<1>3. dd > 0 => dt = left
  BY <1>1 DEF Draws
<1>4. wd > rmd => left = 0 /\ \A t \in Tested(p, age) : income + rmd + gain <= t =>
                                                        income + wd + gain <= t
  BY <1>1, <1>2 DEF Under
<1>5. left - dt = 0
  BY <1>1, <1>3, <1>4
<1>6. PICK committed \in Nat : committed = income + wd + gain + more
  OBVIOUS
<1>7. dd > 0 => \A t \in Thresholds(p, age, committed) : committed + dd + CeilingMargin <= t
  BY <1>1, <1>2, <1>6 DEF Draws
<1>8. ASSUME NEW t \in Tested(p, age), income + rmd + both <= t
      PROVE  income + (wd + dd) + both <= t
  <2>1. t \in Nat /\ CeilingMargin \in Nat \ {0}
    BY TestedNat, PortfolioAssumption
  <2>2. CASE wd > rmd
    <3>1. dt = 0
      BY <1>1, <1>4, <2>2
    <3>2. both = gain /\ more = 0
      <4>1. Share(0, GainRatio) = 0
        BY PortfolioAssumption DEF Share
      <4> QED BY <1>2, <3>1, <4>1
    <3>3. committed <= t
      BY <1>4, <1>6, <1>8, <2>2, <3>2
    <3>4. dd > 0 => committed + dd + CeilingMargin <= t
      BY <1>7, <3>3, ThresholdsAre
    <3> QED BY <1>6, <2>1, <3>2, <3>3, <3>4
  <2>3. CASE wd = rmd
    <3>1. dd > 0
      BY <1>1, <2>3
    <3>2. committed <= t
      BY <1>2, <1>6, <1>8, <2>1, <2>3
    <3>3. committed + dd + CeilingMargin <= t
      BY <1>7, <3>1, <3>2, ThresholdsAre
    <3> QED BY <1>2, <1>6, <2>1, <3>3
  <2> QED BY <1>1, <2>2, <2>3
<1>9. ASSUME NEW sum \in Balances, sum.traditional = w.traditional + drawn.traditional,
             sum.taxable = w.taxable + drawn.taxable
      PROVE  Under(p, age, income, sum, rmd)
  BY <1>1, <1>2, <1>8, <1>9 DEF Under
<1> QED BY <1>1, <1>5, <1>9

LEMMA PassKeeps == ASSUME TaxIsWhole, PathInv, ShortfallPass PROVE PathInv'
<1>1. TypeOK /\ Placed /\ LedgerKept /\ CareKept /\ CliffKept
  BY DEF PathInv
<1>2. phase = "shortfall" /\ UNCHANGED <<plan, phase, basis, allowance, magi, care, row, success>>
  BY DEF ShortfallPass
<1>3. Year' = Year /\ Age' = Age /\ Years' = Years /\ Retired' = Retired
  BY <1>2 DEF Year, Age, Years, Retired
<1>4. PICK unfunded \in Nat : unfunded = Unfunded
  BY <1>1, CashFlowTyped
<1>5. PICK n \in NowType : n = now
  BY <1>1 DEF Placed
<1>6. /\ n.rmd \in Nat /\ n.w \in Balances /\ n.penalties \in Nat /\ n.gains \in Nat /\ n.pass \in Nat
      /\ n.w.traditional >= n.rmd
  BY <1>1, <1>2, <1>5 DEF NowType, Placed
<1>7. n.w.taxable \in Nat /\ n.w.traditional \in Nat /\ n.w.roth \in Nat /\ n.w.hsa \in Nat
  BY <1>6 DEF Balances
<1>8. PICK p \in Plans, age \in Nat, salary \in Nat : p = plan /\ age = Age /\ salary = plan.salary
  BY <1>1, YearIs, PlanIs
<1>9. PICK gain \in Nat : gain = Share(n.w.taxable, GainRatio)
  BY <1>7, GainNat
<1>10. PICK committed \in Nat : committed = salary + n.w.traditional + gain
  BY <1>7
<1>11. PICK a \in Accounts : a = accounts
  BY <1>1 DEF TypeOK
<1>12. PICK drawn : drawn = apply_withdrawal_order(p, a, unfunded, age, committed)
  OBVIOUS
<1>13. Draws(drawn, p, a, unfunded, age, committed)
  <2>1. unfunded \in Int
    OBVIOUS
  <2> QED BY <1>12, <2>1, DrawIs
<1>14. /\ accounts' = [accounts EXCEPT !.balance = Less(@, drawn)]
       /\ now' = IF TotalOf(drawn) <= Tolerance
                 THEN [now EXCEPT !.pass = ShortfallPasses]
                 ELSE [now EXCEPT !.pass = @ + 1, !.w = Plus(@, drawn),
                         !.penalties = @ + penalties_on(drawn.traditional, drawn.hsa, 0, Age),
                         !.gains = @ + Share(drawn.taxable, GainRatio)]
  BY <1>4, <1>5, <1>8, <1>9, <1>10, <1>11, <1>12 DEF ShortfallPass
<1>15. /\ drawn \in Balances /\ Within(drawn, a.balance)
       /\ drawn.taxable \in Nat /\ drawn.traditional \in Nat /\ drawn.roth \in Nat /\ drawn.hsa \in Nat
       /\ drawn.taxable <= a.balance.taxable /\ drawn.roth <= a.balance.roth
  BY <1>13 DEF Draws, Within, Balances
<1>16. PICK b \in Balances, h \in SUBSET AccountType, c \in SUBSET AccountType :
         a = [balance |-> b, held |-> h, cash |-> c]
  BY AccountsIs
<1>17. PICK left \in Balances : left = Less(b, drawn)
  BY <1>15, <1>16, LessTyped
<1>18. accounts' = [balance |-> left, held |-> h, cash |-> c]
  <2>1. accounts' = [a EXCEPT !.balance = left]
    BY <1>11, <1>14, <1>16, <1>17
  <2> QED BY <1>16, <2>1
<1>19. accounts' \in Accounts /\ accounts'.balance = left
  BY <1>18 DEF Accounts
<1>20. /\ b.taxable \in Nat /\ b.roth \in Nat
       /\ left.taxable = b.taxable - drawn.taxable /\ left.roth = b.roth - drawn.roth
  BY <1>17 DEF Less, Balances
<1>21. PICK w \in Balances :
         /\ w = Plus(n.w, drawn) /\ w.taxable = n.w.taxable + drawn.taxable
         /\ w.traditional = n.w.traditional + drawn.traditional
  <2>1. Plus(n.w, drawn) \in Balances
    BY <1>6, <1>15, PlusTyped
  <2> QED BY <2>1 DEF Plus
<1>22. now' \in NowType /\ now'.rmd = n.rmd
       /\ ((TotalOf(drawn) <= Tolerance /\ now'.w = n.w) \/ now'.w = w)
  <2>1. CASE TotalOf(drawn) <= Tolerance
    <3>1. now' = [n EXCEPT !.pass = ShortfallPasses]
      BY <1>5, <1>14, <2>1
    <3>2. ShortfallPasses \in Nat
      BY ProjectionAssumption
    <3> QED BY <2>1, <3>1, <3>2 DEF NowType
  <2>2. CASE ~(TotalOf(drawn) <= Tolerance)
    <3>1. PICK pass \in Nat, penalties \in Nat, gains \in Nat :
            /\ pass = n.pass + 1
            /\ penalties = n.penalties + penalties_on(drawn.traditional, drawn.hsa, 0, Age)
            /\ gains = n.gains + Share(drawn.taxable, GainRatio)
      <4>1. penalties_on(drawn.traditional, drawn.hsa, 0, age) \in Nat
        BY <1>15, PenaltiesNat
      <4>2. Share(drawn.taxable, GainRatio) \in Nat
        BY <1>15, GainNat
      <4> QED BY <1>6, <1>8, <4>1, <4>2
    <3>2. now' = [n EXCEPT !.pass = pass, !.w = w, !.penalties = penalties, !.gains = gains]
      BY <1>5, <1>14, <1>21, <2>2, <3>1
    <3> QED BY <3>1, <3>2 DEF NowType
  <2> QED BY <2>1, <2>2
<1>23. TypeOK'
  BY <1>1, <1>2, <1>19 DEF TypeOK
<1>24. Placed'
  <2>1. now'.w.traditional >= now'.rmd
    BY <1>6, <1>7, <1>15, <1>21, <1>22
  <2> QED BY <1>1, <1>2, <1>3, <1>22, <2>1 DEF Placed
<1>25. LedgerKept'
  BY <1>1, <1>2, <1>3 DEF LedgerKept
<1>26. CareKept'
  BY <1>1, <1>2, <1>3 DEF CareKept
<1>27. CliffKept'
  <2>1. SUFFICES ASSUME p.magiAware, now'.w.traditional > now'.rmd, left.roth > 0
                 PROVE  left.taxable = 0 /\ Under(p, age, salary, now'.w, n.rmd)
    BY <1>2, <1>3, <1>8, <1>19, <1>22 DEF CliffKept
  <2>2. drawn.roth < a.balance.roth /\ a.balance.roth > 0
    BY <1>15, <1>16, <1>20, <2>1
  <2>3. n.w.traditional > n.rmd => a.balance.taxable = 0 /\ Under(p, age, salary, n.w, n.rmd)
    BY <1>1, <1>2, <1>5, <1>8, <1>11, <2>1, <2>2 DEF CliffKept
  <2>4. CASE now'.w = n.w
    <3>1. n.w.traditional > n.rmd
      BY <1>22, <2>1, <2>4
    <3>2. left.taxable = 0
      BY <1>15, <1>16, <1>20, <2>3, <3>1
    <3> QED BY <2>3, <2>4, <3>1, <3>2
  <2>5. CASE now'.w = w
    <3>1. n.w.traditional + drawn.traditional > n.rmd
      BY <1>21, <1>22, <2>1, <2>5
    <3>2. Draws(drawn, p, a, unfunded, age, salary + n.w.traditional + Share(n.w.taxable, GainRatio))
      BY <1>9, <1>10, <1>13
    <3>3. /\ a.balance.taxable - drawn.taxable = 0
          /\ \A sum \in Balances :
               /\ sum.traditional = n.w.traditional + drawn.traditional
               /\ sum.taxable = n.w.taxable + drawn.taxable
               => Under(p, age, salary, sum, n.rmd)
      BY <1>6, <2>1, <2>2, <2>3, <3>1, <3>2, DrawStaysUnder
    <3> QED BY <1>16, <1>20, <1>21, <2>5, <3>3
  <2> QED BY <1>22, <2>4, <2>5
<1>28. RuinKept'
  BY <1>2 DEF RuinKept
<1>29. Reported'
  BY <1>2 DEF Reported, CliffNotCrossed, RuinMeansEmpty, Closed
<1> QED BY <1>23, <1>24, <1>25, <1>26, <1>27, <1>28, <1>29 DEF PathInv

LEMMA WorkingYearCloses == ASSUME TaxIsWhole, PathInv, CloseWorkingYear PROVE PathInv'
<1>1. TypeOK /\ Placed /\ LedgerKept /\ CareKept /\ CliffKept
  BY DEF PathInv
<1>2. PICK d \in Balances : d = CashFlow.deposits
  BY <1>1, CashFlowTyped
<1>3. d.taxable \in Nat /\ d.traditional \in Nat /\ d.roth \in Nat /\ d.hsa \in Nat
  BY DEF Balances
<1>4. PICK unfunded \in Nat : unfunded = Unfunded
  BY <1>1, CashFlowTyped
<1>5. PICK a \in Accounts : a = accounts
  BY <1>1 DEF TypeOK
<1>6. PICK hsa \in Accounts, traditional \in Accounts, roth \in Accounts, last \in Accounts :
        /\ hsa = deposit_to_bucket(a, "hsa", d.hsa)
        /\ traditional = deposit_to_bucket(hsa, "traditional", d.traditional)
        /\ roth = deposit_to_bucket(traditional, "roth", d.roth)
        /\ last = deposit_to_bucket(roth, "taxable", d.taxable)
        /\ last.balance.roth = a.balance.roth + d.roth
  <2>1. /\ "hsa" \in AccountType /\ "traditional" \in AccountType
        /\ "roth" \in AccountType /\ "taxable" \in AccountType
    BY DEF AccountType
  <2>2. d.taxable \in Int /\ d.traditional \in Int /\ d.roth \in Int /\ d.hsa \in Int
    BY <1>3
  <2>3. PICK hsa \in Accounts : /\ hsa = deposit_to_bucket(a, "hsa", d.hsa)
                                /\ hsa.balance = [a.balance EXCEPT !["hsa"] = @ + Positive(d.hsa)]
    BY <2>1, <2>2, DepositTyped
  <2>4. PICK traditional \in Accounts :
          /\ traditional = deposit_to_bucket(hsa, "traditional", d.traditional)
          /\ traditional.balance = [hsa.balance EXCEPT !["traditional"] = @ + Positive(d.traditional)]
    BY <2>1, <2>2, DepositTyped
  <2>5. PICK roth \in Accounts :
          /\ roth = deposit_to_bucket(traditional, "roth", d.roth)
          /\ roth.balance = [traditional.balance EXCEPT !["roth"] = @ + Positive(d.roth)]
    BY <2>1, <2>2, DepositTyped
  <2>6. PICK last \in Accounts :
          /\ last = deposit_to_bucket(roth, "taxable", d.taxable)
          /\ last.balance = [roth.balance EXCEPT !["taxable"] = @ + Positive(d.taxable)]
    BY <2>1, <2>2, DepositTyped
  <2>7. /\ a.balance \in Balances /\ hsa.balance \in Balances /\ traditional.balance \in Balances
        /\ roth.balance \in Balances
    BY DEF Accounts
  <2>8. hsa.balance.roth = a.balance.roth
    BY <2>3, <2>7 DEF Balances
  <2>9. traditional.balance.roth = hsa.balance.roth
    BY <2>4, <2>7 DEF Balances
  <2>10. roth.balance.roth = traditional.balance.roth + Positive(d.roth)
    BY <2>5, <2>7 DEF Balances
  <2>11. last.balance.roth = roth.balance.roth
    BY <2>6, <2>7 DEF Balances
  <2>12. Positive(d.roth) = d.roth
    BY <1>3 DEF Positive, Greater
  <2> QED BY <2>3, <2>4, <2>5, <2>6, <2>8, <2>9, <2>10, <2>11, <2>12
<1>7. PICK report : report =
        [age |-> Age, retired |-> FALSE, income |-> plan.salary, spending |-> plan.spending - Unfunded,
         taxes |-> CashFlow.tax + now.penalties, w |-> now.w, deposits |-> d,
         savings |-> TotalOf(d) - TotalOf(now.w), forced |-> now.rmd,
         gross |-> 0, converted |-> 0, short |-> Unfunded > Tolerance, invested |-> now.invested]
  OBVIOUS
<1>8. phase = "shortfall" /\ accounts' = last /\ EndYear(report, 0)
      /\ basis' = IF basis.enabled
                  THEN [basis EXCEPT !.regular = Positive(@ - now.w.roth) + d.roth] ELSE basis
  BY <1>2, <1>5, <1>6, <1>7 DEF CloseWorkingYear
<1>9. /\ report.income = plan.salary /\ report.w = now.w /\ report.short = (Unfunded > Tolerance)
      /\ report.age = Age /\ report.forced = now.rmd /\ report.deposits = d
      /\ report.retired = FALSE /\ report.gross = 0
  BY <1>7
<1>10. Sound(report)
  <2>1. now.w \in Balances
    BY <1>1 DEF Placed, NowType
  <2>2. plan.salary \in Nat
    BY <1>1, YearIs, PlanIs
  <2> QED BY <1>9, <2>1, <2>2 DEF Sound
<1>11. Settled(report, 0)
  BY <1>1, <1>8, <1>10, YearEnds
<1>12. Placed'
  BY <1>1, <1>8, <1>11, NextYearPlaced
<1>13. CareKept'
  BY <1>1, <1>8, <1>11, NextYearCare
<1>14. PICK e \in BOOLEAN, r \in Nat, l \in Seq(Lot), u \in Nat :
         basis = [enabled |-> e, regular |-> r, lots |-> l, unseasoned |-> u]
  BY <1>1, BasisIs DEF TypeOK
<1>15. basis' \in Basis /\ basis'.enabled = basis.enabled /\ basis'.lots = basis.lots
       /\ basis'.unseasoned = basis.unseasoned
  <2>1. basis \in Basis
    BY <1>1 DEF TypeOK
  <2>2. PICK regular \in Nat : regular = Positive(r - now.w.roth) + d.roth
    <3>1. now.w.roth \in Nat
      BY <1>1 DEF Placed, NowType, Balances
    <3>2. r - now.w.roth \in Int
      BY <3>1
    <3>3. Positive(r - now.w.roth) \in Nat
      BY <3>2, PositiveNat
    <3> QED BY <1>3, <3>3
  <2>3. basis' = IF basis.enabled THEN [basis EXCEPT !.regular = regular] ELSE basis
    BY <1>8, <1>14, <2>2
  <2> QED BY <2>1, <2>3 DEF Basis
<1>16. TypeOK'
  <2>1. plan \in Plans /\ allowance \in Nat
    BY <1>1 DEF TypeOK
  <2> QED BY <1>6, <1>8, <1>11, <1>15, <2>1 DEF TypeOK, Settled, CareType
<1>17. LedgerKept'
  <2>1. PICK y \in Nat : y = Year
    BY <1>1, YearIs
  <2>2. \A i \in DOMAIN l : l[i].year \in Nat
    <3>1. \A i \in DOMAIN l : l[i] \in Lot
      OBVIOUS
    <3> QED BY <3>1 DEF Lot
  <2>3. basis.lots = l
    BY <1>14
  <2>4. Ledger(basis, y)
    BY <1>1, <2>1 DEF LedgerKept
  <2>5. Ledger(basis', y + 1)
    BY <1>15, <2>2, <2>3, <2>4 DEF Ledger
  <2> QED BY <1>11, <2>1, <2>5 DEF LedgerKept, Settled
<1>18. CliffKept' /\ RuinKept'
  BY <1>11 DEF CliffKept, RuinKept, Settled, Fresh, Nothing
<1>19. Reported'
  <2>1. row' = report /\ plan' = plan
    BY <1>11 DEF Settled
  <2>2. SUFFICES ASSUME plan.magiAware, now.w.traditional > now.rmd, last.balance.roth > d.roth
                 PROVE  \A t \in TestedLater' :
                          plan.salary + now.rmd + Share(now.w.taxable, GainRatio) <= t =>
                            magi'[Len(magi')].total <= t
    BY <1>8, <1>9, <2>1 DEF Reported, CliffNotCrossed
  <2>3. accounts.balance.roth > 0
    <3>1. a.balance.roth \in Nat
      BY DEF Accounts, Balances
    <3> QED BY <1>3, <1>5, <1>6, <2>2, <3>1
  <2>4. Under(plan, Age, plan.salary, now.w, now.rmd)
    BY <1>1, <1>8, <2>2, <2>3 DEF CliffKept
  <2>5. TestedLater' = Tested(plan, Age)
    BY <1>9, <2>1 DEF TestedLater, Tested
  <2>6. magi'[Len(magi')].total = plan.salary + now.w.traditional + Share(now.w.taxable, GainRatio)
    <3>1. magi'[Len(magi')].total = plan.salary + now.w.traditional + 0 + Share(now.w.taxable, GainRatio)
      BY <1>9, <1>11 DEF Settled
    <3>2. plan.salary \in Nat /\ now.w.traditional \in Nat
      BY <1>9, <1>10 DEF Sound, Balances
    <3> QED BY <3>1, <3>2
  <2> QED BY <2>4, <2>5, <2>6 DEF Under
<1> QED BY <1>12, <1>13, <1>16, <1>17, <1>18, <1>19 DEF PathInv

-----------------------------------------------------------------------------
(* Retired years *)

LEMMA RetiredYearFunds == ASSUME TaxIsWhole, PathInv, FundRetiredYear PROVE PathInv'
<1>1. TypeOK /\ Placed /\ LedgerKept /\ CareKept
  BY DEF PathInv
<1>2. phase = "fund" /\ phase' = "convert" /\ UNCHANGED <<plan, magi, care, row, success>>
  BY DEF FundRetiredYear
<1>3. Year' = Year /\ Age' = Age /\ Years' = Years /\ Retired' = Retired
  BY <1>2 DEF Year, Age, Years, Retired
<1>4. PICK n \in NowType : n = now
  BY <1>1 DEF Placed
<1>5. n.rmd \in Nat /\ n.benefit \in Nat /\ n.target \in Nat
  BY DEF NowType
<1>6. PICK p \in Plans, age \in Nat, y \in Nat : p = plan /\ age = Age /\ y = Year
  BY <1>1, YearIs
<1>7. PICK a \in Accounts, ledger \in Basis, left \in Nat :
        a = accounts /\ ledger = basis /\ left = allowance
  BY <1>1 DEF TypeOK
<1>8. PICK c : c = [age |-> age, benefit |-> n.benefit, rmd |-> n.rmd, allowance |-> left]
  OBVIOUS
<1>9. c.age = age /\ c.benefit = n.benefit /\ c.rmd = n.rmd /\ c.allowance = left
  BY <1>8
<1>10. Context(c)
  BY <1>5, <1>9 DEF Context
<1>11. PICK found \in Solutions(p, a, ledger, c, n.target) :
         LET over == found.cash - now.target
             surplus == IF over > Tolerance THEN over ELSE 0
         IN  /\ accounts' = deposit_to_bucket([accounts EXCEPT !.balance = found.balance],
                                              "taxable", surplus)
             /\ basis' = consume_roth_basis(basis, found.w.roth)
             /\ allowance' = AllowanceLeft(found)
             /\ now' = [now EXCEPT !.w = found.w, !.taxes = found.taxes, !.surplus = surplus,
                                   !.short = over < -Tolerance]
  BY <1>4, <1>6, <1>7, <1>8 DEF FundRetiredYear
<1>12. PICK budget \in Nat :
         /\ found = evaluate_ordered_withdrawals(p, a, ledger, c, budget)
         /\ ~Funds(found, n.target) => TotalOf(found.balance) = 0
  <2>1. n.target \in Int
    BY <1>5
  <2> QED BY <1>10, <2>1, SolutionIs
<1>13. Evaluates(found, p, a, c, budget)
  BY <1>10, <1>12, EvaluationIs
<1>14. /\ found.balance \in Balances /\ found.w \in Balances /\ found.cash \in Int
       /\ found.taxes \in Int /\ found.qualified \in Nat /\ found.qualified <= left
  BY <1>9, <1>13 DEF Evaluates
<1>15. PICK over \in Int : over = found.cash - n.target
  BY <1>5, <1>14
<1>16. Tolerance \in Nat
  BY RuleAssumption
<1>17. PICK surplus \in Nat : surplus = IF over > Tolerance THEN over ELSE 0
  BY <1>16
<1>18. /\ accounts' = deposit_to_bucket([a EXCEPT !.balance = found.balance], "taxable", surplus)
       /\ basis' = consume_roth_basis(ledger, found.w.roth)
       /\ allowance' = left - found.qualified
       /\ now' = [n EXCEPT !.w = found.w, !.taxes = found.taxes, !.surplus = surplus,
                           !.short = over < -Tolerance]
  BY <1>4, <1>7, <1>11, <1>15, <1>17 DEF AllowanceLeft
<1>19. PICK paid \in Accounts :
         paid = [a EXCEPT !.balance = found.balance] /\ paid.balance = found.balance
  <2>1. PICK b \in Balances, h \in SUBSET AccountType, k \in SUBSET AccountType :
          a = [balance |-> b, held |-> h, cash |-> k]
    BY AccountsIs
  <2>2. [a EXCEPT !.balance = found.balance] = [balance |-> found.balance, held |-> h, cash |-> k]
    BY <2>1
  <2> QED BY <1>14, <2>2 DEF Accounts
<1>20. /\ accounts' \in Accounts
       /\ accounts'.balance = [found.balance EXCEPT !["taxable"] = @ + Positive(surplus)]
  <2>1. "taxable" \in AccountType /\ surplus \in Int
    BY DEF AccountType
  <2>2. PICK after : after = deposit_to_bucket(paid, "taxable", surplus)
    OBVIOUS
  <2>3. after \in Accounts /\ after.balance = [paid.balance EXCEPT !["taxable"] = @ + Positive(surplus)]
    BY <2>1, <2>2, DepositTyped
  <2>4. accounts' = after
    BY <1>18, <1>19, <2>2
  <2> QED BY <1>19, <2>3, <2>4
<1>21. Positive(surplus) = surplus
  BY DEF Positive, Greater
<1>22. accounts'.balance.roth = found.balance.roth
       /\ (surplus = 0 => accounts'.balance = found.balance)
  <2>1. /\ found.balance = [taxable |-> found.balance.taxable,
                            traditional |-> found.balance.traditional,
                            roth |-> found.balance.roth, hsa |-> found.balance.hsa]
        /\ found.balance.taxable \in Nat
    BY <1>14 DEF Balances
  <2>2. accounts'.balance = [found.balance EXCEPT !["taxable"] = @ + surplus]
    BY <1>20, <1>21
  <2>3. [found.balance EXCEPT !["taxable"] = @ + 0] = found.balance
    BY <2>1
  <2> QED BY <2>1, <2>2, <2>3
<1>23. /\ now' \in NowType /\ now'.rmd = n.rmd /\ now'.benefit = n.benefit /\ now'.w = found.w
       /\ now'.short = (over < -Tolerance)
  <2>1. (over < -Tolerance) \in BOOLEAN
    OBVIOUS
  <2> QED BY <1>14, <1>18, <2>1 DEF NowType
<1>24. allowance' \in Nat
  BY <1>14, <1>18
<1>25. basis' \in Basis /\ Ledger(basis', y) /\ Unripe(basis', y)
  <2>1. Ledger(ledger, y) /\ Unripe(ledger, y)
    BY <1>1, <1>2, <1>6, <1>7 DEF LedgerKept
  <2>2. found.w.roth \in Nat
    BY <1>14 DEF Balances
  <2> QED BY <1>18, <2>1, <2>2, ConsumeKeeps
<1>26. TypeOK'
  BY <1>1, <1>2, <1>20, <1>24, <1>25 DEF TypeOK
<1>27. Placed'
  BY <1>1, <1>2, <1>3, <1>23 DEF Placed
<1>28. LedgerKept'
  BY <1>2, <1>3, <1>6, <1>25 DEF LedgerKept
<1>29. CareKept'
  BY <1>1, <1>2, <1>3 DEF CareKept
<1>30. CliffKept'
  <2>1. SUFFICES ASSUME p.magiAware, found.w.traditional > n.rmd, found.balance.roth > 0,
                        NEW t \in Tested(p, age),
                        n.benefit + n.rmd + Share(found.w.taxable, GainRatio) <= t
                 PROVE  n.benefit + found.w.traditional + Share(found.w.taxable, GainRatio) <= t
    BY <1>2, <1>3, <1>6, <1>22, <1>23 DEF CliffKept, Under
  <2>2. t \in Thresholds(p, age, n.benefit + n.rmd + Share(found.w.taxable, GainRatio))
    BY <2>1, ThresholdsAre
  <2> QED BY <1>9, <1>13, <2>1, <2>2 DEF Evaluates
<1>31. RuinKept'
  <2>1. SUFFICES ASSUME over < -Tolerance PROVE TotalOf(accounts'.balance) = 0
    BY <1>23 DEF RuinKept
  <2>2. ~Funds(found, n.target)
    BY <1>5, <1>14, <1>15, <1>16, <2>1 DEF Funds
  <2>3. surplus = 0
    BY <1>16, <1>17, <2>1
  <2> QED BY <1>12, <1>22, <2>2, <2>3
<1>32. Reported'
  BY <1>2 DEF Reported, CliffNotCrossed, RuinMeansEmpty, Closed
<1> QED BY <1>26, <1>27, <1>28, <1>29, <1>30, <1>31, <1>32 DEF PathInv

LEMMA BucketDrawn ==
  ASSUME NEW a \in Accounts, NEW type \in AccountType, NEW amount \in Nat
  PROVE  /\ draw_from_bucket(a, type, amount) \in Accounts
         /\ draw_from_bucket(a, type, amount).balance =
              [a.balance EXCEPT ![type] = @ - Lesser(amount, @)]
<1>1. PICK b \in Balances, h \in SUBSET AccountType, c \in SUBSET AccountType :
        a = [balance |-> b, held |-> h, cash |-> c]
  BY AccountsIs
<1>2. /\ b = [taxable |-> b.taxable, traditional |-> b.traditional, roth |-> b.roth, hsa |-> b.hsa]
      /\ b.taxable \in Nat /\ b.traditional \in Nat /\ b.roth \in Nat /\ b.hsa \in Nat
      /\ b[type] \in Nat
  BY DEF Balances, AccountType
<1>3. PICK rest \in Nat : rest = b[type] - Lesser(amount, b[type])
  BY <1>2 DEF Lesser
<1>4. PICK left : left = [b EXCEPT ![type] = rest]
  OBVIOUS
<1>5. left \in Balances
  BY <1>2, <1>4 DEF AccountType, Balances
<1>6. Positive(amount) = amount
  BY DEF Positive, Greater
<1>7. draw_from_bucket(a, type, amount) = [a EXCEPT !.balance = left]
  <2>1. draw_from_bucket(a, type, amount)
          = [a EXCEPT !.balance = [b EXCEPT ![type] = @ - Lesser(Positive(amount), @)]]
    BY <1>1 DEF draw_from_bucket
  <2>2. [b EXCEPT ![type] = @ - Lesser(Positive(amount), @)] = left
    BY <1>3, <1>4, <1>6
  <2> QED BY <2>1, <2>2
<1>8. draw_from_bucket(a, type, amount) = [balance |-> left, held |-> h, cash |-> c]
  BY <1>1, <1>7
<1>9. PICK after : after = draw_from_bucket(a, type, amount)
  OBVIOUS
<1>10. after \in Accounts /\ after.balance = left
  BY <1>5, <1>8, <1>9 DEF Accounts
<1>11. left = [a.balance EXCEPT ![type] = @ - Lesser(amount, @)]
  BY <1>1, <1>3, <1>4
<1> QED BY <1>9, <1>10, <1>11

(* The accounts after a conversion; without one they stay what they are.     *)
LEMMA ConvertedTyped ==
  ASSUME NEW a \in Accounts, NEW c, Conversion(c, a)
  PROVE  LET sold == draw_from_bucket(draw_from_bucket(a, "traditional", c.converted),
                                      "taxable", c.fromTaxable)
             after == deposit_to_bucket(sold, "roth", c.converted - c.withheld)
         IN  after \in Accounts /\ (c.converted = 0 => after.balance = a.balance)
<1>1. /\ "traditional" \in AccountType /\ "taxable" \in AccountType /\ "roth" \in AccountType
      /\ c.converted \in Nat /\ c.fromTaxable \in Nat /\ c.withheld \in Nat
      /\ c.converted - c.withheld \in Int
  BY DEF AccountType, Conversion
<1>2. PICK drawn \in Accounts :
        /\ drawn = draw_from_bucket(a, "traditional", c.converted)
        /\ drawn.balance = [a.balance EXCEPT !["traditional"] = @ - Lesser(c.converted, @)]
  BY <1>1, BucketDrawn
<1>3. PICK sold \in Accounts :
        /\ sold = draw_from_bucket(drawn, "taxable", c.fromTaxable)
        /\ sold.balance = [drawn.balance EXCEPT !["taxable"] = @ - Lesser(c.fromTaxable, @)]
  BY <1>1, BucketDrawn
<1>4. PICK after \in Accounts :
        /\ after = deposit_to_bucket(sold, "roth", c.converted - c.withheld)
        /\ after.balance = [sold.balance EXCEPT !["roth"] = @ + Positive(c.converted - c.withheld)]
  BY <1>1, DepositTyped
<1>5. ASSUME c.converted = 0 PROVE after.balance = a.balance
  <2>1. PICK b \in Balances : b = a.balance
    BY DEF Accounts
  <2>2. /\ b = [taxable |-> b.taxable, traditional |-> b.traditional, roth |-> b.roth, hsa |-> b.hsa]
        /\ b.taxable \in Nat /\ b.traditional \in Nat /\ b.roth \in Nat /\ b.hsa \in Nat
    BY DEF Balances
  <2>3. c.fromTaxable = 0 /\ c.withheld = 0
    BY <1>5 DEF Conversion
  <2>4. Lesser(0, b.traditional) = 0 /\ Lesser(0, b.taxable) = 0 /\ Positive(0) = 0
    BY <2>2 DEF Lesser, Positive, Greater
  <2>5. drawn.balance = [b EXCEPT !["traditional"] = b.traditional - 0]
    BY <1>2, <1>5, <2>1, <2>4
  <2>6. drawn.balance = b
    BY <2>2, <2>5
  <2>7. sold.balance = [b EXCEPT !["taxable"] = b.taxable - 0]
    BY <1>3, <2>3, <2>4, <2>6
  <2>8. sold.balance = b
    BY <2>2, <2>7
  <2>9. Positive(c.converted - c.withheld) = 0
    BY <1>5, <2>3, <2>4
  <2>10. after.balance = [b EXCEPT !["roth"] = b.roth + 0]
    BY <1>4, <2>8, <2>9
  <2> QED BY <2>1, <2>2, <2>10
<1> QED BY <1>2, <1>3, <1>4, <1>5

LEMMA RetiredYearCloses == ASSUME TaxIsWhole, PathInv, CloseRetiredYear PROVE PathInv'
<1>1. TypeOK /\ Placed /\ LedgerKept /\ CareKept /\ CliffKept /\ RuinKept
  BY DEF PathInv
<1>2. PICK n \in NowType : n = now
  BY <1>1 DEF Placed
<1>3. n.rmd \in Nat /\ n.benefit \in Nat /\ n.w \in Balances /\ n.short \in BOOLEAN /\ n.surplus \in Nat
  BY DEF NowType
<1>4. PICK p \in Plans, y \in Nat : p = plan /\ y = Year
  BY <1>1, YearIs
<1>5. PICK a \in Accounts, ledger \in Basis : a = accounts /\ ledger = basis
  BY <1>1 DEF TypeOK
<1>6. PICK c : c = IF Age < RmdAge /\ ~now.short THEN roth_conversion_for(plan, accounts, now)
                   ELSE NoConversion
  OBVIOUS
<1>7. Conversion(c, a) /\ (n.short => c.converted = 0)
  <2>1. Conversion(roth_conversion_for(p, a, n), a)
    BY <1>3, ConversionIs
  <2>2. Conversion(NoConversion, a) /\ NoConversion.converted = 0
    BY NoConversionIs DEF NoConversion
  <2> QED BY <1>2, <1>4, <1>5, <1>6, <2>1, <2>2
<1>8. phase = "convert" /\ Convert(c)
  BY <1>6 DEF CloseRetiredYear
<1>9. /\ c.converted \in Nat /\ c.fromTaxable \in Nat /\ c.withheld \in Nat
      /\ (c.converted = 0 => c.fromTaxable = 0 /\ c.withheld = 0)
  BY <1>7 DEF Conversion
<1>10. PICK reached \in Nat : reached = c.converted - c.withheld
  BY <1>7 DEF Conversion
<1>11. accounts' = deposit_to_bucket(draw_from_bucket(draw_from_bucket(a, "traditional", c.converted),
                                                      "taxable", c.fromTaxable),
                                     "roth", c.converted - c.withheld)
       /\ basis' = IF ledger.enabled /\ c.converted > 0
                   THEN [ledger EXCEPT !.lots = Append(@, [year |-> y, principal |-> reached]),
                                       !.unseasoned = @ + reached]
                   ELSE ledger
  BY <1>4, <1>5, <1>8, <1>10 DEF Convert
<1>12. accounts' \in Accounts /\ (c.converted = 0 => accounts'.balance = a.balance)
  BY <1>7, <1>11, ConvertedTyped
<1>13. PICK taxes : taxes = now.taxes + c.tax
  OBVIOUS
<1>14. PICK cash : cash = TotalOf(now.w) - taxes - now.surplus + now.benefit
  OBVIOUS
<1>15. PICK w : w = [n.w EXCEPT !.taxable = @ + c.fromTaxable, !.traditional = @ + c.withheld]
  OBVIOUS
<1>16. PICK report : report =
         [age |-> Age, retired |-> TRUE, income |-> now.benefit,
          spending |-> IF now.short THEN Positive(cash) ELSE now.target,
          taxes |-> taxes, w |-> w,
          deposits |-> [Nothing EXCEPT !.taxable = now.surplus],
          savings |-> now.surplus - TotalOf(now.w) - c.fromTaxable - c.withheld,
          forced |-> now.rmd, gross |-> c.converted, converted |-> reached,
          short |-> now.short, invested |-> now.invested]
  OBVIOUS
<1>17. EndYear(report, reached)
  BY <1>2, <1>8, <1>10, <1>13, <1>14, <1>15, <1>16 DEF Convert
<1>18. /\ report.income = n.benefit /\ report.w = w /\ report.short = n.short /\ report.age = Age
       /\ report.forced = n.rmd /\ report.gross = c.converted
       /\ report.deposits = [Nothing EXCEPT !.taxable = now.surplus]
  BY <1>2, <1>16
<1>19. w \in Balances /\ (c.converted = 0 => w = n.w)
  <2>1. /\ n.w = [taxable |-> n.w.taxable, traditional |-> n.w.traditional,
                  roth |-> n.w.roth, hsa |-> n.w.hsa]
        /\ n.w.taxable \in Nat /\ n.w.traditional \in Nat /\ n.w.roth \in Nat /\ n.w.hsa \in Nat
    BY <1>3 DEF Balances
  <2>2. PICK taxable \in Nat, traditional \in Nat :
          taxable = n.w.taxable + c.fromTaxable /\ traditional = n.w.traditional + c.withheld
    BY <1>9, <2>1
  <2>3. w.taxable = taxable /\ w.traditional = traditional /\ w.roth = n.w.roth /\ w.hsa = n.w.hsa
    BY <1>15, <2>1, <2>2
  <2>4. w = [taxable |-> w.taxable, traditional |-> w.traditional, roth |-> w.roth, hsa |-> w.hsa]
    BY <1>15, <2>1
  <2>5. w \in Balances
    BY <2>1, <2>2, <2>3, <2>4 DEF Balances
  <2>6. c.converted = 0 => taxable = n.w.taxable /\ traditional = n.w.traditional
    BY <1>9, <2>1, <2>2
  <2> QED BY <2>1, <2>3, <2>4, <2>5, <2>6
<1>20. Sound(report)
  BY <1>3, <1>18, <1>19 DEF Sound
<1>21. Settled(report, reached)
  BY <1>1, <1>8, <1>17, <1>20, YearEnds
<1>22. Placed'
  BY <1>1, <1>8, <1>17, <1>21, NextYearPlaced
<1>23. CareKept'
  BY <1>1, <1>8, <1>17, <1>21, NextYearCare
<1>24. basis' \in Basis /\ Ledger(basis', y + 1)
  <2>1. Ledger(ledger, y)
    BY <1>1, <1>4, <1>5 DEF LedgerKept
  <2>2. CASE ledger.enabled /\ c.converted > 0
    BY <1>11, <2>1, <2>2, ConvertKeeps
  <2>3. CASE ~(ledger.enabled /\ c.converted > 0)
    <3>1. PICK l \in Seq(Lot) : l = ledger.lots
      BY DEF Basis, Lot
    <3>2. \A i \in DOMAIN l : l[i].year \in Nat
      <4>1. \A i \in DOMAIN l : l[i] \in Lot
        OBVIOUS
      <4> QED BY <4>1 DEF Lot
    <3>3. basis' = ledger
      BY <1>11, <2>3
    <3> QED BY <2>1, <3>1, <3>2, <3>3 DEF Ledger
  <2> QED BY <2>2, <2>3
<1>25. TypeOK'
  <2>1. plan \in Plans /\ allowance \in Nat
    BY <1>1 DEF TypeOK
  <2> QED BY <1>12, <1>21, <1>24, <2>1 DEF TypeOK, Settled, CareType
<1>26. LedgerKept'
  BY <1>4, <1>21, <1>24 DEF LedgerKept, Settled
<1>27. CliffKept' /\ RuinKept'
  BY <1>21 DEF CliffKept, RuinKept, Settled, Fresh, Nothing
<1>28. row' = report /\ plan' = plan
  BY <1>21 DEF Settled
<1>29. CliffNotCrossed'
  <2>1. report.deposits.roth = 0
    BY <1>18 DEF Nothing
  <2>2. SUFFICES ASSUME p.magiAware, c.converted = 0, w.traditional > n.rmd,
                        accounts'.balance.roth > 0
                 PROVE  \A t \in TestedLater' :
                          n.benefit + n.rmd + Share(w.taxable, GainRatio) <= t =>
                            magi'[Len(magi')].total <= t
    BY <1>4, <1>18, <1>28, <2>1 DEF CliffNotCrossed
  <2>3. w = n.w /\ accounts'.balance = a.balance
    BY <1>12, <1>19, <2>2
  <2>4. Under(p, Age, n.benefit, n.w, n.rmd)
    BY <1>1, <1>2, <1>4, <1>5, <1>8, <2>2, <2>3 DEF CliffKept
  <2>5. TestedLater' = Tested(p, Age)
    BY <1>4, <1>18, <1>28 DEF TestedLater, Tested
  <2>6. magi'[Len(magi')].total = n.benefit + n.w.traditional + Share(n.w.taxable, GainRatio)
    <3>1. magi'[Len(magi')].total
            = n.benefit + n.w.traditional + reached + Share(n.w.taxable, GainRatio)
      BY <1>18, <1>21, <2>3 DEF Settled
    <3>2. reached = 0
      BY <1>9, <1>10, <2>2
    <3>3. n.w.traditional \in Nat
      BY <1>3 DEF Balances
    <3> QED BY <1>3, <3>1, <3>2, <3>3
  <2> QED BY <2>3, <2>4, <2>5, <2>6 DEF Under
<1>30. RuinMeansEmpty'
  <2>1. SUFFICES ASSUME n.short PROVE TotalOf(accounts'.balance) = 0
    BY <1>18, <1>28 DEF RuinMeansEmpty
  <2>2. TotalOf(a.balance) = 0
    BY <1>1, <1>2, <1>5, <1>8, <2>1 DEF RuinKept
  <2> QED BY <1>7, <1>12, <2>1, <2>2
<1> QED BY <1>22, <1>23, <1>25, <1>26, <1>27, <1>29, <1>30 DEF PathInv, Reported

-----------------------------------------------------------------------------
(* The theorems *)

LEMMA PathStutters == ASSUME PathInv, UNCHANGED vars PROVE PathInv'
<1>1. /\ plan' = plan /\ phase' = phase /\ accounts' = accounts /\ basis' = basis
      /\ allowance' = allowance /\ magi' = magi /\ care' = care /\ now' = now /\ row' = row
      /\ success' = success
  BY DEF vars
<1>2. Year' = Year /\ Age' = Age /\ Years' = Years /\ Retired' = Retired
  BY <1>1 DEF Year, Age, Years, Retired
<1>3. TypeOK' /\ Placed'
  BY <1>1, <1>2 DEF PathInv, TypeOK, Placed
<1>4. LedgerKept' /\ CareKept'
  BY <1>1, <1>2 DEF PathInv, LedgerKept, CareKept
<1>5. CliffKept' /\ RuinKept'
  BY <1>1, <1>2 DEF PathInv, CliffKept, RuinKept
<1>6. Closed' = Closed /\ TestedLater' = TestedLater
  BY <1>1 DEF Closed, TestedLater
<1>7. Reported'
  BY <1>1, <1>6 DEF PathInv, Reported, CliffNotCrossed, RuinMeansEmpty
<1> QED BY <1>3, <1>4, <1>5, <1>7 DEF PathInv

LEMMA PathSteps == ASSUME TaxIsWhole, PathInv, [Next]_vars PROVE PathInv'
<1>1. CASE Next
  BY <1>1, WorkingYearBegins, PassKeeps, WorkingYearCloses, RetiredYearBegins, RetiredYearFunds,
     RetiredYearCloses DEF Next
<1>2. CASE UNCHANGED vars
  BY <1>2, PathStutters
<1> QED BY <1>1, <1>2

THEOREM PathIsSound == ASSUME TaxIsWhole PROVE Spec => []PathInv
<1>1. Init => PathInv
  BY PathStarts
<1>2. PathInv /\ [Next]_vars => PathInv'
  BY PathSteps
<1> QED BY <1>1, <1>2, PTL DEF Spec

LEMMA LedgersFollow == ASSUME PathInv PROVE LedgersExact
<1>1. TypeOK /\ Placed /\ LedgerKept /\ CareKept
  BY DEF PathInv
<1>2. BasisExact
  BY <1>1 DEF BasisExact, LedgerKept, Ledger, Unripe
<1>3. CareChargedInFull
  <2>1. SUFFICES ASSUME phase = "done", care.observed, plan.start < LifeExpectancy,
                        plan.retire <= CareAge + 1
                 PROVE  care.billed = care.episode.cost
    BY DEF CareChargedInFull
  <2>2. Year = HorizonOf(plan) /\ plan \in Plans
    BY <1>1, <2>1, YearIs DEF Placed
  <2>3. care.billed = Charged(plan, care.episode, HorizonOf(plan)) /\ LifeExpectancy > CareAge
    BY <1>1, <2>1, <2>2 DEF CareKept
  <2>4. care.episode \in Episodes \cup {NoEpisode}
    BY <1>1 DEF TypeOK
  <2>5. CareAge < LifeExpectancy
    BY <2>2, <2>3, PlanIs
  <2> QED BY <2>1, <2>2, <2>3, <2>4, <2>5, ChargedEnds
<1> QED BY <1>1, <1>2, <1>3 DEF LedgersExact

(* The engine's ledgers are exact (projection.rs): the cached unseasoned      *)
(* principal is what the lots hold, no bucket, basis or allowance is ever     *)
(* negative, and an episode of care is charged at its price.                 *)
THEOREM LedgersAreExact == ASSUME TaxIsWhole PROVE Spec => []LedgersExact
<1>1. PathInv => LedgersExact
  BY LedgersFollow
<1> QED BY <1>1, PathIsSound, PTL

(* A plan that watches its MAGI crosses no premium threshold by choice        *)
(* (apply_withdrawal_order, projection.rs).                                  *)
THEOREM CliffIsKept == ASSUME TaxIsWhole PROVE Spec => []CliffNotCrossed
<1>1. PathInv => CliffNotCrossed
  BY DEF PathInv, Reported
<1> QED BY <1>1, PathIsSound, PTL

(* A retired year is reported short only when every bucket is empty: the      *)
(* search for the year's withdrawals gives up at the whole portfolio only     *)
(* (solve_withdrawals, projection.rs).                                       *)
THEOREM RuinIsReal == ASSUME TaxIsWhole PROVE Spec => [](row.retired => RuinMeansEmpty)
<1>1. PathInv => (row.retired => RuinMeansEmpty)
  BY DEF PathInv, Reported
<1> QED BY <1>1, PathIsSound, PTL

-----------------------------------------------------------------------------
(* The books of a year *)

(* What a working year would leave if nothing were contributed.               *)
Plain(p, n) ==
  p.salary + n.w.traditional + n.w.hsa
    - WorkingTax(p.salary, n.w.traditional + n.w.hsa, n.gains, NoContribution)
    - p.spending - n.penalties

(* Principal that was sold to cover a shortfall: more than it was is not.     *)
Sold(n) == n.w.taxable + n.w.roth

(* A draw within the tolerance, which ends the passes, is in no report. Gains *)
(* and penalties are of what was withdrawn.                                  *)
WorkBalanced(p, a, n) ==
  /\ n.gains <= n.w.taxable /\ n.penalties <= Share(n.w.traditional + n.w.hsa, Steep)
  /\ n.invested - TotalOf(a.balance) - TotalOf(n.w) \in 0..Tolerance
  /\ n.pass < ShortfallPasses => n.invested = TotalOf(a.balance) + TotalOf(n.w)
  /\ Sold(n) > 0 => Plain(p, n) + Sold(n) <= 0

(* A funded year has its target, to the tolerance, beside the surplus that    *)
(* was reinvested; a year that is short spends all the cash there is.         *)
FundBalanced(a, n) ==
  LET over == n.benefit + TotalOf(n.w) - n.taxes - n.target
  IN  /\ TotalOf(a.balance) + TotalOf(n.w) = n.invested + n.surplus
      /\ n.short => n.surplus = 0 /\ over + n.target >= 0
      /\ ~n.short => over - n.surplus \in -Tolerance..Tolerance

(* The figures of a report; a year never spends less than nothing.            *)
RowType ==
  [age : Nat, retired : BOOLEAN, income : Nat, spending : Nat, taxes : Int, w : Balances,
   deposits : Balances, savings : Int, forced : Nat, gross : Nat, converted : Nat,
   short : BOOLEAN, invested : Nat]

Booked ==
  Closed => row \in RowType /\ row.savings = TotalOf(row.deposits) - TotalOf(row.w)

Balanced ==
  /\ phase = "shortfall" => WorkBalanced(plan, accounts, now)
  /\ phase = "fund" => now.invested = TotalOf(accounts.balance)
  /\ phase = "convert" => FundBalanced(accounts, now)
  /\ CashReconciles /\ Booked

LEMMA TotalGrows ==
  ASSUME NEW b \in Balances, NEW type \in AccountType, NEW amount \in Nat
  PROVE  /\ [b EXCEPT ![type] = @ + amount] \in Balances
         /\ TotalOf([b EXCEPT ![type] = @ + amount]) = TotalOf(b) + amount
<1>1. /\ b = [taxable |-> b.taxable, traditional |-> b.traditional, roth |-> b.roth, hsa |-> b.hsa]
      /\ b.taxable \in Nat /\ b.traditional \in Nat /\ b.roth \in Nat /\ b.hsa \in Nat
  BY DEF Balances
<1>2. CASE type = "taxable"
  BY <1>1, <1>2 DEF TotalOf, Balances
<1>3. CASE type = "traditional"
  BY <1>1, <1>3 DEF TotalOf, Balances
<1>4. CASE type = "roth"
  BY <1>1, <1>4 DEF TotalOf, Balances
<1>5. CASE type = "hsa"
  BY <1>1, <1>5 DEF TotalOf, Balances
<1> QED BY <1>2, <1>3, <1>4, <1>5 DEF AccountType

LEMMA TotalAfterDeposit ==
  ASSUME NEW a \in Accounts, NEW type \in AccountType, NEW amount \in Nat
  PROVE  LET after == deposit_to_bucket(a, type, amount)
         IN  after \in Accounts /\ TotalOf(after.balance) = TotalOf(a.balance) + amount
<1>1. a.balance \in Balances /\ amount \in Int
  BY DEF Accounts
<1>2. Positive(amount) = amount
  BY DEF Positive, Greater
<1>3. PICK after \in Accounts :
        /\ after = deposit_to_bucket(a, type, amount)
        /\ after.balance = [a.balance EXCEPT ![type] = @ + amount]
  BY <1>1, <1>2, DepositTyped
<1> QED BY <1>1, <1>3, TotalGrows

(* A conversion moves what it converts; what pays its tax leaves.             *)
LEMMA TotalAfterConversion ==
  ASSUME NEW a \in Accounts, NEW c, Conversion(c, a)
  PROVE  LET sold == draw_from_bucket(draw_from_bucket(a, "traditional", c.converted),
                                      "taxable", c.fromTaxable)
             after == deposit_to_bucket(sold, "roth", c.converted - c.withheld)
         IN  TotalOf(after.balance) + c.fromTaxable + c.withheld = TotalOf(a.balance)
<1>1. PICK converted \in Nat, fromTaxable \in Nat, withheld \in Nat :
        /\ converted = c.converted /\ fromTaxable = c.fromTaxable /\ withheld = c.withheld
        /\ converted <= a.balance.traditional /\ fromTaxable <= a.balance.taxable
        /\ withheld <= converted
  BY DEF Conversion
<1>2. PICK reached \in Nat : reached = converted - withheld
  BY <1>1
<1>3. PICK b \in Balances : b = a.balance
  BY DEF Accounts
<1>4. /\ b = [taxable |-> b.taxable, traditional |-> b.traditional, roth |-> b.roth, hsa |-> b.hsa]
      /\ b.taxable \in Nat /\ b.traditional \in Nat /\ b.roth \in Nat /\ b.hsa \in Nat
  BY DEF Balances
<1>5. "traditional" \in AccountType /\ "taxable" \in AccountType /\ "roth" \in AccountType
  BY DEF AccountType
<1>6. Lesser(converted, b.traditional) = converted /\ Lesser(fromTaxable, b.taxable) = fromTaxable
  BY <1>1, <1>3, <1>4 DEF Lesser
<1>7. PICK drawn \in Accounts :
        /\ drawn = draw_from_bucket(a, "traditional", converted)
        /\ drawn.balance = [b EXCEPT !["traditional"] = b.traditional - converted]
  BY <1>3, <1>5, <1>6, BucketDrawn
<1>8. /\ drawn.balance.taxable = b.taxable /\ drawn.balance.traditional = b.traditional - converted
      /\ drawn.balance.roth = b.roth /\ drawn.balance.hsa = b.hsa
  BY <1>4, <1>7
<1>9. PICK sold \in Accounts :
        /\ sold = draw_from_bucket(drawn, "taxable", fromTaxable)
        /\ sold.balance = [drawn.balance EXCEPT !["taxable"] = b.taxable - fromTaxable]
  BY <1>5, <1>6, <1>8, BucketDrawn
<1>10. /\ sold.balance.taxable = b.taxable - fromTaxable
       /\ sold.balance.traditional = b.traditional - converted
       /\ sold.balance.roth = b.roth /\ sold.balance.hsa = b.hsa
  <2>1. drawn.balance \in Balances
    BY DEF Accounts
  <2> QED BY <1>8, <1>9, <2>1 DEF Balances
<1>11. PICK after \in Accounts :
         /\ after = deposit_to_bucket(sold, "roth", reached)
         /\ TotalOf(after.balance) = TotalOf(sold.balance) + reached
  BY <1>5, TotalAfterDeposit
<1>12. TotalOf(sold.balance) + converted + fromTaxable = TotalOf(b)
  BY <1>1, <1>4, <1>10 DEF TotalOf
<1>13. TotalOf(sold.balance) \in Nat /\ TotalOf(b) \in Nat
  BY TotalNat DEF Accounts
<1> QED BY <1>1, <1>2, <1>3, <1>7, <1>9, <1>11, <1>12, <1>13

(* A draw that grows the tax and the penalties leaves at most what it draws.  *)
LEMMA DrawLeavesPlain ==
  ASSUME TaxIsWhole, TaxIsOrderly, NEW p \in Plans, NEW n \in NowType, NEW m \in NowType,
         NEW drawn \in Balances,
         m.w = Plus(n.w, drawn), m.penalties >= n.penalties,
         m.gains = n.gains + Share(drawn.taxable, GainRatio)
  PROVE  /\ Plain(p, n) \in Int /\ Plain(p, m) \in Int
         /\ Plain(p, m) + Sold(m) <= Plain(p, n) + Sold(n) + TotalOf(drawn)
<1>1. PICK salary \in Nat, spending \in Nat : salary = p.salary /\ spending = p.spending
  BY PlanIs
<1>2. PICK taxable \in Nat, traditional \in Nat, roth \in Nat, hsa \in Nat :
        /\ taxable = n.w.taxable /\ traditional = n.w.traditional
        /\ roth = n.w.roth /\ hsa = n.w.hsa
  BY DEF NowType, Balances
<1>3. PICK t \in Nat, o \in Nat, r \in Nat, h \in Nat :
        t = drawn.taxable /\ o = drawn.traditional /\ r = drawn.roth /\ h = drawn.hsa
  BY DEF Balances
<1>4. /\ m.w.taxable = taxable + t /\ m.w.traditional = traditional + o
      /\ m.w.roth = roth + r /\ m.w.hsa = hsa + h
  BY <1>2, <1>3 DEF Plus
<1>5. PICK gains \in Nat, gain \in Nat, penalties \in Nat, more \in Nat :
        /\ gains = n.gains /\ gain = Share(t, GainRatio) /\ m.gains = gains + gain
        /\ penalties = n.penalties /\ more = m.penalties /\ penalties <= more
  BY <1>3, GainNat DEF NowType
<1>6. PICK x \in Nat, extra \in Nat : x = salary + traditional + hsa /\ extra = o + h
  OBVIOUS
<1>7. PICK low \in Int, high \in Int, payroll \in Int :
        /\ low = Tax(x, 0, gains) /\ high = Tax(x + extra, 0, gains + gain)
        /\ payroll = PayrollTax(salary) /\ low <= high
  <2>1. x \in Int /\ x + extra \in Int /\ gains \in Int /\ gains + gain \in Int /\ salary \in Int
        /\ 0 \in Int /\ 0 \in Nat
    OBVIOUS
  <2>2. PayrollTax(salary) \in Int
    BY <2>1 DEF TaxIsWhole, WholeTaxes
  <2>3. Tax(x, 0, gains) \in Int /\ Tax(x + extra, 0, gains + gain) \in Int
    BY <2>1, TaxInt
  <2>4. Tax(x, 0, gains) <= Tax(x + extra, 0, gains + gain)
    BY <2>1, TaxGrows
  <2> QED BY <2>2, <2>3, <2>4
<1>8. /\ salary - 0 - 0 + (traditional + hsa) = x
      /\ salary - 0 - 0 + (traditional + o + (hsa + h)) = x + extra
  BY <1>6
<1>9. /\ WorkingTax(salary, traditional + hsa, gains, NoContribution) = low + payroll
      /\ WorkingTax(salary, traditional + o + (hsa + h), gains + gain, NoContribution)
           = high + payroll
  BY <1>7, <1>8 DEF WorkingTax, NoContribution
<1>10. /\ Plain(p, n) = salary + traditional + hsa - (low + payroll) - spending - penalties
       /\ Plain(p, m) = salary + (traditional + o) + (hsa + h) - (high + payroll) - spending - more
  BY <1>1, <1>2, <1>4, <1>5, <1>9 DEF Plain
<1>11. Sold(n) = taxable + roth /\ Sold(m) = taxable + t + (roth + r)
  BY <1>2, <1>4 DEF Sold
<1>12. TotalOf(drawn) = t + o + r + h
  BY <1>3 DEF TotalOf
<1> QED BY <1>5, <1>7, <1>10, <1>11, <1>12

LEMMA WorkingYearBegunBalanced == ASSUME PathInv, BeginWorkingYear PROVE Balanced'
<1>1. PICK percent \in Growth :
        LET forced == Lesser(RmdOfYear, Grown(percent).balance.traditional)
        IN  /\ accounts' = [Grown(percent) EXCEPT !.balance.traditional = @ - forced]
            /\ now' = [Fresh EXCEPT !.rmd = forced, !.w.traditional = forced,
                                    !.invested = TotalOf(Grown(percent).balance)]
  BY DEF BeginWorkingYear
<1>2. PICK forced :
        /\ forced = Lesser(RmdOfYear, Grown(percent).balance.traditional)
        /\ accounts' = [Grown(percent) EXCEPT !.balance.traditional = @ - forced]
        /\ now' = [Fresh EXCEPT !.rmd = forced, !.w.traditional = forced,
                                !.invested = TotalOf(Grown(percent).balance)]
  BY <1>1
<1>3. PICK b \in Balances, h \in SUBSET AccountType, c \in SUBSET AccountType :
        Grown(percent) = [balance |-> b, held |-> h, cash |-> c]
  BY GrownTyped, AccountsIs DEF PathInv
<1>4. /\ b = [taxable |-> b.taxable, traditional |-> b.traditional, roth |-> b.roth, hsa |-> b.hsa]
      /\ b.taxable \in Nat /\ b.traditional \in Nat /\ b.roth \in Nat /\ b.hsa \in Nat
  BY DEF Balances
<1>5. forced \in Nat
  BY <1>2, <1>3, <1>4, RmdNat DEF PathInv, Lesser
<1>6. accounts'.balance = [taxable |-> b.taxable, traditional |-> b.traditional - forced,
                           roth |-> b.roth, hsa |-> b.hsa]
  BY <1>2, <1>3, <1>4
<1>7. /\ now'.w = [taxable |-> 0, traditional |-> forced, roth |-> 0, hsa |-> 0]
      /\ now'.invested = TotalOf(b)
  <2>1. now'.w = [Nothing EXCEPT !.traditional = forced]
    BY <1>2 DEF Fresh
  <2> QED BY <1>2, <1>3, <2>1 DEF Nothing, Fresh
<1>8. /\ TotalOf(accounts'.balance) + TotalOf(now'.w) = now'.invested
      /\ TotalOf(accounts'.balance) \in Int /\ TotalOf(now'.w) \in Int
  BY <1>4, <1>5, <1>6, <1>7 DEF TotalOf
<1>9. Sold(now') = 0
  BY <1>7 DEF Sold
<1>10. Tolerance \in Nat
  BY RuleAssumption
<1>a. now'.gains <= now'.w.taxable /\ now'.penalties <= Share(now'.w.traditional + now'.w.hsa, Steep)
  <2>1. now'.gains = 0 /\ now'.penalties = 0
    BY <1>2 DEF Fresh
  <2>2. now'.w.taxable = 0 /\ now'.w.traditional + now'.w.hsa = forced
    BY <1>5, <1>7
  <2>3. Share(forced, Steep) \in Nat
    BY <1>5, SteepNat, ShareNat
  <2> QED BY <2>1, <2>2, <2>3
<1>11. WorkBalanced(plan', accounts', now')
  <2>1. now'.invested - TotalOf(accounts'.balance) - TotalOf(now'.w) = 0
    BY <1>8
  <2> QED BY <1>8, <1>9, <1>10, <1>a, <2>1 DEF WorkBalanced
<1>12. phase' = "shortfall"
  BY DEF BeginWorkingYear
<1> QED BY <1>11, <1>12 DEF Balanced, CashReconciles, Booked, Closed

LEMMA RetiredYearBegunBalanced == ASSUME PathInv, BeginRetiredYear PROVE Balanced'
<1>1. PICK percent \in Growth :
        /\ accounts' = Grown(percent)
        /\ now'.invested = TotalOf(Grown(percent).balance)
  BY DEF BeginRetiredYear, Fresh
<1>2. phase' = "fund"
  BY DEF BeginRetiredYear
<1> QED BY <1>1, <1>2 DEF Balanced, CashReconciles, Booked, Closed

(* What a shortfall is: net is below what was sold, so nothing was            *)
(* contributed and net is plain.                                             *)
LEMMA ShortfallIs ==
  ASSUME TaxIsWhole, TaxIsOrderly, TypeOK, Placed
  PROVE  /\ CashFlow.net \in Int /\ CashFlow.tax \in Int /\ CashFlow.deposits \in Balances
         /\ Plain(plan, now) \in Int /\ Sold(now) \in Nat /\ Unfunded \in Nat
         /\ Unfunded = Positive(-CashFlow.net - Sold(now))
         /\ CashFlow.net < 0 \/ Plain(plan, now) <= 0 => CashFlow.net = Plain(plan, now)
         /\ TotalOf(CashFlow.deposits) + CashFlow.tax + plan.spending + now.penalties + CashFlow.net
              = plan.salary + now.w.traditional + now.w.hsa + Positive(CashFlow.net)
<1>1. PICK p \in Plans, n \in NowType : p = plan /\ n = now
  BY YearIs DEF Placed
<1>2. PICK salary \in Nat, spending \in Nat : salary = p.salary /\ spending = p.spending
  BY PlanIs
<1>3. PICK taxable \in Nat, traditional \in Nat, roth \in Nat, hsa \in Nat :
        /\ taxable = n.w.taxable /\ traditional = n.w.traditional
        /\ roth = n.w.roth /\ hsa = n.w.hsa
  BY DEF NowType, Balances
<1>4. PICK penalties \in Nat, gains \in Nat : penalties = n.penalties /\ gains = n.gains
  BY DEF NowType
<1>5. PICK needs \in Int, ordinary \in Nat : needs = spending + penalties /\ ordinary = traditional + hsa
  OBVIOUS
<1>6. PICK flow : flow = calculate_working_cash_flow(p, salary, needs, ordinary, gains)
  OBVIOUS
<1>7. CashFlow = flow
  BY <1>1, <1>2, <1>3, <1>4, <1>5, <1>6 DEF CashFlow
<1>8. PICK tax \in Int : tax = WorkingTax(salary, ordinary, gains, NoContribution)
  <2>1. salary - 0 - 0 + ordinary \in Int /\ 0 \in Int /\ gains \in Int /\ salary \in Int
    OBVIOUS
  <2>2. Tax(salary - 0 - 0 + ordinary, 0, gains) \in Int
    BY <2>1, TaxInt
  <2>3. PayrollTax(salary) \in Int
    BY <2>1 DEF TaxIsWhole, WholeTaxes
  <2> QED BY <2>2, <2>3 DEF WorkingTax, NoContribution
<1>9. LET plain == salary + ordinary - tax - needs
      IN  /\ flow.net \in Int /\ flow.tax \in Int /\ flow.deposits \in Balances
          /\ TotalOf(flow.deposits) + flow.tax + needs + flow.net
               = salary + ordinary + Positive(flow.net)
          /\ plain <= 0 \/ flow.net < 0 => flow.net = plain
  <2>1. LET found == calculate_working_cash_flow(p, salary, needs, ordinary, gains)
            plain == salary + ordinary - WorkingTax(salary, ordinary, gains, NoContribution) - needs
        IN  /\ found.net \in Int /\ found.tax \in Int /\ found.deposits \in Balances
            /\ TotalOf(found.deposits) + found.tax + needs + found.net
                 = salary + ordinary + Positive(found.net)
            /\ plain <= 0 \/ found.net < 0 => found.net = plain
    BY FlowBooks
  <2> QED BY <1>6, <1>8, <2>1
<1>10. Plain(p, n) = salary + ordinary - tax - needs
  BY <1>2, <1>3, <1>4, <1>5, <1>8 DEF Plain
<1>11. Sold(n) = taxable + roth
  BY <1>3 DEF Sold
<1>12. PICK net \in Int, owed \in Int, total \in Nat :
         net = flow.net /\ owed = flow.tax /\ total = TotalOf(flow.deposits)
  BY <1>9, TotalNat
<1>13. Unfunded = Positive(-net - Sold(n)) /\ Unfunded \in Nat
  <2>1. -net - taxable - roth = -net - (taxable + roth) /\ -net - taxable - roth \in Int
    OBVIOUS
  <2>2. Unfunded = Positive(-net - taxable - roth)
    BY <1>1, <1>3, <1>7, <1>12 DEF Unfunded
  <2> QED BY <1>11, <2>1, <2>2, PositiveNat
<1>14. total + owed + spending + penalties + net = salary + traditional + hsa + Positive(net)
  <2>1. Positive(net) \in Nat
    BY PositiveNat
  <2>2. total + owed + needs + net = salary + ordinary + Positive(net)
    BY <1>9, <1>12
  <2> QED BY <1>5, <2>1, <2>2
<1>15. net < 0 \/ Plain(p, n) <= 0 => net = Plain(p, n)
  BY <1>9, <1>10, <1>12
<1>16. Plain(p, n) \in Int /\ Sold(n) \in Nat
  BY <1>10, <1>11
<1> QED BY <1>1, <1>2, <1>3, <1>4, <1>7, <1>9, <1>12, <1>13, <1>14, <1>15, <1>16

(* A pass raises what is sold by at most what plain falls short of it.        *)
LEMMA PassBalanced ==
  ASSUME TaxIsWhole, TaxIsOrderly, PathInv, Balanced, ShortfallPass PROVE Balanced'
<1>1. TypeOK /\ Placed
  BY DEF PathInv
<1>2. phase = "shortfall" /\ phase' = "shortfall" /\ plan' = plan /\ now.pass < ShortfallPasses
      /\ Unfunded > Tolerance
  BY DEF ShortfallPass
<1>3. PICK p \in Plans, n \in NowType, a \in Accounts : p = plan /\ n = now /\ a = accounts
  BY <1>1, YearIs DEF Placed, TypeOK
<1>4. PICK unfunded \in Nat, net \in Int, plain \in Int, sold \in Nat :
        /\ unfunded = Unfunded /\ net = CashFlow.net /\ plain = Plain(p, n) /\ sold = Sold(n)
        /\ unfunded = Positive(-net - sold) /\ (net < 0 \/ plain <= 0 => net = plain)
  BY <1>1, <1>3, ShortfallIs
<1>5. Tolerance \in Nat
  BY RuleAssumption
<1>6. plain + sold + unfunded = 0 /\ unfunded > Tolerance
  BY <1>2, <1>4, <1>5 DEF Positive, Greater
<1>7. PICK age \in Nat, committed \in Nat :
        age = Age /\ committed = p.salary + n.w.traditional + Share(n.w.taxable, GainRatio)
  <2>1. p.salary \in Nat /\ n.w.traditional \in Nat /\ n.w.taxable \in Nat
    BY PlanIs DEF NowType, Balances
  <2>2. Share(n.w.taxable, GainRatio) \in Nat
    BY <2>1, GainNat
  <2> QED BY <1>1, <2>1, <2>2, YearIs
<1>8. PICK drawn : drawn = apply_withdrawal_order(p, a, unfunded, age, committed)
  OBVIOUS
<1>9. drawn \in Balances /\ Within(drawn, a.balance) /\ TotalOf(drawn) <= unfunded
  <2>1. unfunded \in Int /\ Positive(unfunded) = unfunded
    BY DEF Positive, Greater
  <2>2. Draws(drawn, p, a, unfunded, age, committed)
    BY <1>8, <2>1, DrawIs
  <2> QED BY <2>1, <2>2 DEF Draws, Within
<1>10. /\ accounts' = [accounts EXCEPT !.balance = Less(@, drawn)]
       /\ now' = IF TotalOf(drawn) <= Tolerance
                 THEN [now EXCEPT !.pass = ShortfallPasses]
                 ELSE [now EXCEPT !.pass = @ + 1, !.w = Plus(@, drawn),
                         !.penalties = @ + penalties_on(drawn.traditional, drawn.hsa, 0, Age),
                         !.gains = @ + Share(drawn.taxable, GainRatio)]
  BY <1>3, <1>4, <1>7, <1>8 DEF ShortfallPass
<1>11. PICK b \in Balances : b = a.balance
  BY DEF Accounts
<1>12. /\ b.taxable \in Nat /\ b.traditional \in Nat /\ b.roth \in Nat /\ b.hsa \in Nat
       /\ drawn.taxable \in Nat /\ drawn.traditional \in Nat
       /\ drawn.roth \in Nat /\ drawn.hsa \in Nat
  BY <1>9 DEF Balances
<1>13. PICK left \in Int, total \in Nat, held \in Nat :
         /\ left = TotalOf(accounts'.balance) /\ total = TotalOf(drawn) /\ held = TotalOf(b)
         /\ left = held - total
  <2>1. accounts'.balance = Less(b, drawn)
    BY <1>3, <1>10, <1>11 DEF Accounts
  <2>2. TotalOf(accounts'.balance) = TotalOf(b) - TotalOf(drawn) /\ TotalOf(b) \in Nat
        /\ TotalOf(drawn) \in Nat
    BY <1>12, <2>1 DEF Less, TotalOf
  <2> QED BY <2>2
<1>14. PICK withdrawn \in Nat, invested \in Nat :
         withdrawn = TotalOf(n.w) /\ invested = n.invested /\ invested = held + withdrawn
  <2>1. n.w \in Balances /\ n.invested \in Nat
    BY DEF NowType
  <2>2. TotalOf(n.w) \in Nat
    BY <2>1, TotalNat
  <2> QED BY <1>2, <1>3, <1>11, <1>13, <2>1, <2>2 DEF Balanced, WorkBalanced
<1>15. now' \in NowType
  BY PassKeeps DEF PathInv, Placed
<1>a. PICK kept \in Nat, most \in Nat, taxable \in Nat, steep \in Nat :
        /\ kept = n.w.traditional + n.w.hsa /\ taxable = n.w.taxable /\ steep = Steep
        /\ most = Share(kept, steep) /\ n.gains <= taxable /\ n.penalties <= most
  <2>1. n.w.traditional \in Nat /\ n.w.hsa \in Nat /\ n.w.taxable \in Nat /\ Steep \in Nat
    BY RuleAssumption DEF NowType, Balances, Steep, Greater
  <2>2. PICK kept \in Nat : kept = n.w.traditional + n.w.hsa
    BY <2>1
  <2>3. Share(kept, Steep) \in Nat
    BY <2>1, ShareNat
  <2> QED BY <1>2, <1>3, <2>1, <2>2, <2>3 DEF Balanced, WorkBalanced
<1>16. CASE total <= Tolerance
  <2>1. now' = [n EXCEPT !.pass = ShortfallPasses]
    BY <1>3, <1>10, <1>13, <1>16
  <2>2. /\ now'.pass = ShortfallPasses /\ now'.w = n.w /\ now'.invested = invested
        /\ now'.penalties = n.penalties /\ now'.gains = n.gains
    BY <1>14, <2>1 DEF NowType
  <2>3. Plain(p, now') = plain /\ Sold(now') = sold
    BY <1>4, <2>2 DEF Plain, Sold
  <2>4. invested - left - withdrawn \in 0..Tolerance
    BY <1>5, <1>13, <1>14, <1>16
  <2>5. plain + sold <= 0
    BY <1>6
  <2>6. ~(ShortfallPasses < ShortfallPasses)
    BY ProjectionAssumption
  <2> QED BY <1>2, <1>3, <1>13, <1>14, <1>a, <2>2, <2>3, <2>4, <2>5, <2>6
          DEF Balanced, WorkBalanced, CashReconciles, Booked, Closed
<1>17. CASE ~(total <= Tolerance)
  <2>1. now' = [n EXCEPT !.pass = @ + 1, !.w = Plus(@, drawn),
                  !.penalties = @ + penalties_on(drawn.traditional, drawn.hsa, 0, age),
                  !.gains = @ + Share(drawn.taxable, GainRatio)]
    BY <1>3, <1>7, <1>10, <1>13, <1>17
  <2>2. PICK m \in NowType : m = now'
    BY <1>15
  <2>3. /\ m.w = Plus(n.w, drawn) /\ m.invested = n.invested
        /\ m.penalties = n.penalties + penalties_on(drawn.traditional, drawn.hsa, 0, age)
        /\ m.gains = n.gains + Share(drawn.taxable, GainRatio)
    BY <2>1, <2>2 DEF NowType
  <2>4. m.penalties >= n.penalties
    <3>1. penalties_on(drawn.traditional, drawn.hsa, 0, age) \in Nat /\ n.penalties \in Nat
      BY <1>12, PenaltiesNat DEF NowType
    <3> QED BY <2>3, <3>1
  <2>5. Plain(p, m) \in Int /\ Plain(p, m) + Sold(m) <= plain + sold + total
    BY <1>4, <1>9, <1>13, <2>3, <2>4, DrawLeavesPlain
  <2>6. Sold(m) \in Int
    BY DEF Sold, NowType, Balances
  <2>7. Plain(p, m) + Sold(m) <= 0
    BY <1>6, <1>9, <1>13, <2>5, <2>6
  <2>8. TotalOf(m.w) = withdrawn + total
    <3>1. n.w.taxable \in Nat /\ n.w.traditional \in Nat /\ n.w.roth \in Nat /\ n.w.hsa \in Nat
      BY DEF NowType, Balances
    <3> QED BY <1>12, <1>13, <1>14, <2>3, <3>1 DEF Plus, TotalOf
  <2>9. m.invested = left + TotalOf(m.w) /\ m.invested - left - TotalOf(m.w) \in 0..Tolerance
    <3>1. m.invested = invested
      BY <1>14, <2>3
    <3>2. invested = left + (withdrawn + total) /\ invested - left - (withdrawn + total) = 0
      BY <1>13, <1>14
    <3> QED BY <1>5, <2>8, <3>1, <3>2
  <2>10. m.gains <= m.w.taxable
    <3>1. PICK t \in Nat, gain \in Nat : t = drawn.taxable /\ gain = Share(t, GainRatio) /\ gain <= t
      BY <1>12, GainAtMost
    <3>2. m.w.taxable = taxable + t /\ m.gains = n.gains + gain /\ n.gains \in Nat
      BY <1>a, <2>3, <3>1 DEF Plus, NowType
    <3> QED BY <1>a, <3>1, <3>2
  <2>11. m.penalties <= Share(m.w.traditional + m.w.hsa, Steep)
    <3>1. PICK o \in Nat, h \in Nat : o = drawn.traditional /\ h = drawn.hsa
      BY <1>12
    <3>2. PICK penalty \in Nat, part \in Nat :
            /\ penalty = penalties_on(o, h, 0, age) /\ part = Share(o + h, steep) /\ penalty <= part
      <4>1. PICK sum \in Nat : sum = o + h
        OBVIOUS
      <4>2. Share(sum, Steep) \in Nat
        BY SteepNat, ShareNat
      <4>3. age \in Nat
        BY <1>7
      <4>4. /\ penalties_on(o, h, 0, age) \in Nat
            /\ penalties_on(o, h, 0, age) <= Share(o + h, Steep)
        BY <4>3, PenaltiesAtMost
      <4> QED BY <1>a, <4>1, <4>2, <4>4
    <3>3. PICK all \in Nat : all = Share(kept + (o + h), steep) /\ most + part <= all
      <4>1. PICK sum \in Nat, whole \in Nat : sum = o + h /\ whole = kept + sum
        OBVIOUS
      <4>2. Share(whole, steep) \in Nat
        BY <1>a, ShareNat
      <4>3. Share(kept, steep) + Share(sum, steep) <= Share(kept + sum, steep)
        BY <1>a, <4>1, ShareOfSum
      <4> QED BY <1>a, <3>2, <4>1, <4>2, <4>3
    <3>4. m.w.traditional + m.w.hsa = kept + (o + h)
      <4>1. n.w.traditional \in Nat /\ n.w.hsa \in Nat
        BY DEF NowType, Balances
      <4> QED BY <1>a, <2>3, <3>1, <4>1 DEF Plus
    <3>5. m.penalties = n.penalties + penalty /\ n.penalties \in Nat
      BY <2>3, <3>1, <3>2 DEF NowType
    <3> QED BY <1>a, <3>2, <3>3, <3>4, <3>5
  <2> QED BY <1>2, <1>3, <1>13, <2>2, <2>7, <2>9, <2>10, <2>11
          DEF Balanced, WorkBalanced, CashReconciles, Booked, Closed
<1> QED BY <1>16, <1>17

LEMMA WorkingYearClosedBalanced ==
  ASSUME TaxIsWhole, TaxIsOrderly, PathInv, Balanced, CloseWorkingYear PROVE Balanced'
<1>1. TypeOK /\ Placed /\ phase = "shortfall"
  BY DEF PathInv, CloseWorkingYear
<1>2. PICK p \in Plans, n \in NowType, a \in Accounts : p = plan /\ n = now /\ a = accounts
  BY <1>1, YearIs DEF Placed, TypeOK
<1>3. PICK unfunded \in Nat, net \in Int, plain \in Int, sold \in Nat, tax \in Int, d \in Balances :
        /\ unfunded = Unfunded /\ net = CashFlow.net /\ plain = Plain(p, n) /\ sold = Sold(n)
        /\ tax = CashFlow.tax /\ d = CashFlow.deposits
        /\ unfunded = Positive(-net - sold) /\ (net < 0 \/ plain <= 0 => net = plain)
        /\ TotalOf(d) + tax + plan.spending + now.penalties + net
             = plan.salary + now.w.traditional + now.w.hsa + Positive(net)
  BY <1>1, <1>2, ShortfallIs
<1>4. PICK salary \in Nat, spending \in Nat, penalties \in Nat :
        salary = p.salary /\ spending = p.spending /\ penalties = n.penalties
  BY PlanIs DEF NowType
<1>5. PICK taxable \in Nat, traditional \in Nat, roth \in Nat, hsa \in Nat :
        /\ taxable = n.w.taxable /\ traditional = n.w.traditional
        /\ roth = n.w.roth /\ hsa = n.w.hsa
  BY DEF NowType, Balances
<1>6. PICK invested \in Nat, held \in Nat, deposited \in Nat, withdrawn \in Nat :
        /\ invested = n.invested /\ held = TotalOf(a.balance) /\ deposited = TotalOf(d)
        /\ withdrawn = TotalOf(n.w) /\ withdrawn = taxable + traditional + roth + hsa
  <2>1. n.invested \in Nat /\ a.balance \in Balances
    BY DEF NowType, Accounts
  <2>2. TotalOf(a.balance) \in Nat /\ TotalOf(d) \in Nat
    BY <2>1, TotalNat
  <2>3. TotalOf(n.w) = taxable + traditional + roth + hsa
    BY <1>5 DEF TotalOf
  <2> QED BY <2>1, <2>2, <2>3
<1>7. invested - held - withdrawn \in 0..Tolerance /\ (sold > 0 => plain + sold <= 0)
      /\ Tolerance \in Nat
  BY <1>1, <1>2, <1>3, <1>6, RuleAssumption DEF Balanced, WorkBalanced
<1>8. TotalOf(accounts'.balance) = held + deposited
  <2>1. /\ "hsa" \in AccountType /\ "traditional" \in AccountType
        /\ "roth" \in AccountType /\ "taxable" \in AccountType
    BY DEF AccountType
  <2>2. d.taxable \in Nat /\ d.traditional \in Nat /\ d.roth \in Nat /\ d.hsa \in Nat
    BY DEF Balances
  <2>3. PICK first \in Accounts : /\ first = deposit_to_bucket(a, "hsa", d.hsa)
                                  /\ TotalOf(first.balance) = held + d.hsa
    BY <1>6, <2>1, <2>2, TotalAfterDeposit
  <2>4. PICK second \in Accounts :
          /\ second = deposit_to_bucket(first, "traditional", d.traditional)
          /\ TotalOf(second.balance) = TotalOf(first.balance) + d.traditional
    BY <2>1, <2>2, TotalAfterDeposit
  <2>5. PICK third \in Accounts :
          /\ third = deposit_to_bucket(second, "roth", d.roth)
          /\ TotalOf(third.balance) = TotalOf(second.balance) + d.roth
    BY <2>1, <2>2, TotalAfterDeposit
  <2>6. PICK last \in Accounts :
          /\ last = deposit_to_bucket(third, "taxable", d.taxable)
          /\ TotalOf(last.balance) = TotalOf(third.balance) + d.taxable
    BY <2>1, <2>2, TotalAfterDeposit
  <2>7. accounts' = last
    BY <1>2, <1>3, <2>3, <2>4, <2>5, <2>6 DEF CloseWorkingYear
  <2>8. TotalOf(last.balance) = held + d.hsa + d.traditional + d.roth + d.taxable
    BY <2>3, <2>4, <2>5, <2>6
  <2> QED BY <1>6, <2>2, <2>7, <2>8 DEF TotalOf
<1>9. PICK report : report =
        [age |-> Age, retired |-> FALSE, income |-> plan.salary, spending |-> plan.spending - Unfunded,
         taxes |-> CashFlow.tax + now.penalties, w |-> now.w, deposits |-> d,
         savings |-> TotalOf(d) - TotalOf(now.w), forced |-> now.rmd,
         gross |-> 0, converted |-> 0, short |-> Unfunded > Tolerance, invested |-> now.invested]
  OBVIOUS
<1>10. EndYear(report, 0)
  BY <1>3, <1>9 DEF CloseWorkingYear
<1>11. row' = report /\ phase' \in {"begin", "done"}
  BY <1>10 DEF EndYear
<1>12. /\ report.income = salary /\ report.w = n.w /\ report.taxes = tax + penalties
       /\ report.deposits = d /\ report.spending = spending - unfunded
       /\ report.invested = invested /\ report.savings = deposited - withdrawn
  BY <1>2, <1>3, <1>4, <1>6, <1>9
<1>13. salary + withdrawn = tax + penalties + deposited + (spending - unfunded)
  <2>1. PICK over \in Nat : over = Positive(net)
    BY PositiveNat
  <2>2. deposited + tax + spending + penalties + net = salary + traditional + hsa + over
    BY <1>2, <1>3, <1>4, <1>5, <1>6, <2>1
  <2>3. sold = taxable + roth
    BY <1>3, <1>5 DEF Sold
  <2>4. sold + unfunded + net = over
    BY <1>3, <1>7, <2>1 DEF Positive, Greater
  <2> QED BY <1>6, <2>2, <2>3, <2>4
<1>14. CashReconciles'
  <2>1. Near(salary + withdrawn, tax + penalties + deposited + (spending - unfunded))
    BY <1>7, <1>13 DEF Near
  <2>2. Near(held + deposited, invested + (deposited - withdrawn))
    BY <1>7 DEF Near
  <2> QED BY <1>6, <1>8, <1>11, <1>12, <2>1, <2>2 DEF CashReconciles, Near
<1>15. unfunded <= spending
  <2>1. PICK gains \in Nat, part \in Nat, owed \in Int, payroll \in Int, ordinary \in Nat :
          /\ gains = n.gains /\ ordinary = traditional + hsa /\ part = Share(ordinary, Steep)
          /\ owed = Tax(salary + ordinary, 0, gains) /\ payroll = PayrollTax(salary)
          /\ gains <= taxable /\ penalties <= part
    <3>1. PICK ordinary \in Nat, gains \in Nat : ordinary = traditional + hsa /\ gains = n.gains
      BY DEF NowType
    <3>2. Share(ordinary, Steep) \in Nat
      BY SteepNat, ShareNat
    <3>3. salary + ordinary \in Int /\ 0 \in Int /\ gains \in Int /\ salary \in Int
      OBVIOUS
    <3>4. Tax(salary + ordinary, 0, gains) \in Int
      BY <3>3, TaxInt
    <3>5. PayrollTax(salary) \in Int
      BY <3>3 DEF TaxIsWhole, WholeTaxes
    <3>6. n.gains <= n.w.taxable /\ n.penalties <= Share(n.w.traditional + n.w.hsa, Steep)
      BY <1>1, <1>2 DEF Balanced, WorkBalanced
    <3> QED BY <1>4, <1>5, <3>1, <3>2, <3>4, <3>5, <3>6
  <2>2. owed + payroll + part <= salary + ordinary + 0 + gains
    <3>1. 0 \in Nat
      OBVIOUS
    <3>2. Tax(salary + ordinary, 0, gains) + PayrollTax(salary) + Share(ordinary, Steep)
            <= salary + ordinary + 0 + gains
      BY <3>1 DEF TaxIsOrderly, OrderlyTaxes, Steep
    <3> QED BY <2>1, <3>2
  <2>3. plain = salary + ordinary - (owed + payroll) - spending - penalties
    <3>1. salary - 0 - 0 + ordinary = salary + ordinary
      OBVIOUS
    <3>2. WorkingTax(salary, ordinary, gains, NoContribution) = owed + payroll
      BY <2>1, <3>1 DEF WorkingTax, NoContribution
    <3>3. Plain(p, n) = salary + traditional + hsa - (owed + payroll) - spending - penalties
      BY <1>4, <1>5, <2>1, <3>2 DEF Plain
    <3> QED BY <1>3, <2>1, <3>3
  <2>4. sold = taxable + roth
    BY <1>3, <1>5 DEF Sold
  <2>5. CASE unfunded = 0
    BY <1>4, <2>5
  <2>6. CASE unfunded > 0
    <3>1. net < 0 /\ unfunded = -net - sold
      BY <1>3, <2>6 DEF Positive, Greater
    <3>2. net = plain
      BY <1>3, <3>1
    <3> QED BY <2>1, <2>2, <2>3, <2>4, <3>1, <3>2
  <2> QED BY <2>5, <2>6
<1>16. Booked'
  <2>1. spending - unfunded \in Nat /\ tax + penalties \in Int
        /\ deposited - withdrawn \in Int
    BY <1>15
  <2>2. n.w \in Balances /\ n.rmd \in Nat /\ n.invested \in Nat
    BY DEF NowType
  <2>3. Age \in Nat
    BY <1>1, YearIs
  <2>4. report = [age |-> Age, retired |-> FALSE, income |-> salary, spending |-> spending - unfunded,
                  taxes |-> tax + penalties, w |-> n.w, deposits |-> d,
                  savings |-> deposited - withdrawn, forced |-> n.rmd, gross |-> 0, converted |-> 0,
                  short |-> unfunded > Tolerance, invested |-> n.invested]
    BY <1>2, <1>3, <1>4, <1>6, <1>9
  <2>5. report \in RowType
    BY <2>1, <2>2, <2>3, <2>4 DEF RowType
  <2>6. report.savings = TotalOf(report.deposits) - TotalOf(report.w)
    BY <1>6, <1>12
  <2> QED BY <1>11, <2>5, <2>6 DEF Booked
<1> QED BY <1>11, <1>14, <1>16 DEF Balanced

LEMMA RetiredYearFundedBalanced ==
  ASSUME TaxIsWhole, TaxIsOrderly, PathInv, Balanced, FundRetiredYear PROVE Balanced'
<1>1. TypeOK /\ Placed /\ phase = "fund" /\ phase' = "convert"
  BY DEF PathInv, FundRetiredYear
<1>2. PICK n \in NowType, p \in Plans, age \in Nat, a \in Accounts, ledger \in Basis, left \in Nat :
        n = now /\ p = plan /\ age = Age /\ a = accounts /\ ledger = basis /\ left = allowance
  <2>1. now \in NowType /\ plan \in Plans /\ Age \in Nat
    BY <1>1, YearIs DEF Placed
  <2>2. accounts \in Accounts /\ basis \in Basis /\ allowance \in Nat
    BY <1>1 DEF TypeOK
  <2> QED BY <2>1, <2>2
<1>3. PICK rmd \in Nat, benefit \in Nat, target \in Nat, invested \in Nat :
        rmd = n.rmd /\ benefit = n.benefit /\ target = n.target /\ invested = n.invested
  BY DEF NowType
<1>4. PICK c : c = [age |-> age, benefit |-> benefit, rmd |-> rmd, allowance |-> left]
  OBVIOUS
<1>5. Context(c) /\ c.benefit = benefit
  BY <1>4 DEF Context
<1>6. PICK found \in Solutions(p, a, ledger, c, target) :
         LET over == found.cash - now.target
             surplus == IF over > Tolerance THEN over ELSE 0
         IN  /\ accounts' = deposit_to_bucket([accounts EXCEPT !.balance = found.balance],
                                              "taxable", surplus)
             /\ basis' = consume_roth_basis(basis, found.w.roth)
             /\ allowance' = AllowanceLeft(found)
             /\ now' = [now EXCEPT !.w = found.w, !.taxes = found.taxes, !.surplus = surplus,
                                   !.short = over < -Tolerance]
  BY <1>2, <1>3, <1>4 DEF FundRetiredYear
<1>7. PICK budget \in Nat : found = evaluate_ordered_withdrawals(p, a, ledger, c, budget)
  <2>1. target \in Int
    OBVIOUS
  <2> QED BY <1>5, <2>1, SolutionIs
<1>8. /\ found.balance \in Balances /\ found.w \in Balances /\ found.cash \in Int
      /\ found.taxes \in Int /\ found.cash >= 0
      /\ TotalOf(found.balance) + TotalOf(found.w) = TotalOf(a.balance)
      /\ found.cash = c.benefit + TotalOf(found.w) - found.taxes
  <2>1. Evaluates(found, p, a, c, budget)
    BY <1>5, <1>7, EvaluationIs
  <2> QED BY <2>1 DEF Evaluates
<1>9. PICK cash \in Int, taxes \in Int, kept \in Nat, withdrawn \in Nat :
        /\ cash = found.cash /\ taxes = found.taxes
        /\ kept = TotalOf(found.balance) /\ withdrawn = TotalOf(found.w)
        /\ cash >= 0 /\ cash = benefit + withdrawn - taxes /\ kept + withdrawn = TotalOf(a.balance)
  BY <1>5, <1>8, TotalNat
<1>10. Tolerance \in Nat
  BY RuleAssumption
<1>11. PICK over \in Int, surplus \in Nat :
         over = cash - target /\ surplus = IF over > Tolerance THEN over ELSE 0
  <2>1. PICK over \in Int : over = cash - target
    OBVIOUS
  <2>2. (IF over > Tolerance THEN over ELSE 0) \in Nat
    BY <1>10
  <2> QED BY <2>1, <2>2
<1>12. /\ accounts' = deposit_to_bucket([a EXCEPT !.balance = found.balance], "taxable", surplus)
       /\ now' = [n EXCEPT !.w = found.w, !.taxes = taxes, !.surplus = surplus,
                           !.short = over < -Tolerance]
  BY <1>2, <1>3, <1>6, <1>9, <1>11
<1>13. PICK paid \in Accounts :
         paid = [a EXCEPT !.balance = found.balance] /\ paid.balance = found.balance
  <2>1. PICK b \in Balances, h \in SUBSET AccountType, k \in SUBSET AccountType :
          a = [balance |-> b, held |-> h, cash |-> k]
    BY AccountsIs
  <2>2. [a EXCEPT !.balance = found.balance] = [balance |-> found.balance, held |-> h, cash |-> k]
    BY <2>1
  <2> QED BY <1>8, <2>2 DEF Accounts
<1>14. TotalOf(accounts'.balance) = kept + surplus
  <2>1. "taxable" \in AccountType
    BY DEF AccountType
  <2>2. PICK after \in Accounts :
          /\ after = deposit_to_bucket(paid, "taxable", surplus)
          /\ TotalOf(after.balance) = TotalOf(paid.balance) + surplus
    BY <2>1, TotalAfterDeposit
  <2> QED BY <1>9, <1>12, <1>13, <2>2
<1>15. /\ now'.w = found.w /\ now'.taxes = taxes /\ now'.surplus = surplus
       /\ now'.short = (over < -Tolerance)
       /\ now'.benefit = benefit /\ now'.target = target /\ now'.invested = invested
  BY <1>3, <1>12 DEF NowType
<1>16. invested = kept + withdrawn
  BY <1>1, <1>2, <1>3, <1>9 DEF Balanced
<1>17. FundBalanced(accounts', now')
  <2>1. kept + surplus + withdrawn = invested + surplus
    BY <1>16
  <2>2. benefit + withdrawn - taxes - target = over
    BY <1>9, <1>11
  <2>3. over < -Tolerance => surplus = 0 /\ over + target >= 0
    BY <1>9, <1>10, <1>11
  <2>4. ~(over < -Tolerance) => over - surplus \in -Tolerance..Tolerance
    BY <1>10, <1>11
  <2> QED BY <1>9, <1>14, <1>15, <2>1, <2>2, <2>3, <2>4 DEF FundBalanced
<1> QED BY <1>1, <1>17 DEF Balanced, CashReconciles, Booked, Closed

LEMMA RetiredYearClosedBalanced ==
  ASSUME TaxIsWhole, TaxIsOrderly, PathInv, Balanced, CloseRetiredYear PROVE Balanced'
<1>1. TypeOK /\ Placed /\ phase = "convert"
  BY DEF PathInv, CloseRetiredYear
<1>2. PICK p \in Plans, n \in NowType, a \in Accounts : p = plan /\ n = now /\ a = accounts
  BY <1>1, YearIs DEF Placed, TypeOK
<1>3. PICK c : c = IF Age < RmdAge /\ ~now.short THEN roth_conversion_for(plan, accounts, now)
                   ELSE NoConversion
  OBVIOUS
<1>4. n.w \in Balances /\ n.benefit \in Nat
  BY DEF NowType
<1>5. Conversion(c, a) /\ (n.short => c.converted = 0)
  <2>1. Conversion(roth_conversion_for(p, a, n), a)
    BY <1>4, ConversionIs
  <2>2. Conversion(NoConversion, a) /\ NoConversion.converted = 0
    BY NoConversionIs DEF NoConversion
  <2> QED BY <1>2, <1>3, <2>1, <2>2
<1>6. PICK converted \in Nat, fromTaxable \in Nat, withheld \in Nat, more \in Nat :
        /\ converted = c.converted /\ fromTaxable = c.fromTaxable /\ withheld = c.withheld
        /\ more = c.tax /\ more = fromTaxable + withheld
        /\ (converted = 0 => fromTaxable = 0 /\ withheld = 0)
        /\ withheld <= converted
  BY <1>5 DEF Conversion
<1>7. PICK reached \in Nat : reached = converted - withheld
  BY <1>6
<1>8. PICK benefit \in Nat, target \in Nat, taxes \in Int, surplus \in Nat, invested \in Nat :
        /\ benefit = n.benefit /\ target = n.target /\ taxes = n.taxes /\ surplus = n.surplus
        /\ invested = n.invested
  BY DEF NowType
<1>9. PICK held \in Nat, withdrawn \in Nat : held = TotalOf(a.balance) /\ withdrawn = TotalOf(n.w)
  BY <1>4, TotalNat DEF Accounts
<1>10. PICK over \in Int : over = benefit + withdrawn - taxes - target
  OBVIOUS
<1>11. /\ held + withdrawn = invested + surplus
       /\ n.short => surplus = 0 /\ over + target >= 0
       /\ ~n.short => over - surplus \in -Tolerance..Tolerance
  BY <1>1, <1>2, <1>8, <1>9, <1>10 DEF Balanced, FundBalanced
<1>12. phase = "convert" /\ Convert(c)
  BY <1>3 DEF CloseRetiredYear
<1>13. PICK after \in Int : after = TotalOf(accounts'.balance) /\ after + fromTaxable + withheld = held
  <2>1. accounts' = deposit_to_bucket(
                      draw_from_bucket(draw_from_bucket(a, "traditional", c.converted),
                                       "taxable", c.fromTaxable),
                      "roth", c.converted - c.withheld)
    BY <1>2, <1>12 DEF Convert
  <2>2. TotalOf(accounts'.balance) + c.fromTaxable + c.withheld = TotalOf(a.balance)
    BY <1>5, <2>1, TotalAfterConversion
  <2>3. accounts'.balance \in Balances
    BY <1>5, <2>1, ConvertedTyped DEF Accounts
  <2> QED BY <1>6, <1>9, <2>2, <2>3, TotalNat
<1>14. PICK cash \in Int : cash = withdrawn - (taxes + more) - surplus + benefit
  OBVIOUS
<1>15. PICK w : w = [n.w EXCEPT !.taxable = @ + c.fromTaxable, !.traditional = @ + c.withheld]
  OBVIOUS
<1>16. PICK report : report =
         [age |-> Age, retired |-> TRUE, income |-> benefit,
          spending |-> IF n.short THEN Positive(cash) ELSE target,
          taxes |-> taxes + more, w |-> w,
          deposits |-> [Nothing EXCEPT !.taxable = surplus],
          savings |-> surplus - withdrawn - fromTaxable - withheld,
          forced |-> n.rmd, gross |-> converted, converted |-> reached,
          short |-> n.short, invested |-> invested]
  OBVIOUS
<1>17. EndYear(report, reached)
  BY <1>2, <1>6, <1>7, <1>8, <1>9, <1>12, <1>14, <1>15, <1>16 DEF Convert
<1>18. row' = report /\ phase' \in {"begin", "done"}
  BY <1>17 DEF EndYear
<1>19. /\ report.income = benefit /\ report.w = w /\ report.taxes = taxes + more
       /\ report.deposits = [Nothing EXCEPT !.taxable = surplus]
       /\ report.spending = (IF n.short THEN Positive(cash) ELSE target)
       /\ report.invested = invested
       /\ report.savings = surplus - withdrawn - fromTaxable - withheld
  BY <1>16
<1>20. TotalOf(w) = withdrawn + fromTaxable + withheld
  <2>1. /\ n.w = [taxable |-> n.w.taxable, traditional |-> n.w.traditional,
                  roth |-> n.w.roth, hsa |-> n.w.hsa]
        /\ n.w.taxable \in Nat /\ n.w.traditional \in Nat /\ n.w.roth \in Nat /\ n.w.hsa \in Nat
    BY <1>4 DEF Balances
  <2>2. /\ w.taxable = n.w.taxable + fromTaxable /\ w.traditional = n.w.traditional + withheld
        /\ w.roth = n.w.roth /\ w.hsa = n.w.hsa
    BY <1>6, <1>15, <2>1
  <2> QED BY <1>9, <2>1, <2>2 DEF TotalOf
<1>21. TotalOf(report.deposits) = surplus
  BY <1>19 DEF Nothing, TotalOf
<1>22. PICK spent \in Int :
         /\ spent = report.spending
         /\ benefit + (withdrawn + fromTaxable + withheld)
              - (taxes + more + surplus + spent) \in -Tolerance..Tolerance
  <2>1. CASE n.short
    <3>1. more = 0 /\ fromTaxable = 0 /\ withheld = 0 /\ surplus = 0
      BY <1>5, <1>6, <1>11, <2>1
    <3>2. cash = over + target /\ cash >= 0
      BY <1>10, <1>11, <1>14, <2>1, <3>1
    <3>3. report.spending = cash
      BY <1>19, <2>1, <3>2 DEF Positive, Greater
    <3>4. benefit + (withdrawn + fromTaxable + withheld) - (taxes + more + surplus + cash) = 0
      BY <1>14, <3>1
    <3>5. 0 \in -Tolerance..Tolerance
      BY RuleAssumption
    <3> QED BY <3>3, <3>4, <3>5
  <2>2. CASE ~n.short
    <3>1. report.spending = target
      BY <1>19, <2>2
    <3>2. benefit + (withdrawn + fromTaxable + withheld) - (taxes + more + surplus + target)
            = over - surplus
      <4>1. more = fromTaxable + withheld
        BY <1>6
      <4> QED BY <1>10, <4>1
    <3> QED BY <1>11, <2>2, <3>1, <3>2
  <2> QED BY <2>1, <2>2
<1>23. CashReconciles'
  <2>1. Near(benefit + (withdrawn + fromTaxable + withheld), taxes + more + surplus + spent)
    BY <1>22 DEF Near
  <2>2. Near(after, invested + (surplus - withdrawn - fromTaxable - withheld))
    <3>1. after - (invested + (surplus - withdrawn - fromTaxable - withheld)) = 0
      BY <1>11, <1>13
    <3>2. 0 \in -Tolerance..Tolerance
      BY RuleAssumption
    <3> QED BY <3>1, <3>2 DEF Near
  <2> QED BY <1>13, <1>18, <1>19, <1>20, <1>21, <1>22, <2>1, <2>2 DEF CashReconciles, Near
<1>24. Booked'
  <2>1. w \in Balances
    <3>1. /\ n.w = [taxable |-> n.w.taxable, traditional |-> n.w.traditional,
                    roth |-> n.w.roth, hsa |-> n.w.hsa]
          /\ n.w.taxable \in Nat /\ n.w.traditional \in Nat /\ n.w.roth \in Nat /\ n.w.hsa \in Nat
      BY <1>4 DEF Balances
    <3>2. w = [taxable |-> n.w.taxable + fromTaxable, traditional |-> n.w.traditional + withheld,
               roth |-> n.w.roth, hsa |-> n.w.hsa]
      BY <1>6, <1>15, <3>1
    <3> QED BY <3>1, <3>2 DEF Balances
  <2>2. report.deposits \in Balances
    BY <1>19 DEF Nothing, Balances
  <2>3. (IF n.short THEN Positive(cash) ELSE target) \in Nat
    BY <1>8, PositiveNat
  <2>4. report.savings = TotalOf(report.deposits) - TotalOf(report.w)
    BY <1>19, <1>20, <1>21
  <2>5. Age \in Nat /\ n.rmd \in Nat /\ n.short \in BOOLEAN
    BY <1>1, YearIs DEF NowType
  <2>6. taxes + more \in Int /\ surplus - withdrawn - fromTaxable - withheld \in Int
    OBVIOUS
  <2>7. [Nothing EXCEPT !.taxable = surplus] \in Balances
    BY <1>19, <2>2
  <2>8. report \in RowType
    BY <1>16, <2>1, <2>3, <2>5, <2>6, <2>7 DEF RowType
  <2> QED BY <1>18, <2>4, <2>8 DEF Booked
<1> QED BY <1>18, <1>23, <1>24 DEF Balanced

LEMMA BalanceStarts == ASSUME Init PROVE Balanced
BY DEF Init, Balanced, CashReconciles, Booked, Closed

LEMMA BalanceStutters == ASSUME Balanced, UNCHANGED vars PROVE Balanced'
<1>1. /\ plan' = plan /\ phase' = phase /\ accounts' = accounts /\ magi' = magi
      /\ now' = now /\ row' = row
  BY DEF vars
<1>2. CashReconciles' /\ Booked'
  BY <1>1 DEF Balanced, CashReconciles, Booked, Closed
<1> QED BY <1>1, <1>2 DEF Balanced

LEMMA YearsBalance == ASSUME TaxIsWhole, TaxIsOrderly PROVE Spec => []Balanced
<1>1. Init => Balanced
  BY BalanceStarts
<1>2. PathInv /\ Balanced /\ [Next]_vars => Balanced'
  <2>1. ASSUME PathInv, Balanced, [Next]_vars PROVE Balanced'
    <3>1. CASE BeginWorkingYear
      BY <2>1, <3>1, WorkingYearBegunBalanced
    <3>2. CASE ShortfallPass
      BY <2>1, <3>2, PassBalanced
    <3>3. CASE CloseWorkingYear
      BY <2>1, <3>3, WorkingYearClosedBalanced
    <3>4. CASE BeginRetiredYear
      BY <2>1, <3>4, RetiredYearBegunBalanced
    <3>5. CASE FundRetiredYear
      BY <2>1, <3>5, RetiredYearFundedBalanced
    <3>6. CASE CloseRetiredYear
      BY <2>1, <3>6, RetiredYearClosedBalanced
    <3>7. CASE UNCHANGED vars
      BY <2>1, <3>7, BalanceStutters
    <3> QED BY <2>1, <3>1, <3>2, <3>3, <3>4, <3>5, <3>6, <3>7 DEF Next
  <2> QED BY <2>1
<1>3. Spec => []PathInv
  BY PathIsSound
<1> QED BY <1>1, <1>2, <1>3, PTL DEF Spec

(* The years reconcile (projection.rs): what came in and was withdrawn went   *)
(* to taxes, spending and deposits, and the portfolio moved by the reported   *)
(* savings, to the tolerance of the searches.                                *)
THEOREM YearsReconcile == ASSUME TaxIsWhole, TaxIsOrderly PROVE Spec => []CashReconciles
<1>1. Balanced => CashReconciles
  BY DEF Balanced
<1> QED BY <1>1, YearsBalance, PTL
-----------------------------------------------------------------------------
(* The reports *)

Netted(withdrawn, before, back) == Positive(withdrawn - Positive(back - before))

(* What is taken off bucket by bucket is what was paid back.                  *)
LEMMA NettedIs ==
  ASSUME NEW first \in Nat, NEW second \in Nat, NEW third \in Nat, NEW fourth \in Nat,
         NEW back \in Nat, back <= first + second + third + fourth
  PROVE  /\ Netted(first, 0, back) \in 0..first
         /\ Netted(second, first, back) \in 0..second
         /\ Netted(third, first + second, back) \in 0..third
         /\ Netted(fourth, first + second + third, back) \in 0..fourth
         /\ Netted(first, 0, back) + Netted(second, first, back) + Netted(third, first + second, back)
              + Netted(fourth, first + second + third, back)
              = first + second + third + fourth - back
BY DEF Netted, Positive, Greater

LEMMA NetWithdrawalsAre ==
  ASSUME NEW r, NEW w \in Balances, NEW savings \in Int, r.w = w, r.savings = savings,
         -savings <= TotalOf(w)
  PROVE  LET net == netWithdrawals(r)
         IN  /\ net \in Balances /\ TotalOf(net) = Positive(-savings)
             /\ \A type \in AccountType : net[type] \in 0..w[type]
<1>1. PICK traditional \in Nat, taxable \in Nat, roth \in Nat, hsa \in Nat :
        /\ traditional = w.traditional /\ taxable = w.taxable /\ roth = w.roth /\ hsa = w.hsa
  BY DEF Balances
<1>2. PICK back \in Nat :
        /\ back = Positive(TotalOf(w) - Positive(-savings))
        /\ back <= traditional + taxable + roth + hsa
        /\ traditional + taxable + roth + hsa - back = Positive(-savings)
  <2>1. TotalOf(w) = traditional + taxable + roth + hsa
    BY <1>1 DEF TotalOf
  <2> QED BY <2>1 DEF Positive, Greater
<1>3. PICK a \in 0..traditional, b \in 0..taxable, c \in 0..roth, d \in 0..hsa :
        /\ a = Netted(traditional, 0, back) /\ b = Netted(taxable, traditional, back)
        /\ c = Netted(roth, traditional + taxable, back)
        /\ d = Netted(hsa, traditional + taxable + roth, back)
        /\ a + b + c + d = traditional + taxable + roth + hsa - back
  <2>1. /\ traditional \in Nat /\ taxable \in Nat /\ roth \in Nat /\ hsa \in Nat /\ back \in Nat
        /\ back <= traditional + taxable + roth + hsa
    BY <1>2
  <2>2. /\ Netted(traditional, 0, back) \in 0..traditional
        /\ Netted(taxable, traditional, back) \in 0..taxable
        /\ Netted(roth, traditional + taxable, back) \in 0..roth
        /\ Netted(hsa, traditional + taxable + roth, back) \in 0..hsa
        /\ Netted(traditional, 0, back) + Netted(taxable, traditional, back)
             + Netted(roth, traditional + taxable, back) + Netted(hsa, traditional + taxable + roth, back)
             = traditional + taxable + roth + hsa - back
    BY <2>1, NettedIs
  <2> QED BY <2>2
<1>4. netWithdrawals(r) = [traditional |-> a, taxable |-> b, roth |-> c, hsa |-> d]
  <2> DEFINE Net(withdrawn, before) == Positive(withdrawn - Positive(back - before))
  <2>1. netWithdrawals(r) = [traditional |-> Net(traditional, 0), taxable |-> Net(taxable, traditional),
                             roth |-> Net(roth, traditional + taxable),
                             hsa |-> Net(hsa, traditional + taxable + roth)]
    BY <1>1, <1>2 DEF netWithdrawals
  <2> QED BY <1>3, <2>1 DEF Netted
<1>5. netWithdrawals(r) \in Balances
  BY <1>4 DEF Balances
<1>6. TotalOf(netWithdrawals(r)) = Positive(-savings)
  BY <1>2, <1>3, <1>4 DEF TotalOf
<1>7. \A type \in AccountType : netWithdrawals(r)[type] \in 0..w[type]
  BY <1>1, <1>3, <1>4 DEF AccountType
<1> QED BY <1>5, <1>6, <1>7

(* Drawn as a whole year, the report has all its figures k times.            *)
LEMMA AnnualizedIs ==
  ASSUME NEW r \in RowType, NEW k \in Nat
  PROVE  LET year == annualize(r, k)
         IN  /\ year.income = r.income * k /\ year.spending = r.spending * k
             /\ year.taxes = r.taxes * k /\ year.savings = r.savings * k
             /\ year.w \in Balances /\ \A type \in AccountType : year.w[type] = r.w[type] * k
             /\ TotalOf(year.w) = TotalOf(r.w) * k
<1>1. PICK traditional \in Nat, taxable \in Nat, roth \in Nat, hsa \in Nat :
        /\ traditional = r.w.traditional /\ taxable = r.w.taxable /\ roth = r.w.roth /\ hsa = r.w.hsa
  BY DEF RowType, Balances
<1>2. PICK year : year = annualize(r, k)
  OBVIOUS
<1>3. /\ year.income = r.income * k /\ year.spending = r.spending * k
      /\ year.taxes = r.taxes * k /\ year.savings = r.savings * k
      /\ year.w = [taxable |-> taxable * k, traditional |-> traditional * k,
                   roth |-> roth * k, hsa |-> hsa * k]
  BY <1>1, <1>2 DEF annualize, RowType
<1>4. taxable * k \in Nat /\ traditional * k \in Nat /\ roth * k \in Nat /\ hsa * k \in Nat
  OBVIOUS
<1>5. year.w \in Balances
  BY <1>3, <1>4 DEF Balances
<1>6. \A type \in AccountType : year.w[type] = r.w[type] * k
  BY <1>1, <1>3 DEF AccountType
<1>7. taxable * k + traditional * k + roth * k + hsa * k = (taxable + traditional + roth + hsa) * k
  OBVIOUS
<1>8. TotalOf(year.w) = TotalOf(r.w) * k
  BY <1>1, <1>3, <1>7 DEF TotalOf
<1> QED BY <1>2, <1>3, <1>5, <1>6, <1>8

(* The chart adds up what the report adds up.                                *)
LEMMA ChartFollows == ASSUME CashReconciles, Booked PROVE ChartReconciles
<1> SUFFICES ASSUME Closed, NEW k \in Annualizing, NEW reported \in ReportedCare
             PROVE  LET bar == toCashFlowRow(row, k, reported)
                    IN  /\ MoneyIn(bar) - MoneyOut(bar) - Positive(row.savings * k)
                             \in -Tolerance * k..Tolerance * k
                        /\ \A type \in AccountType : bar.drawn[type] \in 0..row.w[type] * k
                        /\ bar.living >= 0
  BY DEF ChartReconciles
<1>1. PICK r \in RowType : r = row /\ r.savings = TotalOf(r.deposits) - TotalOf(r.w)
  BY DEF Booked
<1>2. PICK income \in Nat, spending \in Nat, taxes \in Int, savings \in Int,
           withdrawn \in Nat, deposited \in Nat :
        /\ income = r.income /\ spending = r.spending /\ taxes = r.taxes /\ savings = r.savings
        /\ withdrawn = TotalOf(r.w) /\ deposited = TotalOf(r.deposits)
        /\ savings = deposited - withdrawn
  <2>1. r.w \in Balances /\ r.deposits \in Balances
    BY DEF RowType
  <2> QED BY <1>1, <2>1, TotalNat DEF RowType
<1>3. PICK n \in Nat, told \in Nat : n = k /\ told = reported
  BY ReportAssumption
<1>4. PICK year :
        /\ year = annualize(r, n)
        /\ year.income = income * n /\ year.spending = spending * n /\ year.taxes = taxes * n
        /\ year.savings = savings * n /\ year.w \in Balances
        /\ \A type \in AccountType : year.w[type] = r.w[type] * n
        /\ TotalOf(year.w) = withdrawn * n
  <2>1. LET year == annualize(r, n)
        IN  /\ year.income = r.income * n /\ year.spending = r.spending * n
            /\ year.taxes = r.taxes * n /\ year.savings = r.savings * n
            /\ year.w \in Balances /\ \A type \in AccountType : year.w[type] = r.w[type] * n
            /\ TotalOf(year.w) = TotalOf(r.w) * n
    BY AnnualizedIs
  <2>2. PICK year : year = annualize(r, n)
    OBVIOUS
  <2>3. /\ year.income = income * n /\ year.spending = spending * n /\ year.taxes = taxes * n
        /\ year.savings = savings * n /\ TotalOf(year.w) = withdrawn * n
    BY <1>2, <2>1, <2>2
  <2>4. year.w \in Balances /\ \A type \in AccountType : year.w[type] = r.w[type] * n
    BY <2>1, <2>2
  <2> QED BY <2>2, <2>3, <2>4
<1>5. PICK saved \in Int, spent \in Nat, taxed \in Int, earned \in Nat, drawn \in Nat, put \in Nat :
        /\ saved = savings * n /\ spent = spending * n /\ taxed = taxes * n /\ earned = income * n
        /\ drawn = withdrawn * n /\ put = deposited * n
  OBVIOUS
<1>6. saved = put - drawn
  BY <1>2, <1>5
<1>7. PICK net \in Balances :
        /\ net = netWithdrawals(year) /\ TotalOf(net) = Positive(-saved)
        /\ \A type \in AccountType : net[type] \in 0..year.w[type]
  <2>1. -saved <= TotalOf(year.w)
    BY <1>4, <1>5, <1>6
  <2> QED BY <1>4, <1>5, <2>1, NetWithdrawalsAre
<1>8. PICK funded \in Nat : funded = Lesser(told, Positive(spent)) /\ funded <= spent
  BY DEF Lesser, Positive, Greater
<1>9. PICK bar : bar = toCashFlowRow(r, n, told)
  OBVIOUS
<1>10. /\ bar.salary = (IF r.retired THEN 0 ELSE earned) /\ bar.benefit = (IF r.retired THEN earned ELSE 0)
       /\ bar.drawn = net /\ bar.care = funded /\ bar.living = spent - funded /\ bar.tax = taxed
  BY <1>4, <1>5, <1>7, <1>8, <1>9 DEF toCashFlowRow
<1>11. MoneyIn(bar) = earned + Positive(-saved)
  <2>1. bar.salary + bar.benefit = earned
    BY <1>10
  <2> QED BY <1>7, <1>10, <2>1, PositiveNat DEF MoneyIn
<1>12. MoneyOut(bar) = spent + taxed
  BY <1>8, <1>10 DEF MoneyOut
<1>13. MoneyIn(bar) - MoneyOut(bar) - Positive(saved) = earned + drawn - taxed - put - spent
  BY <1>6, <1>11, <1>12 DEF Positive, Greater
<1>14. earned + drawn - taxed - put - spent \in -Tolerance * n..Tolerance * n
  <2>1. PICK off \in Int, tolerance \in Nat :
          /\ off = income + withdrawn - taxes - deposited - spending /\ tolerance = Tolerance
          /\ -tolerance <= off /\ off <= tolerance
    <3>1. Near(income + withdrawn, taxes + deposited + spending)
      BY <1>1, <1>2 DEF CashReconciles
    <3>2. Tolerance \in Nat
      BY RuleAssumption
    <3> QED BY <3>1, <3>2 DEF Near
  <2>2. off * n = earned + drawn - taxed - put - spent
    BY <1>5, <2>1
  <2>3. -tolerance * n <= off * n /\ off * n <= tolerance * n
    BY <2>1
  <2>4. -tolerance * n \in Int /\ tolerance * n \in Int /\ off * n \in Int
    OBVIOUS
  <2> QED BY <2>1, <2>2, <2>3, <2>4
<1>15. \A type \in AccountType : bar.drawn[type] \in 0..r.w[type] * n
  BY <1>4, <1>7, <1>10
<1>16. bar.living >= 0
  BY <1>8, <1>10
<1> QED BY <1>1, <1>2, <1>3, <1>5, <1>9, <1>13, <1>14, <1>15, <1>16

(* Past the cliff no credit is paid, whatever the income.                    *)
LEMMA CreditFollows ==
  ASSUME NEW list \in Nat, NEW x \in Nat, NEW y \in Nat,
         list = 0 \/ x = y \/ (x > SubsidyCliff /\ y > SubsidyCliff)
  PROVE  (IF x \in PovertyLevel..SubsidyCliff THEN Lesser(Share(x, CreditPercent), list) ELSE list)
           = IF y \in PovertyLevel..SubsidyCliff THEN Lesser(list, Share(y, CreditPercent)) ELSE list
<1> CreditPercent \in Nat
  BY RuleAssumption
<1>1. PICK credit \in Nat : credit = Share(x, CreditPercent)
  BY ShareNat
<1>2. PICK shown \in Nat : shown = Share(y, CreditPercent)
  BY ShareNat
<1>3. PICK poverty \in Nat, cliff \in Nat : poverty = PovertyLevel /\ cliff = SubsidyCliff
  BY PortfolioAssumption
<1>4. x = y => credit = shown
  BY <1>1, <1>2
<1>5. (IF x \in poverty..cliff THEN Lesser(credit, list) ELSE list)
        = IF y \in poverty..cliff THEN Lesser(list, shown) ELSE list
  BY <1>3, <1>4 DEF Lesser
<1> QED BY <1>1, <1>2, <1>3, <1>5

(* With a Roth that covers it, nothing beyond the band is drawn from          *)
(* traditional.                                                              *)
LEMMA RothCovers ==
  ASSUME NEW b \in Balances, NEW taxable \in Nat, NEW left \in Nat, NEW fits \in Nat,
         fits <= left, left <= b.roth
  PROVE  LET drawn == InOrder(b, taxable, left, fits)
         IN  drawn.taxable = taxable /\ drawn.traditional = Lesser(fits, b.traditional)
<1>1. PICK traditional \in Nat, roth \in Nat : traditional = b.traditional /\ roth = b.roth
  BY DEF Balances
<1>2. PICK capped \in Nat : capped = Lesser(fits, traditional) /\ capped <= fits /\ capped <= traditional
  BY DEF Lesser
<1>3. Lesser(left - capped, roth) = left - capped
  BY <1>1, <1>2 DEF Lesser
<1>4. capped + Lesser(left - capped - Lesser(left - capped, roth), traditional - capped) = capped
  BY <1>1, <1>2, <1>3 DEF Lesser
<1>5. PICK drawn : drawn = InOrder(b, taxable, left, fits)
  OBVIOUS
<1>6. /\ drawn.taxable = taxable
      /\ drawn.traditional = capped + Lesser(left - capped - Lesser(left - capped, roth), traditional - capped)
  BY <1>1, <1>2, <1>5 DEF InOrder
<1> QED BY <1>1, <1>2, <1>4, <1>5, <1>6

LEMMA LeastUnique ==
  ASSUME NEW S \in SUBSET Nat, NEW x \in S, \A t \in S : x <= t PROVE Least(S) = x
<1>1. PICK least \in S : least = Least(S) /\ \A t \in S : least <= t
  BY LeastIs
<1>2. least \in Nat /\ x \in Nat /\ least <= x /\ x <= least
  BY <1>1
<1> QED BY <1>1, <1>2

(* The band the page leaves open is the engine's, unless the premium does not *)
(* depend on it.                                                             *)
LEMMA BandFollows ==
  ASSUME NEW p \in Plans, NEW age \in Nat, age = p.retire, age < MedicareAge, p.magiAware,
         NEW left \in Nat, NEW traditional \in Nat, NEW gain \in Nat
  PROVE  LET ceiling == IF age + 1 < MedicareAge THEN SubsidyCliff ELSE Least(IrmaaBounds)
             priced == gain + Lesser(Fitting(p, left, age, gain), traditional)
             shown == gain + Lesser(Lesser(left, traditional), Positive(ceiling - CeilingMargin - gain))
         IN  p.preMedicarePremium = 0 \/ priced = shown \/ (priced > SubsidyCliff /\ shown > SubsidyCliff)
<1>1. PICK cliff \in Nat, margin \in Nat \ {0}, medicare \in Nat :
        cliff = SubsidyCliff /\ margin = CeilingMargin /\ medicare = MedicareAge
  BY PortfolioAssumption
<1>2. PICK lowest \in Nat :
        /\ lowest = Least(IrmaaBounds) /\ lowest \in IrmaaBounds /\ cliff + margin < lowest
        /\ \A b \in IrmaaBounds : lowest <= b
  BY <1>1, PortfolioAssumption, TierAssumption, LeastIs
<1>3. PICK fits \in Nat : fits = Fitting(p, left, age, gain) /\ fits <= left
  BY FittingIs
<1>4. PICK T \in SUBSET Nat : T = Thresholds(p, age, gain)
  BY ThresholdsNat
<1>5. T # {} => fits = Lesser(left, Greater(Least(T) - margin, gain) - gain)
  BY <1>1, <1>3, <1>4 DEF Fitting, Headroom
<1>6. T = {} => fits = left
  BY <1>3, <1>4 DEF Fitting
<1>7. p.preMedicarePremium \in Nat /\ p.medicarePremium \in Nat
  BY ProjectionAssumption DEF PlanType
<1> DEFINE Shown(ceiling) == Lesser(Lesser(left, traditional), Positive(ceiling - margin - gain))
<1>8. CASE age + 1 < medicare
  <2>1. CASE p.preMedicarePremium > 0 /\ gain <= cliff
    <3>1. cliff \in T
      BY <1>1, <1>4, <1>8, <2>1 DEF Thresholds
    <3>2. \A t \in T : cliff <= t
      BY <1>1, <1>2, <1>4 DEF Thresholds
    <3>3. Least(T) = cliff
      BY <3>1, <3>2, LeastUnique
    <3>4. fits = Lesser(left, Greater(cliff - margin, gain) - gain)
      BY <1>5, <3>1, <3>3
    <3>5. Lesser(fits, traditional) = Shown(cliff)
      BY <3>4 DEF Lesser, Greater, Positive
    <3> QED BY <1>1, <1>3, <1>8, <3>5
  <2>2. CASE gain > cliff
    <3>1. Lesser(fits, traditional) \in Nat /\ Shown(cliff) \in Nat
      BY DEF Lesser, Greater, Positive
    <3>2. gain + Lesser(fits, traditional) > cliff /\ gain + Shown(cliff) > cliff
      BY <2>2, <3>1
    <3> QED BY <1>1, <1>3, <1>8, <3>2
  <2> QED BY <1>7, <2>1, <2>2
<1>9. CASE ~(age + 1 < medicare)
  <2>1. T = IF p.medicarePremium > 0 THEN {b \in IrmaaBounds : gain <= b} ELSE {}
    BY <1>1, <1>4, <1>9 DEF Thresholds
  <2>2. CASE p.medicarePremium > 0 /\ gain <= lowest
    <3>1. lowest \in T /\ \A t \in T : lowest <= t
      BY <1>2, <2>1, <2>2
    <3>2. Least(T) = lowest
      BY <3>1, LeastUnique
    <3>3. fits = Lesser(left, Greater(lowest - margin, gain) - gain)
      BY <1>5, <3>1, <3>2
    <3>4. Lesser(fits, traditional) = Shown(lowest)
      BY <3>3 DEF Lesser, Greater, Positive
    <3> QED BY <1>1, <1>2, <1>3, <1>9, <3>4
  <2>3. CASE gain > lowest
    <3>1. Lesser(fits, traditional) \in Nat /\ Shown(lowest) \in Nat
      BY DEF Lesser, Greater, Positive
    <3>2. gain + Lesser(fits, traditional) > cliff /\ gain + Shown(lowest) > cliff
      BY <1>2, <2>3, <3>1
    <3> QED BY <1>1, <1>2, <1>3, <1>9, <3>2
  <2>4. CASE ~(p.medicarePremium > 0) /\ gain <= lowest
    <3>1. fits = left
      BY <1>6, <2>1, <2>4
    <3>2. \/ Lesser(fits, traditional) = Shown(lowest)
          \/ gain + Lesser(fits, traditional) > cliff /\ gain + Shown(lowest) > cliff
      BY <1>2, <3>1 DEF Lesser, Greater, Positive
    <3> QED BY <1>1, <1>2, <1>3, <1>9, <3>2
  <2> QED BY <2>2, <2>3, <2>4
<1> QED BY <1>8, <1>9

(* The page's estimate of the first retirement year is the engine's, unless   *)
(* the premium does not depend on it.                                        *)
LEMMA EstimateFollows ==
  ASSUME NEW p \in Plans, NEW a \in Accounts, NEW planned \in Nat, NEW age \in Nat,
         age = p.retire, age < MedicareAge, "taxable" \notin a.cash,
         a.balance.roth + a.balance.taxable >= planned,
         NEW prior \in MagiRecord, prior.total = prior.wages
  PROVE  LET priced == estimated_retirement_magi(p, prior, planned, 0, a, age)
             shown == estimatedFirstRetirementYearMagi(p, a, planned, age)
         IN  /\ priced \in Nat /\ shown \in Nat
             /\ p.preMedicarePremium = 0 \/ priced = shown \/ (priced > SubsidyCliff /\ shown > SubsidyCliff)
<1>1. PICK b \in Balances : b = a.balance
  BY DEF Accounts
<1>2. PICK inTaxable \in Nat, traditional \in Nat, roth \in Nat :
        inTaxable = b.taxable /\ traditional = b.traditional /\ roth = b.roth
  BY DEF Balances
<1>3. PICK taxable \in Nat : taxable = Lesser(planned, inTaxable) /\ taxable <= planned
  BY DEF Lesser
<1>4. PICK left \in Nat : left = planned - taxable /\ left <= roth /\ left <= planned
  BY <1>1, <1>2, <1>3 DEF Lesser
<1>5. PICK gain \in Nat : gain = Share(taxable, GainRatio)
  BY GainNat
<1>6. PICK fits \in Nat : fits = Fitting(p, left, age, gain) /\ fits <= left
  BY FittingIs
<1>7. PICK drawn :
        /\ drawn = apply_withdrawal_order(p, a, planned, age, 0)
        /\ drawn.taxable = taxable /\ drawn.traditional = Lesser(fits, traditional)
  <2>1. Positive(planned) = planned /\ 0 + gain = gain
    BY DEF Positive, Greater
  <2>2. apply_withdrawal_order(p, a, planned, age, 0) = InOrder(b, taxable, left, fits)
    BY <1>1, <1>2, <1>3, <1>4, <1>5, <1>6, <2>1 DEF apply_withdrawal_order
  <2>3. LET drawn == InOrder(b, taxable, left, fits)
        IN  drawn.taxable = taxable /\ drawn.traditional = Lesser(fits, b.traditional)
    BY <1>2, <1>4, <1>6, RothCovers
  <2> QED BY <1>2, <2>2, <2>3
<1>8. estimated_retirement_magi(p, prior, planned, 0, a, age) = gain + Lesser(fits, traditional)
  <2>1. Positive(prior.total - prior.wages) = 0 /\ planned - 0 = planned /\ 0 + 0 = 0
    BY DEF MagiRecord, Positive, Greater
  <2>2. TaxableGain(a, drawn) = gain
    BY <1>5, <1>7 DEF TaxableGain
  <2>3. estimated_retirement_magi(p, prior, planned, 0, a, age) = 0 + 0 + drawn.traditional + gain
    BY <1>7, <2>1, <2>2 DEF estimated_retirement_magi
  <2>4. Lesser(fits, traditional) \in Nat
    BY DEF Lesser
  <2> QED BY <1>7, <2>3, <2>4
<1>9. PICK ceiling \in Nat :
        ceiling = IF age + 1 < MedicareAge THEN SubsidyCliff ELSE Least(IrmaaBounds)
  BY PortfolioAssumption, TierAssumption, LeastIs
<1>10. PICK margin \in Nat : margin = CeilingMargin
  BY PortfolioAssumption
<1>11. estimatedFirstRetirementYearMagi(p, a, planned, age)
         = gain + Lesser(Lesser(left, traditional),
                         IF p.magiAware THEN Positive(ceiling - margin - gain) ELSE planned)
  BY <1>1, <1>2, <1>3, <1>4, <1>5, <1>9, <1>10 DEF estimatedFirstRetirementYearMagi
<1>12. /\ gain + Lesser(fits, traditional) \in Nat
       /\ gain + Lesser(Lesser(left, traditional), planned) \in Nat
       /\ gain + Lesser(Lesser(left, traditional), Positive(ceiling - margin - gain)) \in Nat
  BY DEF Lesser, Positive, Greater
<1>13. CASE p.magiAware
  <2>1. LET priced == gain + Lesser(fits, traditional)
            shown == gain + Lesser(Lesser(left, traditional), Positive(ceiling - margin - gain))
        IN  p.preMedicarePremium = 0 \/ priced = shown \/ (priced > SubsidyCliff /\ shown > SubsidyCliff)
    BY <1>6, <1>9, <1>10, <1>13, BandFollows
  <2> QED BY <1>8, <1>11, <1>12, <1>13, <2>1
<1>14. CASE ~p.magiAware
  <2>1. fits = left
    BY <1>6, <1>14 DEF Fitting
  <2>2. Lesser(Lesser(left, traditional), planned) = Lesser(left, traditional)
    BY <1>4 DEF Lesser
  <2> QED BY <1>8, <1>11, <1>12, <1>14, <2>1, <2>2
<1> QED BY <1>13, <1>14

(* The preview promises the premium the projection charges.                  *)
LEMMA PreviewFollows == ASSUME TypeOK PROVE PreviewWithRoth
<1> DEFINE planned == plan.living + plan.outOfPocket
<1> SUFFICES ASSUME FirstPriced, accounts.balance.roth + accounts.balance.taxable >= planned
             PROVE  firstYearHealthcare(plan, accounts) = EngineCost
  BY DEF PreviewWithRoth
<1>1. PICK p \in Plans, age \in Nat, n \in Nat :
        p = plan /\ age = Age /\ n = Year /\ age = p.start + n /\ age = Greater(p.start, p.retire)
  BY YearIs DEF FirstPriced
<1>2. /\ p.start \in Nat /\ p.retire \in Nat /\ planned \in Nat /\ p.outOfPocket \in Nat
      /\ p.preMedicarePremium \in Nat /\ p.medicarePremium \in Nat
  BY <1>1, PlanIs, ProjectionAssumption DEF PlanType
<1>3. n = Len(magi) /\ magi \in Seq(MagiRecord)
  BY <1>1 DEF Year, TypeOK, MagiRecord
<1>4. EngineCost = p.outOfPocket + Premium(p, magi, planned, 0, accounts, age)
  BY <1>1 DEF EngineCost
<1> HIDE DEF planned
<1>5. CASE p.start >= p.retire
  <2>1. n = 0
    BY <1>1, <1>2, <1>5 DEF Greater
  <2>2. Premium(p, magi, planned, 0, accounts, age)
          = IF age >= MedicareAge THEN p.medicarePremium ELSE p.preMedicarePremium
    BY <1>3, <2>1 DEF Premium
  <2>3. firstYearHealthcare(p, accounts)
          = p.outOfPocket + IF age >= MedicareAge THEN p.medicarePremium ELSE p.preMedicarePremium
    BY <1>1, <1>5 DEF firstYearHealthcare, healthcareCostFor
  <2> QED BY <1>1, <1>4, <2>2, <2>3
<1>6. CASE ~(p.start >= p.retire)
  <2>1. n > 0 /\ age = p.retire
    BY <1>1, <1>2, <1>6 DEF Greater
  <2>2. PICK prior \in MagiRecord :
          prior = magi[n] /\ prior.total = prior.wages /\ prior.wages > 0 /\ age < MedicareAge
    BY <1>1, <1>3, <2>1 DEF FirstPriced
  <2>3. /\ accounts \in Accounts /\ "taxable" \notin accounts.cash
        /\ accounts.balance.roth + accounts.balance.taxable >= planned
    BY DEF TypeOK, FirstPriced
  <2>4. PICK priced \in Nat, shown \in Nat :
          /\ priced = estimated_retirement_magi(p, prior, planned, 0, accounts, age)
          /\ shown = estimatedFirstRetirementYearMagi(p, accounts, planned, age)
          /\ p.preMedicarePremium = 0 \/ priced = shown \/ (priced > SubsidyCliff /\ shown > SubsidyCliff)
    <3>1. LET priced == estimated_retirement_magi(p, prior, planned, 0, accounts, age)
              shown == estimatedFirstRetirementYearMagi(p, accounts, planned, age)
          IN  /\ priced \in Nat /\ shown \in Nat
              /\ p.preMedicarePremium = 0 \/ priced = shown \/ (priced > SubsidyCliff /\ shown > SubsidyCliff)
      BY <1>2, <2>1, <2>2, <2>3, EstimateFollows
    <3> QED BY <3>1
  <2>5. ~(age >= MedicareAge)
    BY <2>2, PortfolioAssumption
  <2>6. Premium(p, magi, planned, 0, accounts, age)
          = IF priced \in PovertyLevel..SubsidyCliff
            THEN Lesser(Share(priced, CreditPercent), p.preMedicarePremium) ELSE p.preMedicarePremium
    <3>1. ~(magi[n].wages <= 0) /\ n >= 1
      BY <2>1, <2>2 DEF MagiRecord
    <3> QED BY <1>3, <2>2, <2>4, <2>5, <3>1 DEF Premium
  <2>7. firstYearHealthcare(p, accounts)
          = p.outOfPocket + (IF shown \in PovertyLevel..SubsidyCliff
                             THEN Lesser(p.preMedicarePremium, Share(shown, CreditPercent))
                             ELSE p.preMedicarePremium)
    <3>1. shown # NotTested
      BY DEF NotTested
    <3>2. firstYearHealthcare(p, accounts) = healthcareCostFor(p, age, shown)
      BY <1>1, <1>6, <2>4 DEF firstYearHealthcare, planned
    <3> QED BY <2>5, <3>1, <3>2 DEF healthcareCostFor, incomeTestedPremium
  <2>8. (IF priced \in PovertyLevel..SubsidyCliff
         THEN Lesser(Share(priced, CreditPercent), p.preMedicarePremium) ELSE p.preMedicarePremium)
          = IF shown \in PovertyLevel..SubsidyCliff
            THEN Lesser(p.preMedicarePremium, Share(shown, CreditPercent)) ELSE p.preMedicarePremium
    BY <1>2, <2>4, CreditFollows
  <2> QED BY <1>1, <1>4, <2>6, <2>7, <2>8
<1> QED BY <1>5, <1>6

(* The reports agree (cash-flow-data.ts, healthcare.ts): the chart of a year  *)
(* adds up and shows no negative band, and the premium the page previews for *)
(* a household with a Roth that covers the year is the one charged.          *)
THEOREM ReportsFollow == ASSUME TaxIsWhole, TaxIsOrderly PROVE Spec => []ReportsAgree
<1>1. PathInv /\ Balanced => ReportsAgree
  <2>1. PathInv => PreviewWithRoth
    BY PreviewFollows DEF PathInv
  <2>2. Balanced => ChartReconciles
    BY ChartFollows DEF Balanced
  <2> QED BY <2>1, <2>2 DEF ReportsAgree
<1> QED BY <1>1, PathIsSound, YearsBalance, PTL
=============================================================================
