----------------------------- MODULE Portfolio ------------------------------
(* A household's account buckets and the order in which money leaves them:   *)
(* simulation/projection.rs with the thresholds of healthcare_premiums.rs.   *)
(* Money is in whole dollars; a share of it is rounded down.                 *)
EXTENDS Integers

CONSTANTS
  GainRatio,          \* percent of a taxable withdrawal that is realized gain
  MedicareAge,
  PovertyLevel,       \* MAGI under which no marketplace credit is paid
  SubsidyCliff,       \* MAGI above which none is paid
  IrmaaBounds,        \* MAGI bounds of the Medicare surcharge tiers
  CeilingMargin       \* how far under a threshold the order aims

ASSUME PortfolioAssumption ==
  /\ GainRatio \in 0..100
  /\ MedicareAge \in Nat /\ PovertyLevel \in Nat /\ SubsidyCliff \in Nat
  /\ IrmaaBounds \subseteq Nat
  /\ CeilingMargin \in Nat \ {0}

AccountType == {"taxable", "traditional", "roth", "hsa"}
Balances == [taxable : Nat, traditional : Nat, roth : Nat, hsa : Nat]

(* held: the types with a bucket; cash: the buckets opened when there was no *)
(* portfolio to copy the blend of, which therefore never earn anything.      *)
Accounts == [balance : Balances, held : SUBSET AccountType, cash : SUBSET AccountType]

Lesser(x, y) == IF x < y THEN x ELSE y
Greater(x, y) == IF x > y THEN x ELSE y
Positive(x) == Greater(x, 0)
Share(x, percent) == (x * percent) \div 100

TotalOf(b) == b.taxable + b.traditional + b.roth + b.hsa
Least(S) == CHOOSE x \in S : \A y \in S : x <= y

Nothing == [taxable |-> 0, traditional |-> 0, roth |-> 0, hsa |-> 0]
Plus(a, b) ==
  [taxable |-> a.taxable + b.taxable, traditional |-> a.traditional + b.traditional,
   roth |-> a.roth + b.roth, hsa |-> a.hsa + b.hsa]

-----------------------------------------------------------------------------

(* A bug of the kind a later edit could bring in: a deposit that needs the   *)
(* household to hold an account of its type already.                         *)
deposit_to_bucket_NeedsAccount(a, type, amount) ==
  IF type \in a.held THEN [a EXCEPT !.balance[type] = @ + amount] ELSE a

(* A deposit opens the bucket when the household holds none of its type.     *)
deposit_to_bucket(a, type, amount) ==
  IF amount <= 0 THEN a
  ELSE [balance |-> [a.balance EXCEPT ![type] = @ + amount],
        held    |-> a.held \cup {type},
        cash    |-> IF type \notin a.held /\ TotalOf(a.balance) = 0
                    THEN a.cash \cup {type} ELSE a.cash]

draw_from_bucket(a, type, amount) ==
  [a EXCEPT !.balance[type] = @ - Lesser(Positive(amount), @)]

-----------------------------------------------------------------------------

(* The thresholds a later premium is tested against that this year's MAGI    *)
(* has not passed already: next year's marketplace credit, and the surcharge *)
(* two years on. Only retired years are priced, and only what has a premium. *)
Thresholds(plan, age, committed) ==
  (IF /\ age + 1 < MedicareAge /\ age + 1 >= plan.retire
      /\ plan.preMedicarePremium > 0 /\ committed <= SubsidyCliff
   THEN {SubsidyCliff} ELSE {})
  \cup
  (IF age + 2 >= MedicareAge /\ age + 2 >= plan.retire /\ plan.medicarePremium > 0
   THEN {b \in IrmaaBounds : committed <= b} ELSE {})

(* How much ordinary income still fits under the nearest of them.            *)
Headroom(plan, age, committed) ==
  Greater(Least(Thresholds(plan, age, committed)) - CeilingMargin, committed) - committed

Fitting(plan, left, age, committed) ==
  IF plan.magiAware /\ Thresholds(plan, age, committed) # {}
  THEN Lesser(left, Headroom(plan, age, committed)) ELSE left

(* After taxable: traditional as far as it fits, roth, traditional beyond,   *)
(* hsa last. The ceiling yields where nothing else can pay.                  *)
InOrder(b, taxable, left, fits) ==
  LET capped == Lesser(fits, b.traditional)
      roth == Lesser(left - capped, b.roth)
      over == Lesser(left - capped - roth, b.traditional - capped)
  IN  [taxable |-> taxable, traditional |-> capped + over, roth |-> roth,
       hsa |-> Lesser(left - capped - roth - over, b.hsa)]

(* A bug: the band is read before the taxable leg, without the gain it       *)
(* realizes.                                                                 *)
apply_withdrawal_order_BandFirst(plan, a, amount, age, committed) ==
  LET taxable == Lesser(Positive(amount), a.balance.taxable)
      left == Positive(amount) - taxable
  IN  InOrder(a.balance, taxable, left, Fitting(plan, left, age, committed))

(* What a draw of amount takes from each bucket; committed is the income the *)
(* year reports whatever the draw is made of.                                *)
apply_withdrawal_order(plan, a, amount, age, committed) ==
  LET taxable == Lesser(Positive(amount), a.balance.taxable)
      left == Positive(amount) - taxable
  IN  InOrder(a.balance, taxable, left,
              Fitting(plan, left, age, committed + Share(taxable, GainRatio)))

(* The gain a draw realizes: surplus cash was never invested.                *)
TaxableGain(a, drawn) ==
  IF "taxable" \in a.cash THEN 0 ELSE Share(drawn.taxable, GainRatio)

Less(b, drawn) ==
  [taxable |-> b.taxable - drawn.taxable, traditional |-> b.traditional - drawn.traditional,
   roth |-> b.roth - drawn.roth, hsa |-> b.hsa - drawn.hsa]
=============================================================================
