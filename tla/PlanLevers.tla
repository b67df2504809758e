----------------------------- MODULE PlanLevers -----------------------------
(* The plan a person turns by hand, and the sensitivity curves drawn from   *)
(* it: the plan schema (domain/schemas.ts), the sliders' ranges and sweep   *)
(* values (domain/levers.ts), the scenarios of a sweep and their answers    *)
(* (services/simulation.ts), the bounds of one request                      *)
(* (lib/simulation-request.ts) and the fields and sliders that edit the     *)
(* plan.  Dollars are in thousands; growth rates are zero; what an engine   *)
(* answers is a function of the input it is sent, named by that input.      *)
EXTENDS Integers, Sequences, FiniteSetsExt

CONSTANTS Ages, Lifetimes, Wages, Multipliers,   \* bounds: what is typed in a field
          Stops,                                 \* bound: where a slider is dropped
          StoredSpendings, StoredRetirementAges  \* bounds: what a stored plan holds

VARIABLES turned,   \* usePlan's plan
          refused   \* the last edit was refused and the page says so

leverVars == <<turned, refused>>

MIN_RETIREMENT_AGE == 45
MAX_PLAN_DOLLARS == 1000000
MIN_SPENDING_BAND == 20
SWEEP_PATHS == 1000
MAX_BATCH_SIMULATIONS == 40
MAX_BATCH_TOTAL_PATHS == 40000

LeverKey == {"retirementAge", "spending", "socialSecurityClaimAge", "rothConversion"}

CONVERSION_STEPS ==
  <<[enabled |-> FALSE, ceiling |-> "bracket24"], [enabled |-> TRUE, ceiling |-> "bracket12"],
    [enabled |-> TRUE, ceiling |-> "irmaaTier"],  [enabled |-> TRUE, ceiling |-> "bracket22"],
    [enabled |-> TRUE, ceiling |-> "bracket24"],  [enabled |-> TRUE, ceiling |-> "bracket32"]>>

(* The position of a plan's policy; a disabled policy reads as off whatever *)
(* its ceiling.                                                             *)
conversionStepOf(p) ==
  IF ~p.rothConversion.enabled THEN 0
  ELSE (CHOOSE i \in DOMAIN CONVERSION_STEPS : CONVERSION_STEPS[i] = p.rothConversion) - 1

----------------------------------------------------------------------------
(* What the schemas accept. *)

ValidPlan(p) ==
  /\ p.age \in 18 .. 100
  /\ p.retirementAge \in MIN_RETIREMENT_AGE .. 100
  /\ p.currentSalary \in 0 .. MAX_PLAN_DOLLARS
  /\ p.currentSpending \in 0 .. MAX_PLAN_DOLLARS
  /\ p.retirementSpendingMultiplier \in 0 .. 1000
  /\ p.lifeExpectancy \in 65 .. 120
  /\ p.lifeExpectancy > p.age /\ p.lifeExpectancy > p.retirementAge
  /\ p.claimAge \in 62 .. 70

retirementSpending(p) == p.currentSpending * p.retirementSpendingMultiplier

(* The engine's input: the multiplier resolved into dollars.  Nothing else  *)
(* of a plan is dropped that two scenarios of one sweep could differ in.    *)
toSimulationPlan(p) ==
  [f \in (DOMAIN p \ {"retirementSpendingMultiplier"}) \cup {"retirementSpending"} |->
    IF f = "retirementSpending" THEN retirementSpending(p) ELSE p[f]]

simulationPlanSchema(p) == ValidPlan(p) /\ retirementSpending(p) <= 100 * MAX_PLAN_DOLLARS

----------------------------------------------------------------------------
(* The levers. *)

Lever(k, p) ==
  CASE k = "retirementAge" -> p.retirementAge
    [] k = "spending" -> p.currentSpending
    [] k = "socialSecurityClaimAge" -> p.claimAge
    [] k = "rothConversion" -> conversionStepOf(p)

(* The plan with one lever at another value. *)
With(k, v, p) ==
  CASE k = "retirementAge" -> [p EXCEPT !.retirementAge = v]
    [] k = "spending" -> [p EXCEPT !.currentSpending = v]
    [] k = "socialSecurityClaimAge" -> [p EXCEPT !.claimAge = v]
    [] k = "rothConversion" -> [p EXCEPT !.rothConversion = CONVERSION_STEPS[v + 1]]

Down(v, tick) == (v \div tick) * tick
Up(v, tick) == ((v + tick - 1) \div tick) * tick

(* A quarter to all of the salary, in whole multiples up to the spending.   *)
spendingAxisRange(p) ==
  LET salary == Max({p.currentSalary, MIN_SPENDING_BAND})
      bottom == Max({MIN_SPENDING_BAND, Down(salary + 40, 80) \div 4})
      bandTop == Max({bottom + MIN_SPENDING_BAND, Up(salary, 20)})
  IN [low |-> bottom, high |-> Max({bandTop, Up(p.currentSpending, bandTop)})]

base(k, p) ==
  CASE k = "retirementAge" -> [low |-> MIN_RETIREMENT_AGE, high |-> 70]
    [] k = "spending" -> spendingAxisRange(p)
    [] k = "socialSecurityClaimAge" -> [low |-> 62, high |-> 70]
    [] k = "rothConversion" -> [low |-> 0, high |-> Len(CONVERSION_STEPS) - 1]

bounds(k, p) ==
  CASE k = "retirementAge" ->
         [low |-> MIN_RETIREMENT_AGE, high |-> Min({100, p.lifeExpectancy - 1})]
    [] k = "spending" -> [low |-> 0, high |-> MAX_PLAN_DOLLARS]
    [] OTHER -> base(k, p)

tickStep == [retirementAge |-> 5, spending |-> 20, socialSecurityClaimAge |-> 2, rothConversion |-> 1]
sweepStep == [retirementAge |-> 5, spending |-> 10, socialSecurityClaimAge |-> 2, rothConversion |-> 1]
maxSweepValues == [retirementAge |-> 8, spending |-> 14, socialSecurityClaimAge |-> 7, rothConversion |-> 6]

(* What a step is doubled by, up to what the widest track needs. *)
Doublings == {1, 2, 4, 8, 16, 32, 64, 128, 256, 512, 1024, 2048, 4096, 8192}

(* The multiples of the step, doubled until at most maxCount fit.           *)
multiplesWithin(min, max, step, maxCount) ==
  LET spacing == step * Min({d \in Doublings : max - min <= (maxCount - 1) * (step * d)})
  IN {spacing * i : i \in Up(min, spacing) \div spacing .. max \div spacing}

(* The slider's track and the values its curve is computed at.              *)
leverRange(k, p) ==
  LET limit == bounds(k, p)
      axis == base(k, p)
      current == Lever(k, p)
      min == Max({limit.low, Min({axis.low, Down(current, tickStep[k])})})
      max == Max({min, Min({limit.high, Max({axis.high, Up(current, tickStep[k])})})})
  IN [min |-> min, max |-> max,
      sweepValues |-> multiplesWithin(min, max, sweepStep[k], maxSweepValues[k])
        \cup (IF k # "spending" /\ current \in min .. max THEN {current} ELSE {})]

----------------------------------------------------------------------------
(* One sweep of all the curves. *)

sweptValues(k, p) ==
  IF k = "socialSecurityClaimAge" /\ (~p.ssEnabled \/ p.manualOverride)
    THEN {p.claimAge} ELSE leverRange(k, p).sweepValues

(* As scenarioId, without the lever's name. *)
scenarioId_ValueOnly(k, v) == <<v>>

scenarioId(k, v) == <<k, v>>

scenarios(p) ==
  UNION {{[id |-> scenarioId(k, v), plan |-> With(k, v, p)] : v \in sweptValues(k, p)} : k \in LeverKey}

(* One group for each input the engine would be sent. *)
distinctScenarios(all) ==
  LET input == [s \in all |-> toSimulationPlan(s.plan)]
  IN {{s \in all : input[s] = i} : i \in {input[s] : s \in all}}

(* What the adapters computed for the dispatched scenarios: an answer each, *)
(* but for those the service left out.                                      *)
runDistinctScenarios(dispatched, omitted) ==
  [id \in {s.id : s \in dispatched} \ omitted |->
    toSimulationPlan((CHOOSE s \in dispatched : s.id = id).plan)]

Failed == <<>>   \* no answer for any scenario

(* Every scenario gets the answer of the one its group dispatched.          *)
runScenarios(groups, omitted) ==
  LET first == [g \in groups |-> (CHOOSE s \in g : TRUE).id]
      computed == runDistinctScenarios({CHOOSE s \in g : TRUE : g \in groups}, omitted)
  IN IF \E g \in groups : first[g] \notin DOMAIN computed THEN Failed
     ELSE [id \in {s.id : s \in UNION groups} |->
            computed[first[CHOOSE g \in groups : \E s \in g : s.id = id]]]

(* The four curves, as sets of points, or the failure of the sweep.         *)
runSensitivityAnalyses(p, omitted) ==
  LET results == runScenarios(distinctScenarios(scenarios(p)), omitted)
  IN IF results = Failed THEN Failed
     ELSE [k \in LeverKey |->
            {[x |-> v, result |-> results[scenarioId(k, v)]] : v \in sweptValues(k, p)}]

----------------------------------------------------------------------------
(* The page. *)

StoredPlans ==
  {p \in [age : Ages, lifeExpectancy : Lifetimes, retirementAge : StoredRetirementAges,
          currentSalary : Wages, currentSpending : StoredSpendings,
          retirementSpendingMultiplier : {100}, claimAge : {67},
          ssEnabled : {TRUE}, manualOverride : {FALSE},
          rothConversion : {CONVERSION_STEPS[1]}] : ValidPlan(p)}

Unloaded == [loaded |-> FALSE]   \* the default plan, which is never on screen

LeversInit == turned = Unloaded /\ refused = FALSE

(* The bootstrap that ends shows what is stored, and opens the gate.        *)
Load == turned = Unloaded /\ turned' \in StoredPlans /\ UNCHANGED refused

(* An edit the schema refuses leaves the plan as it was. *)
updatePlan(candidate) ==
  IF ValidPlan(candidate) THEN turned' = candidate /\ refused' = FALSE
                          ELSE turned' = turned /\ refused' = TRUE

(* Where a handle is dropped: an end of its track or a stop on it. *)
Positions(k) ==
  LET r == leverRange(k, turned) IN {r.min, r.max} \cup (Stops \cap r.min .. r.max)

Drag(k, v) == updatePlan(With(k, v, turned))

EditAge == \E a \in Ages : updatePlan([turned EXCEPT !.age = a])
EditLifeExpectancy == \E a \in Lifetimes : updatePlan([turned EXCEPT !.lifeExpectancy = a])
EditWages == \E w \in Wages : updatePlan([turned EXCEPT !.currentSalary = w])
EditMultiplier == \E m \in Multipliers : updatePlan([turned EXCEPT !.retirementSpendingMultiplier = m])
IncludeBenefits == \E b \in BOOLEAN : updatePlan([turned EXCEPT !.ssEnabled = b])
BenefitSource == \E b \in BOOLEAN : updatePlan([turned EXCEPT !.manualOverride = b])

Turn ==
  /\ turned # Unloaded
  /\ \/ \E k \in LeverKey : \E v \in Positions(k) : Drag(k, v)
     \/ EditAge \/ EditLifeExpectancy \/ EditWages \/ EditMultiplier
     \/ IncludeBenefits \/ BenefitSource

LeversNext == Load \/ Turn

LeversSpec == LeversInit /\ [][LeversNext]_leverVars

----------------------------------------------------------------------------
(* The sweep of any plan the page can hold is one the service accepts:      *)
(* every scenario passes the schemas, as long as retirement spends no more  *)
(* than work did, and the whole batch stays inside one request.             *)
SweepAccepted ==
  LET all == scenarios(turned)
      dispatched == Cardinality(distinctScenarios(all))
  IN /\ \A s \in all : ValidPlan(s.plan)
     /\ turned.retirementSpendingMultiplier <= 100 => \A s \in all : simulationPlanSchema(s.plan)
     /\ dispatched <= MAX_BATCH_SIMULATIONS
     /\ SWEEP_PATHS * dispatched <= MAX_BATCH_TOTAL_PATHS

(* However the batch was grouped and whatever the service left out, a curve *)
(* is drawn only of the answers to its own lever at its own values, and a   *)
(* sweep that lost an answer fails as a whole.                              *)
CurvesAnswerTheirPlan ==
  \A omitted \in {{}, {scenarioId(k, Lever(k, turned)) : k \in LeverKey}} :
    LET curves == runSensitivityAnalyses(turned, omitted)
    IN curves # Failed =>
         \A k \in LeverKey : \A point \in curves[k] :
           point.result = toSimulationPlan(With(k, point.x, turned))

(* A handle dropped anywhere on its track stays there: the edit is accepted *)
(* and the track does not grow under it, so dragging cannot walk a lever    *)
(* past the end it was drawn with.                                          *)
DragHolds ==
  \A k \in LeverKey : \A v \in Positions(k) :
    LET dragged == With(k, v, turned)
        track == leverRange(k, turned)
    IN /\ ValidPlan(dragged) /\ Lever(k, dragged) = v
       /\ leverRange(k, dragged).min >= track.min
       /\ leverRange(k, dragged).max <= track.max

(* Of a plan on screen, the service accepts every sweep, a curve holds      *)
(* answers to its own scenarios only, and a handle stays where it is        *)
(* dropped.                                                                 *)
LeversHold == turned # Unloaded => SweepAccepted /\ CurvesAnswerTheirPlan /\ DragHolds
=============================================================================
