----------------------------- MODULE Hydration ------------------------------
(* Plans that other versions of the app have stored, and what becomes of     *)
(* them: hydratePlan of usePlan.ts when a plan is loaded, the legacy schema  *)
(* of schemas.ts when an old bundle saves to the cloud or asks for a         *)
(* simulation, and the date arithmetic of age.ts. A date is a year and a day *)
(* of the year; growth rates are zero.                                       *)
EXTENDS Integers

CONSTANTS
  Absent,         \* a field the payload does not have
  LastDay,        \* days of a year
  ThisYear, ThisDay, \* the day the app is started
  DefaultAge,     \* age of the default plan
  LegacyAge,      \* age assumed for a payload that has none
  DefaultSpending, DefaultPremium,
  MaxMultiplier,  \* percent
  LegacyPayloads, \* what old bundles store
  Edits           \* changes a person makes to a plan

Dates == [year : Int, day : 1 .. LastDay]

(* A value of each field of a plan, as this version stores it.               *)
Kinds == [birthDate |-> Dates, asOf |-> Dates, current |-> Nat, multiplier |-> Nat,
          premium |-> Nat, care |-> BOOLEAN, hsa |-> BOOLEAN, backdoor |-> BOOLEAN]

ASSUME CalendarAssumption ==
  /\ LastDay \in Nat /\ ThisYear \in Int /\ ThisDay \in 1 .. LastDay
  /\ DefaultAge \in 18 .. 100 /\ LegacyAge \in Nat
  /\ DefaultSpending \in Nat /\ DefaultPremium \in Nat
  /\ MaxMultiplier \in Nat /\ MaxMultiplier >= 100
  /\ \A e \in Edits : \A field \in DOMAIN e \cap DOMAIN Kinds : e[field] \in Kinds[field]

Today == [year |-> ThisYear, day |-> ThisDay]

Or(value, default) == IF value # Absent THEN value ELSE default

ageOn(birthDate, asOf) ==
  asOf.year - birthDate.year - (IF asOf.day >= birthDate.day THEN 0 ELSE 1)

(* A bug: the first of January, whether or not the birthday has passed.      *)
birthDateFromLegacyAge_January(age, birthYear, asOf) ==
  [year |-> Or(birthYear, asOf.year - age), day |-> 1]

(* A calendar difference other than the age says that the birthday is ahead. *)
birthDateFromLegacyAge(age, birthYear, asOf) ==
  LET year == Or(birthYear, asOf.year - age)
  IN  [year |-> year, day |-> IF asOf.year - year = age THEN 1 ELSE LastDay]

retirementSpendingOf(plan) == (plan.current * plan.multiplier) \div 100

(* userProfileSchema, as far as these fields can break it.                   *)
Valid(plan) ==
  /\ ageOn(plan.birthDate, plan.asOf) \in 18..100
  /\ plan.current >= 0 /\ plan.multiplier \in 0..MaxMultiplier

DefaultPlan ==
  [birthDate |-> [year |-> Today.year - DefaultAge, day |-> 1], asOf |-> Today,
   current |-> DefaultSpending, multiplier |-> 100, premium |-> DefaultPremium, care |-> TRUE,
   hsa |-> FALSE, backdoor |-> TRUE]

Empty == [birthDate |-> Absent, age |-> Absent, birthYear |-> Absent, asOf |-> Absent,
          current |-> Absent, desired |-> Absent, retirement |-> Absent,
          multiplier |-> Absent, premium |-> Absent, care |-> Absent,
          hsa |-> Absent, backdoor |-> Absent, contributions |-> Absent]

(* What this version stores of a plan: the fields of its own schema and no   *)
(* other; and what any payload looks like to a reader.                       *)
Written(plan) ==
  [field \in DOMAIN Empty |-> IF field \in DOMAIN plan THEN plan[field] ELSE Absent]

Payloads ==
  [birthDate : Dates \cup {Absent}, age : Nat \cup {Absent}, birthYear : Int \cup {Absent},
   asOf : Dates \cup {Absent}, current : Nat \cup {Absent}, desired : Nat \cup {Absent},
   retirement : Nat \cup {Absent}, multiplier : Nat \cup {Absent},
   premium : Nat \cup {Absent}, care : BOOLEAN \cup {Absent}, hsa : BOOLEAN \cup {Absent},
   backdoor : BOOLEAN \cup {Absent}, contributions : [hsa : Nat, roth : Nat] \cup {Absent}]

(* What an old bundle stored: its date; an age or a birth date, and a birth  *)
(* year that agrees with the age; an HSA target or the flag that came after  *)
(* it; amounts instead of a multiplier, in the model a whole percent of each *)
(* other.                                                                    *)
FromOldBundle(p) ==
  /\ p \in Payloads /\ p.asOf # Absent /\ p.multiplier = Absent
  /\ p.age # Absent =>
       p.birthDate = Absent /\ Or(p.birthYear, p.asOf.year - p.age) + p.age - p.asOf.year \in {-1, 0}
  /\ p.contributions # Absent => p.hsa = Absent
  /\ LET working == Or(p.current, Or(p.desired, 0))
     IN  working > 0 => (Or(p.retirement, Or(p.desired, working)) * 100) % working = 0

ASSUME PayloadAssumption ==
  /\ Absent \notin Int \cup BOOLEAN \cup Dates \cup [hsa : Nat, roth : Nat]
  /\ \A p \in LegacyPayloads : FromOldBundle(Written(p))

-----------------------------------------------------------------------------
(* The two migrations.                                                       *)

Percent(target, working) == (target * 100) \div working

(* Savings had a target per account once; a target above zero is evidence of *)
(* the space, which is all the flags record.                                 *)
HsaOf(p) == Or(p.hsa, p.contributions # Absent /\ p.contributions.hsa > 0)
BackdoorOf(p) == Or(p.backdoor, p.contributions = Absent \/ p.contributions.roth > 0)

(* A loaded payload: what is absent comes from the default plan, but for the *)
(* birth date, which comes from an assumed age.                              *)
hydratePlan(p) ==
  LET asOf == Or(p.asOf, Today)
      working == Or(p.current, p.desired)
      target == Or(p.retirement, p.desired)
      legacy == IF target # Absent /\ working # Absent /\ working # 0
                THEN Percent(target, working) ELSE DefaultPlan.multiplier
  IN  [birthDate |-> Or(p.birthDate, birthDateFromLegacyAge(Or(p.age, LegacyAge), p.birthYear, asOf)),
       asOf |-> asOf, current |-> Or(working, DefaultSpending),
       multiplier |-> Or(p.multiplier, legacy),
       premium |-> Or(p.premium, DefaultPremium), care |-> Or(p.care, TRUE),
       hsa |-> HsaOf(p), backdoor |-> BackdoorOf(p)]

(* A payload an old bundle sends: it priced no healthcare, so none is added; *)
(* its assumptions are checked as they are.                                  *)
legacyStoredProfile(p) ==
  LET working == Or(p.current, Or(p.desired, 0))
      target == Or(p.retirement, Or(p.desired, working))
  IN  [birthDate |-> Or(p.birthDate, birthDateFromLegacyAge(Or(p.age, LegacyAge), p.birthYear, p.asOf)),
       asOf |-> p.asOf, current |-> working,
       multiplier |-> IF working > 0 THEN Percent(target, working) ELSE 100,
       premium |-> Or(p.premium, 0), care |-> Or(p.care, TRUE),
       hsa |-> p.hsa, backdoor |-> p.backdoor]

(* The same payload sent to the engine: the target stays in dollars.         *)
legacySimulationSpending(p) == Or(p.retirement, Or(p.desired, Or(p.current, 0)))

-----------------------------------------------------------------------------

VARIABLES
  loaded,   \* the plan in the store
  mode,     \* where it was loaded from
  browser,  \* the payload in localStorage and the origin marked there
  cloud,    \* the payload in the profile row
  source    \* the legacy payload the plan on screen was made from, unedited

payloadVars == <<loaded, mode, browser, cloud, source>>

NoPayload == [profile |-> Empty, origin |-> "none", legacy |-> Absent]

PayloadInit ==
  /\ loaded = DefaultPlan /\ mode = "starting" /\ source = Absent
  /\ browser = NoPayload /\ cloud = NoPayload

Loaded(stored) == IF stored.origin = "starter" THEN DefaultPlan ELSE hydratePlan(stored.profile)

(* A plan that is loaded is written back as this version writes it; one that *)
(* cannot be loaded is replaced on screen and left as it is in the browser.  *)
LoadBrowser ==
  /\ mode' = IF Valid(Loaded(browser)) THEN "browser" ELSE "refused"
  /\ loaded' = IF Valid(Loaded(browser)) THEN Loaded(browser) ELSE DefaultPlan
  /\ source' = IF Valid(Loaded(browser)) THEN browser.legacy ELSE Absent
  /\ browser' = IF Valid(Loaded(browser))
                THEN [browser EXCEPT !.profile = Written(Loaded(browser)),
                        !.origin = IF @ = "none" THEN "starter" ELSE @]
                ELSE browser
  /\ UNCHANGED cloud

(* A cloud plan that does not validate leaves the session to the browser.    *)
LoadCloud ==
  /\ Valid(Loaded(cloud))
  /\ mode' = "cloud" /\ loaded' = Loaded(cloud) /\ source' = cloud.legacy
  /\ browser' = [profile |-> Written(Loaded(cloud)), origin |-> "user", legacy |-> cloud.legacy]
  /\ UNCHANGED cloud

(* updatePlan, and in cloud mode the flush that follows it.                  *)
Edit(e) ==
  LET candidate == [field \in DOMAIN loaded |-> IF field \in DOMAIN e THEN e[field] ELSE loaded[field]]
      stored == [profile |-> Written(candidate), origin |-> "user", legacy |-> Absent]
  IN  /\ mode # "starting" /\ candidate # loaded /\ Valid(candidate)
      /\ loaded' = candidate /\ source' = Absent
      /\ browser' = stored
      /\ cloud' = IF mode = "cloud" THEN stored ELSE cloud
      /\ UNCHANGED mode

(* An old bundle, still open in another tab or served mid-rollout, writes    *)
(* the browser as it always has, and the cloud through today's route.        *)
OldBundleStores(p) ==
  /\ browser' = [profile |-> p, origin |-> "user", legacy |-> p]
  /\ UNCHANGED <<loaded, mode, cloud, source>>

OldBundleSaves(p) ==
  /\ Absent \notin {p.hsa, p.backdoor} /\ Valid(legacyStoredProfile(p))
  /\ cloud' = [profile |-> Written(legacyStoredProfile(p)), origin |-> "user", legacy |-> p]
  /\ UNCHANGED <<loaded, mode, browser, source>>

PayloadNext ==
  \/ LoadBrowser \/ LoadCloud
  \/ \E e \in Edits : Edit(e)
  \/ \E p \in LegacyPayloads : OldBundleStores(Written(p)) \/ OldBundleSaves(Written(p))

PayloadSpec == PayloadInit /\ [][PayloadNext]_payloadVars

-----------------------------------------------------------------------------

(* The plan on screen is the one that is stored: nothing this version wrote  *)
(* reads back as another plan, whatever was migrated on the way in and       *)
(* whichever fields were edited since (usePlan.ts 225, "so the resulting     *)
(* plan projects identically"). A starter plan is excepted, see below.       *)
ReadsBack ==
  /\ mode \in {"browser", "cloud"} /\ browser.origin # "starter"
     /\ browser.profile = Written(loaded) => Loaded(browser) = loaded
  /\ mode = "cloud" /\ cloud.profile = Written(loaded) => Loaded(cloud) = loaded

(* The age and the target of a payload that can be kept: a target needs a    *)
(* working figure to be a ratio of, and on the last day of a year no         *)
(* birthday is ahead.                                                        *)
HasRatio(p) == Or(p.current, Or(p.desired, 0)) > 0
HasAge(p) == p.age # Absent /\ (p.birthYear = Absent \/ p.asOf.day < LastDay)

(* A migrated plan has the age and the retirement spending its old bundle    *)
(* stored, on both ways in, and the spending is what the engine is given     *)
(* when the old bundle asks for the simulation itself (age.ts 31, "so        *)
(* results don't shift"; schemas.ts 160-161). A target it had for an HSA is  *)
(* still an HSA the plan may use (usePlan.ts 320).                           *)
Keeps(plan, legacy) ==
  /\ HasAge(legacy) => ageOn(plan.birthDate, plan.asOf) = legacy.age
  /\ legacy.contributions # Absent => plan.hsa = (legacy.contributions.hsa > 0)
  /\ HasRatio(legacy) => retirementSpendingOf(plan) = legacySimulationSpending(legacy)

LegacyPlanKept == source # Absent => Keeps(loaded, source)

(* What is stored reads back as it was, and a migrated plan keeps its age    *)
(* and its retirement spending (usePlan.ts, schemas.ts, age.ts).             *)
ReloadKeepsPlan == ReadsBack /\ LegacyPlanKept

(* What hydratePlan's comment says of a browser that has stored nothing      *)
(* (usePlan.ts:226): what is absent falls back to the default plan, which is *)
(* also what the next load of an untouched starter plan shows.               *)
FirstVisitKept == mode = "browser" /\ browser.origin = "starter" => loaded = DefaultPlan
=============================================================================
