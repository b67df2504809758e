---------------------------- MODULE SimPipeline ----------------------------
(***************************************************************************)
(* The simulation pipeline of one page: the debounce timer, the generation  *)
(* counters and the abort controller of src/apps/web/src/state/usePlan.ts,   *)
(* the server-then-local fallback of services/simulation.ts, and the Worker  *)
(* run of engine/mc.ts, which an abort terminates.                          *)
(*                                                                         *)
(* A plan is abstracted to its object identity and to whether               *)
(* retirementPlanSchema accepts it; a run's result is the plan and engine it *)
(* was computed for.  A signal is aborted when its controller is no longer   *)
(* the active one.                                                          *)
(***************************************************************************)
EXTENDS Integers

CONSTANTS
  MaxInvalidations,  \* bound: changes of the plan or of the engine preference
  MaxBootstraps      \* bound: bootstraps started

VARIABLES
  plan,              \* PlanState.plan
  useServer,         \* useServerSideCalculations
  account,           \* authUser # null and cloudAccountReady
  bootstrapping,     \* ~bootstrapped: the page shows "Loading"
  bootstraps,        \* bound: bootstraps started
  planPage,          \* the Plan page is mounted
  timers,            \* armed simulation timeouts
  controller,        \* activeSimulationController
  mainGen,           \* mainSimGeneration
  sweepGen,          \* sensitivitySimGeneration
  mainRuns,          \* runMainSimulation calls suspended in their await
  sweepRuns,         \* runSensitivityAnalyses calls suspended in theirs
  result,            \* simulationResult
  resultPlan,        \* simulationPlan
  error,             \* simulationError # null
  curves,            \* the four analysis results, of one batch
  isSimulatingMain, isSimulatingSensitivities,
  simulationPending, sensitivityPending

storeVars == <<plan, useServer, account, bootstrapping, bootstraps, planPage>>
mainVars == <<mainGen, mainRuns, result, resultPlan, error, isSimulatingMain,
              simulationPending>>
sweepVars == <<sweepGen, sweepRuns, curves, isSimulatingSensitivities,
               sensitivityPending>>
vars == <<storeVars, timers, controller, mainVars, sweepVars>>

-----------------------------------------------------------------------------

Plan == [id : Nat, valid : BOOLEAN]
None == [id |-> -1, valid |-> FALSE]

(* Only a run of a registered account ever waits for the server. *)
Run == {r \in [gen : Nat, plan : Plan, signal : Nat, cloud : BOOLEAN,
               at : {"server", "local", "answered", "failed"}] :
          r.at = "server" => r.cloud}

Outcome == [plan : Plan, cloud : BOOLEAN]
NoOutcome == [plan |-> None, cloud |-> FALSE]

TypeOK ==
  /\ plan \in Plan
  /\ useServer \in BOOLEAN /\ account \in BOOLEAN
  /\ bootstrapping \in BOOLEAN /\ bootstraps \in Nat /\ planPage \in BOOLEAN
  /\ timers \in Nat /\ controller \in Nat
  /\ mainGen \in Nat /\ sweepGen \in Nat
  /\ mainRuns \subseteq Run /\ sweepRuns \subseteq Run
  /\ result \in Outcome \cup {NoOutcome}
  /\ resultPlan \in Plan \cup {None}
  /\ error \in BOOLEAN
  /\ curves \in Outcome \cup {NoOutcome}
  /\ isSimulatingMain \in BOOLEAN /\ isSimulatingSensitivities \in BOOLEAN
  /\ simulationPending \in BOOLEAN /\ sensitivityPending \in BOOLEAN

Init ==
  /\ plan = [id |-> 0, valid |-> TRUE]
  /\ useServer \in BOOLEAN /\ account = FALSE
  /\ bootstrapping = TRUE /\ bootstraps = 0 /\ planPage = FALSE
  /\ timers = 0 /\ controller = 0 /\ mainGen = 0 /\ sweepGen = 0
  /\ mainRuns = {} /\ sweepRuns = {}
  /\ result = NoOutcome /\ resultPlan = None /\ error = FALSE
  /\ curves = NoOutcome
  /\ isSimulatingMain = FALSE /\ isSimulatingSensitivities = FALSE
  /\ simulationPending = FALSE /\ sensitivityPending = FALSE

cloudComputeEnabled == useServer /\ account
Aborted(r) == r.signal # controller

-----------------------------------------------------------------------------
(* Invalidation *)

scheduleSimulations == timers' = 1

(* Mutant: the batch of the old plan keeps its busy flag. *)
ResetSweep_StillBusy == sensitivityPending' = TRUE /\ UNCHANGED isSimulatingSensitivities
ResetSweep == sensitivityPending' = TRUE /\ isSimulatingSensitivities' = FALSE

invalidateResults ==
  /\ controller' = controller + 1
  /\ mainGen' = mainGen + 1 /\ sweepGen' = sweepGen + 1
  /\ scheduleSimulations
  /\ error' = FALSE /\ simulationPending' = TRUE /\ isSimulatingMain' = FALSE
  /\ ResetSweep
  /\ UNCHANGED <<mainRuns, sweepRuns, result, resultPlan, curves>>

NextPlan(valid) == plan' = [id |-> plan.id + 1, valid |-> valid]

updatePlan ==
  /\ ~bootstrapping /\ controller < MaxInvalidations
  /\ NextPlan(TRUE)
  /\ invalidateResults
  /\ UNCHANGED <<useServer, account, bootstrapping, bootstraps, planPage>>

(* createAccount, updateAccount and deleteAccount replace the accounts, in   *)
(* cloud mode after their awaits and by rows no schema has checked.         *)
AccountsReplaced(valid) ==
  /\ controller < MaxInvalidations
  /\ NextPlan(valid)
  /\ invalidateResults
  /\ UNCHANGED <<useServer, account, bootstrapping, bootstraps, planPage>>

(* Mutant: the engine changes without a new run. *)
setUseServerSideCalculations_NoRun ==
  /\ ~bootstrapping /\ controller < MaxInvalidations
  /\ useServer' = ~useServer
  /\ UNCHANGED <<plan, account, bootstrapping, bootstraps, planPage, timers,
                 controller, mainVars, sweepVars>>
setUseServerSideCalculations ==
  /\ ~bootstrapping /\ controller < MaxInvalidations
  /\ useServer' = ~useServer
  /\ invalidateResults
  /\ UNCHANGED <<plan, account, bootstrapping, bootstraps, planPage>>

(* A bootstrap takes over the session; its simulations are invalidated only  *)
(* when it ends.  The Plan page is unmounted behind "Loading".              *)
BootstrapStarts(ready) ==
  /\ bootstraps < MaxBootstraps
  /\ bootstraps' = bootstraps + 1
  /\ account' = ready
  /\ bootstrapping' = TRUE /\ planPage' = FALSE
  /\ UNCHANGED <<plan, useServer, timers, controller, mainVars, sweepVars>>

BootstrapEnds ==
  /\ bootstrapping /\ bootstraps > 0
  /\ bootstrapping' = FALSE
  /\ NextPlan(TRUE)
  /\ invalidateResults
  /\ UNCHANGED <<useServer, account, bootstraps, planPage>>

(* The user opens or leaves the Plan page. *)
Navigate ==
  /\ ~bootstrapping
  /\ planPage' = ~planPage
  /\ UNCHANGED <<plan, useServer, account, bootstrapping, bootstraps, timers,
                 controller, mainVars, sweepVars>>

-----------------------------------------------------------------------------
(* The headline *)

NewRun(gen) ==
  [gen |-> gen, plan |-> plan, signal |-> controller, cloud |-> cloudComputeEnabled,
   at |-> IF cloudComputeEnabled THEN "server" ELSE "local"]

runMainSimulation ==
  /\ mainGen' = mainGen + 1
  /\ mainRuns' = mainRuns \cup {NewRun(mainGen + 1)}
  /\ isSimulatingMain' = TRUE /\ error' = FALSE /\ simulationPending' = TRUE
  /\ UNCHANGED <<result, resultPlan>>

(* The debounce timeout fires. *)
TimerFires ==
  /\ timers > 0
  /\ timers' = timers - 1
  /\ \/ plan.valid /\ runMainSimulation
     \/ /\ ~plan.valid
        /\ error' = TRUE /\ simulationPending' = FALSE
        /\ UNCHANGED <<mainGen, mainRuns, result, resultPlan, isSimulatingMain>>
  /\ UNCHANGED <<storeVars, controller, sweepVars>>

(* One step of a run before its continuation: the server answers; it fails   *)
(* or is unreachable, and the run falls back to the local engine unless it   *)
(* was aborted; the local engine ends, or is terminated by the abort.        *)
NextOf(r) ==
  CASE r.at = "server" -> {"answered", IF Aborted(r) THEN "failed" ELSE "local"}
    [] r.at = "local"  -> IF Aborted(r) THEN {"failed"} ELSE {"answered", "failed"}
    [] OTHER           -> {}

Replace(set, old, new) == (set \ {old}) \cup {new}

MainRunSteps(r) ==
  /\ \E at \in NextOf(r) : mainRuns' = Replace(mainRuns, r, [r EXCEPT !.at = at])
  /\ UNCHANGED <<storeVars, timers, controller, mainGen, result, resultPlan, error,
                 isSimulatingMain, simulationPending, sweepVars>>

(* Mutant: late replies are not told from current ones. *)
IsCurrentMain_Always(r) == TRUE
IsCurrentMain(r) == r.gen = mainGen

MainFailed ==
  /\ isSimulatingMain' = FALSE /\ simulationPending' = FALSE
  /\ result' = NoOutcome /\ resultPlan' = None /\ error' = TRUE

(* runMainSimulation after its await. *)
MainReply(r) ==
  /\ r.at \in {"answered", "failed"}
  /\ mainRuns' = mainRuns \ {r}
  /\ \/ /\ IsCurrentMain(r) /\ r.at = "answered"
        /\ result' = [plan |-> r.plan, cloud |-> r.cloud] /\ resultPlan' = r.plan
        /\ error' = FALSE /\ isSimulatingMain' = FALSE /\ simulationPending' = FALSE
     \/ IsCurrentMain(r) /\ r.at = "failed" /\ ~Aborted(r) /\ MainFailed
     \/ /\ ~IsCurrentMain(r) \/ (r.at = "failed" /\ Aborted(r))
        /\ UNCHANGED <<result, resultPlan, error, isSimulatingMain, simulationPending>>
  /\ UNCHANGED <<storeVars, timers, controller, mainGen, sweepVars>>

-----------------------------------------------------------------------------
(* The sensitivity curves *)

sensitivityAnalysisReady ==
  /\ sensitivityPending /\ ~isSimulatingSensitivities
  /\ \/ isSimulatingMain /\ simulationPending
     \/ resultPlan = plan /\ ~isSimulatingMain /\ ~simulationPending

(* The Plan page's effect. *)
runSensitivityAnalyses ==
  /\ planPage /\ sensitivityAnalysisReady
  /\ plan.valid
  /\ sweepGen' = sweepGen + 1
  /\ sweepRuns' = sweepRuns \cup {NewRun(sweepGen + 1)}
  /\ isSimulatingSensitivities' = TRUE /\ sensitivityPending' = TRUE
  /\ UNCHANGED <<storeVars, timers, controller, mainVars, curves>>

SweepRunSteps(r) ==
  /\ \E at \in NextOf(r) : sweepRuns' = Replace(sweepRuns, r, [r EXCEPT !.at = at])
  /\ UNCHANGED <<storeVars, timers, controller, mainVars, sweepGen, curves,
                 isSimulatingSensitivities, sensitivityPending>>

(* Mutant: late batches are not told from current ones. *)
IsCurrentSweep_Always(r) == TRUE
IsCurrentSweep(r) == r.gen = sweepGen

SweepReply(r) ==
  /\ r.at \in {"answered", "failed"}
  /\ sweepRuns' = sweepRuns \ {r}
  /\ \/ /\ IsCurrentSweep(r) /\ (r.at = "answered" \/ ~Aborted(r))
        /\ curves' = IF r.at = "answered" THEN [plan |-> r.plan, cloud |-> r.cloud]
                                          ELSE NoOutcome
        /\ isSimulatingSensitivities' = FALSE /\ sensitivityPending' = FALSE
     \/ /\ ~IsCurrentSweep(r) \/ (r.at = "failed" /\ Aborted(r))
        /\ UNCHANGED <<curves, isSimulatingSensitivities, sensitivityPending>>
  /\ UNCHANGED <<storeVars, timers, controller, mainVars, sweepGen>>

-----------------------------------------------------------------------------

Next ==
  \/ updatePlan
  \/ \E valid \in BOOLEAN : AccountsReplaced(valid)
  \/ setUseServerSideCalculations
  \/ \E ready \in BOOLEAN : BootstrapStarts(ready)
  \/ BootstrapEnds \/ Navigate \/ TimerFires \/ runSensitivityAnalyses
  \/ \E r \in mainRuns : MainRunSteps(r) \/ MainReply(r)
  \/ \E r \in sweepRuns : SweepRunSteps(r) \/ SweepReply(r)

Spec == Init /\ [][Next]_vars

(* Timeouts fire, requests and Workers end one way or the other, awaits      *)
(* resume, and effects run after a render.                                  *)
Fairness ==
  /\ WF_vars(TimerFires) /\ WF_vars(runSensitivityAnalyses)
  /\ WF_vars(\E r \in mainRuns : MainRunSteps(r) \/ MainReply(r))
  /\ WF_vars(\E r \in sweepRuns : SweepRunSteps(r) \/ SweepReply(r))
FairSpec == Spec /\ Fairness

-----------------------------------------------------------------------------
(* Properties *)

(* A headline that is not announced as pending or failed is the result of    *)
(* the plan on screen, computed with the engine the settings name, and is    *)
(* paired with that plan (usePlan.ts invalidateResults, "paired with the    *)
(* plan that produced them"; a bootstrap changes the session before it       *)
(* invalidates).                                                            *)
HeadlineFresh ==
  ~simulationPending /\ ~error /\ result # NoOutcome =>
     /\ result.plan = resultPlan /\ resultPlan = plan
     /\ bootstrapping \/ result.cloud = cloudComputeEnabled

(* Curves that are not announced as pending are those of the plan on screen  *)
(* (runSensitivityAnalyses' generation check).                              *)
CurvesFresh ==
  ~sensitivityPending /\ curves # NoOutcome =>
     /\ curves.plan = plan
     /\ bootstrapping \/ curves.cloud = cloudComputeEnabled

(* However fast the user edits, a change of the plan starts one headline and *)
(* one batch at most, and no two live runs share a Worker pool: what lets    *)
(* engine/mc.ts keep one Worker and terminate it on abort                   *)
(* (scheduleSimulations, isSimulatingSensitivities).                        *)
OneLiveRun ==
  /\ \A r1, r2 \in mainRuns : r1.signal = r2.signal => r1 = r2
  /\ \A r1, r2 \in sweepRuns : r1.signal = r2.signal => r1 = r2

(* What the page shows as its headline is right, and only the run that will   *)
(* replace it is computing.                                                 *)
HeadlineSafe == HeadlineFresh /\ OneLiveRun

(* Nothing stays pending: a headline marked so is replaced, fails or is      *)
(* marked again by a later change (simulationPending's comment), and with    *)
(* the Plan page open the curves are computed unless the headline itself     *)
(* failed (sensitivityAnalysisReady, the page's effect).                     *)
PendingSettles ==
  /\ simulationPending ~> ~simulationPending
  /\ sensitivityPending ~> ~sensitivityPending \/ ~planPage \/ error

(* The pipeline implements the store's promise. *)
Shown == IF result = NoOutcome THEN None ELSE result.plan
Status == CASE simulationPending -> "pending"
            [] ~simulationPending /\ error -> "failed"
            [] ~simulationPending /\ ~error /\ result = NoOutcome -> "idle"
            [] OTHER -> "current"

H == INSTANCE Headline WITH Plans <- Plan, shown <- Shown, status <- Status

Promise == H!Spec

=============================================================================
