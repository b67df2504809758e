------------------------------- MODULE MCPage -------------------------------
(* What a tab does by itself: the simulation pipeline with its Workers, the  *)
(* sign-up of a new user, and the recovery of a tab whose build is gone.     *)
(* The four share no variable, so a behaviour drives one of them, `driven`,  *)
(* and leaves the others as they start.                                      *)
EXTENDS SimPipeline, EngineWorkers, Signup, ChunkRecovery

VARIABLE driven

pageVars == <<vars, workerVars, signupVars, tabVars, driven>>

PageInit ==
  /\ driven \in {"pipeline", "workers", "account", "chunks"}
  /\ Init /\ (driven # "pipeline" => ~useServer)
  /\ WorkersInit /\ (driven # "workers" => cores = 1 /\ paths = 2)
  /\ SignupInit /\ (driven # "account" => used = 0)
  /\ TabInit /\ (driven # "chunks" => storage.usable)

PageNext ==
  \/ driven = "pipeline" /\ Next /\ UNCHANGED <<workerVars, signupVars, tabVars, driven>>
  \/ driven = "workers" /\ WorkersNext /\ UNCHANGED <<vars, signupVars, tabVars, driven>>
  \/ driven = "account" /\ SignupNext /\ UNCHANGED <<vars, workerVars, tabVars, driven>>
  \/ driven = "chunks" /\ TabNext /\ UNCHANGED <<vars, workerVars, signupVars, driven>>

(* The fairness of each module, of the one that is driven. *)
PageFairness ==
  /\ WF_vars(driven = "pipeline" /\ TimerFires)
  /\ WF_vars(driven = "pipeline" /\ runSensitivityAnalyses)
  /\ WF_vars(driven = "pipeline" /\ \E r \in mainRuns : MainRunSteps(r) \/ MainReply(r))
  /\ WF_vars(driven = "pipeline" /\ \E r \in sweepRuns : SweepRunSteps(r) \/ SweepReply(r))
  /\ \A k \in Kinds, i \in 1 .. MaxWorkers : WF_workerVars(driven = "workers" /\ WorkerStep(k, i))
  /\ WF_signupVars(driven = "account" /\ FormSteps)
  /\ WF_signupVars(driven = "account" /\ AuthStateChanged)
  /\ \A i \in 1 .. MaxCalls : WF_signupVars(driven = "account" /\ i \in Calls /\ Proceeds(i))
  /\ WF_tabVars(driven = "chunks" /\ ImportPage)
  /\ WF_tabVars(driven = "chunks" /\ Reloaded)

PageSpec == PageInit /\ [][PageNext]_pageVars /\ PageFairness
=============================================================================
