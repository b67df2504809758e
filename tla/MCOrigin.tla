------------------------------ MODULE MCOrigin ------------------------------
(* The servers behind the edge: the Rust service with a headline, a summary  *)
(* sweep over scenarios of different length and a full batch whose first     *)
(* plan cannot be prepared, on two slots; the Node origin's rate limiter     *)
(* with two addresses on one route and one on another, in a map of two       *)
(* entries; and the database, with two migration jobs beside one request or  *)
(* one job beside two requests in turn, or with two requests of one user at  *)
(* once.  They share no variable, so a behaviour drives one of them,         *)
(* `driven`, and leaves the others as they start.                            *)
EXTENDS RustServer, RateLimiter, Database, TLC

CONSTANTS headline, sweep, batch
MCRequests == {headline, sweep, batch}
MCMode == headline :> "headline" @@ sweep :> "summary" @@ batch :> "full"
MCPaths == headline :> <<2>> @@ sweep :> <<2, 1>> @@ batch :> <<1, 1>>
MCSuccess == {<<headline, 1, 0>>, <<sweep, 1, 0>>, <<sweep, 1, 1>>,
              <<sweep, 2, 0>>, <<sweep, 2, 1>>, <<batch, 2, 0>>}
MCUnprepared == {<<batch, 1>>}
MCPanicking == {<<headline, 1, 1>>}

MCNamespaceOf == [i \in Identifiers |-> IF i = "c" THEN "probe" ELSE "simulate"]
MCOwnerOf == [r \in DataRequests |-> "ann"]
MCIsolateOf == [r \in DataRequests |-> "isolate"]

VARIABLE driven

rustVars == <<handler, queue, permits, job, cancelled, busy, done, reply>>
originVars == <<rustVars, limiterVars, dataVars, driven>>

OriginInit ==
  /\ driven \in {"rust", "limiter", "migrations", "accounts"}
  /\ Init /\ LimiterInit /\ DataInit
  /\ driven \in {"rust", "limiter"} => ledger = {} /\ DOMAIN rows = {}
  /\ driven = "migrations" => DOMAIN rows = {}
  /\ driven = "accounts" => 14 \in ledger

OriginNext ==
  \/ driven = "rust" /\ Next /\ UNCHANGED <<limiterVars, dataVars, driven>>
  \/ driven = "limiter" /\ LimiterNext /\ UNCHANGED <<rustVars, dataVars, driven>>
  \/ /\ driven = "migrations" /\ DataNext
     /\ request'["r2"] # request["r2"] => request["r1"].pc = "closed" /\ migration["j2"].pc = "idle"
     /\ migration'["j2"] # migration["j2"] => request["r2"].pc = "idle"
     /\ UNCHANGED <<rustVars, limiterVars, driven>>
  \/ /\ driven = "accounts" /\ DataNext /\ UNCHANGED migration
     /\ UNCHANGED <<rustVars, limiterVars, driven>>

(* The fairness of RustServer and of Database, of the one that is driven. *)
OriginFairness ==
  /\ \A r \in Requests :
       /\ WF_rustVars(driven = "rust" /\ acquire_simulation_slot(r))
       /\ WF_rustVars(driven = "rust" /\ Reply(r))
       /\ WF_rustVars(driven = "rust" /\ Step(r))
       /\ WF_rustVars(driven = "rust" /\ Finish(r))
  /\ \A r \in DataRequests :
       WF_dataVars(driven \in {"migrations", "accounts"} /\ RequestStep(r))

OriginSpec == OriginInit /\ [][OriginNext]_originVars /\ OriginFairness
=============================================================================
