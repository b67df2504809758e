------------------------------ MODULE Headline ------------------------------
(* What the plan store promises of a simulation result on screen: it belongs *)
(* to the plan on screen, is announced as stale, or failed.  Implemented by  *)
(* SimPipeline.                                                              *)
CONSTANTS
  Plans,  \* the plans a store may hold
  None    \* no result yet, or none any more

VARIABLES
  plan,   \* the plan on screen
  shown,  \* the plan whose result is on screen
  status  \* of that result

vars == <<plan, shown, status>>

Init == plan \in Plans /\ shown = None /\ status = "idle"

(* The plan, or the engine it is computed with, changes. *)
Invalidate ==
  plan' \in Plans /\ status' = "pending" /\ UNCHANGED shown

(* The result of the plan on screen arrives. *)
Publish ==
  /\ status = "pending"
  /\ shown' = plan /\ status' = "current" /\ UNCHANGED plan

(* No result can be computed; an old one stays or goes. *)
Fail ==
  /\ status = "pending"
  /\ shown' \in {shown, None} /\ status' = "failed" /\ UNCHANGED plan

Next == Invalidate \/ Publish \/ Fail

Spec == Init /\ [][Next]_vars

(* A result announced as current is the result of the plan on screen. *)
CurrentIsCurrent == status = "current" => shown = plan

=============================================================================
