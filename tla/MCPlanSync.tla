----------------------------- MODULE MCPlanSync -----------------------------
(* Instances of PlanSync for TLC. *)
EXTENDS PlanSync

CONSTANTS b1, ann, bob, ann1, ann2, bob1, guest1

(* Every tab shares one browser. *)
OneBrowser == [t \in Tabs |-> b1]

AuthorOf == [e \in Edits |-> CASE e \in {ann1, ann2} -> ann
                               [] e = bob1 -> bob
                               [] e = guest1 -> Anonymous]
=============================================================================
