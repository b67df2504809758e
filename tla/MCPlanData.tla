----------------------------- MODULE MCPlanData ------------------------------
(* What becomes of a plan's figures: the years the engine projects from them *)
(* (MCProjection), the levers that turn them and the curves of their sweeps, *)
(* the fields and editors they are typed in, and the payloads other versions *)
(* of the app have stored. The four share no variable, so a behaviour drives *)
(* one of them, `driven`, and leaves the others as they start.               *)
EXTENDS MCProjection, PlanLevers, PlanEditor, Hydration

CONSTANTS alice, bob

VARIABLE driven

(* Money the old bundles stored as one desired amount, as two amounts, or as *)
(* a ratio no multiplier can hold; a birthday that has passed, is ahead, or  *)
(* was not stored; and a payload of the version before the multiplier. A     *)
(* year has three days; ratios are whole percents.                           *)
Old == [age |-> 40, asOf |-> [year |-> 2029, day |-> 2], current |-> 50, retirement |-> 75,
        hsa |-> FALSE, backdoor |-> TRUE]
Without(fields) == [f \in DOMAIN Old \ fields |-> Old[f]]
MCPayloads ==
  {Old, Old @@ [birthYear |-> 1988], [Old EXCEPT !.asOf.day = 3] @@ [birthYear |-> 1988],
   [Old EXCEPT !.asOf.day = 3] @@ [birthYear |-> 1989], [Old EXCEPT !.current = 0],
   Without({"current"}) @@ [desired |-> 100],
   Without({"current", "retirement"}) @@ [desired |-> 100],
   Without({"retirement"}) @@ [desired |-> 100],
   [Old EXCEPT !.retirement = 600],
   Without({"age"}) @@ [birthDate |-> [year |-> 1990, day |-> 3], premium |-> 7, care |-> FALSE],
   Without({"hsa", "backdoor"}) @@ [contributions |-> [hsa |-> 4, roth |-> 0]]}
MCEdits ==
  {[care |-> FALSE, hsa |-> TRUE], [multiplier |-> 80, asOf |-> [year |-> 2031, day |-> 1]],
   [birthDate |-> [year |-> 2020, day |-> 1]]}

engineVars == <<plan, phase, accounts, basis, allowance, magi, care, now, row, success>>
dataVars == <<engineVars, leverVars, editorVars, payloadVars, driven>>

(* The state an undriven engine rests in. *)
DataInit ==
  /\ driven \in {"engine", "levers", "editor", "payloads"}
  /\ Init
  /\ driven # "engine" => plan = Saver /\ accounts = Holding(0, 0, 0, 0, {})
  /\ LeversInit /\ EditorInit /\ PayloadInit

DataNext ==
  \/ driven = "engine" /\ Next /\ UNCHANGED <<leverVars, editorVars, payloadVars, driven>>
  \/ driven = "levers" /\ LeversNext /\ UNCHANGED <<engineVars, editorVars, payloadVars, driven>>
  \/ driven = "editor" /\ EditorNext /\ UNCHANGED <<engineVars, leverVars, payloadVars, driven>>
  \/ driven = "payloads" /\ PayloadNext /\ UNCHANGED <<engineVars, leverVars, editorVars, driven>>

DataSpec == DataInit /\ [][DataNext]_dataVars
=============================================================================
