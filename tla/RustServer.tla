----------------------------- MODULE RustServer -----------------------------
(***************************************************************************)
(* The Rust simulation service: its two handlers                             *)
(* (src/rust-simulation-service/src/server.rs), the semaphore that bounds    *)
(* them, and the cancellable native adapters they run on blocking threads    *)
(* (simulation/monte_carlo.rs).                                              *)
(*                                                                           *)
(* A handler is a future that its connection may drop at any await.  The     *)
(* compute it started is a job that cannot be dropped: it owns the permit    *)
(* and ends by itself, early if it sees its token cancelled.  A job's work   *)
(* is a set of units, one path of one scenario each; a thread checks the     *)
(* token, then projects the unit, and other threads run in between.  A       *)
(* projection is abstracted to whether its path succeeds.                    *)
(***************************************************************************)
EXTENDS Integers, Sequences, FiniteSets

CONSTANTS
  Requests,   \* valid requests the service receives
  Mode,       \* "headline" (/api/simulate), "summary" or "full" (/api/batch)
  Paths,      \* the path count of each scenario of a request
  Success,    \* the <<request, scenario, path>> that end solvent
  Unprepared, \* the <<request, scenario>> PreparedPlan::new refuses
  Panicking,  \* the <<request, scenario, path>> whose projection panics
  MaxConcurrentSimulations

ASSUME RequestAssumption ==
  /\ IsFiniteSet(Requests)
  /\ Mode \in [Requests -> {"headline", "summary", "full"}]
  /\ Paths \in [Requests -> Seq(Nat)]
ASSUME SlotAssumption == MaxConcurrentSimulations \in Nat \ {0}

VARIABLES
  handler,   \* where each handler's future is
  queue,     \* futures waiting for a permit, first come first served
  permits,   \* free permits of the semaphore
  job,       \* the blocking task of each request
  cancelled, \* CancellationToken
  busy,      \* units being projected
  done,      \* units projected
  reply      \* what the handler answered

vars == <<handler, queue, permits, job, cancelled, busy, done, reply>>
unitVars == <<busy, done>>

Scenarios(r) == DOMAIN Paths[r]
MaxPaths(r) ==
  CHOOSE n \in {Paths[r][s] : s \in Scenarios(r)} :
    \A s \in Scenarios(r) : Paths[r][s] <= n

(* A mistake for the runs to find: one path too many of a shorter scenario. *)
InRange_OffByOne(r, s, p) == p <= Paths[r][s]

(* The path loop runs to the longest scenario; a shorter one sits it out. *)
InRange(r, s, p) == p < Paths[r][s]

Units(r) ==
  {u \in Scenarios(r) \X (0..MaxPaths(r) - 1) : InRange(r, u[1], u[2])}

NoReply == [status |-> "none", counts |-> <<>>]

TypeOK ==
  /\ handler \in [Requests -> {"idle", "queued", "waiting", "replied", "gone"}]
  /\ queue \in Seq(Requests)
  /\ permits \in Nat
  /\ job \in [Requests -> {"none", "running", "finished", "failed"}]
  /\ cancelled \in [Requests -> BOOLEAN]
  /\ \A r \in Requests : busy[r] \subseteq Units(r) /\ done[r] \subseteq Units(r)
  /\ \A r \in Requests :
       /\ reply[r].status \in {"none", "ok", "partial", "error"}
       /\ \A s \in DOMAIN reply[r].counts : s \in Scenarios(r) /\ reply[r].counts[s] \in Nat

Init ==
  /\ handler = [r \in Requests |-> "idle"] /\ queue = <<>>
  /\ permits = MaxConcurrentSimulations
  /\ job = [r \in Requests |-> "none"]
  /\ cancelled = [r \in Requests |-> FALSE]
  /\ busy = [r \in Requests |-> {}] /\ done = [r \in Requests |-> {}]
  /\ reply = [r \in Requests |-> NoReply]

-----------------------------------------------------------------------------
(* Handlers *)

(* A validated request asks for a permit. *)
Receive(r) ==
  /\ handler[r] = "idle"
  /\ handler' = [handler EXCEPT ![r] = "queued"]
  /\ queue' = Append(queue, r)
  /\ UNCHANGED <<permits, job, cancelled, busy, done, reply>>

Available == permits > 0

(* The first in the queue gets a permit and moves it into its blocking task. *)
acquire_simulation_slot(r) ==
  /\ handler[r] = "queued" /\ queue # <<>> /\ Head(queue) = r /\ Available
  /\ queue' = Tail(queue) /\ permits' = permits - 1
  /\ handler' = [handler EXCEPT ![r] = "waiting"]
  /\ job' = [job EXCEPT ![r] = "running"]
  /\ UNCHANGED <<cancelled, busy, done, reply>>

(* Mistakes: a permit that lives in the handler, and a token nobody cancels. *)
AfterDrop_FreesPermit(r) == cancelled' = [cancelled EXCEPT ![r] = TRUE] /\ permits' = permits + 1
AfterDrop_Ignored(r) == UNCHANGED <<cancelled, permits>>

(* CancelOnDrop. *)
AfterDrop(r) == cancelled' = [cancelled EXCEPT ![r] = TRUE] /\ UNCHANGED permits

(* The connection closes and drops the handler's future at its await. *)
Disconnect(r) ==
  /\ \/ /\ handler[r] = "queued"
        /\ queue' = SelectSeq(queue, LAMBDA q : q # r)
        /\ UNCHANGED <<cancelled, permits>>
     \/ /\ handler[r] = "waiting" /\ AfterDrop(r) /\ UNCHANGED queue
  /\ handler' = [handler EXCEPT ![r] = "gone"]
  /\ UNCHANGED <<job, busy, done, reply>>

Counts(r) ==
  [s \in {s \in Scenarios(r) : <<r, s>> \notin Unprepared} |->
     Cardinality({p \in 0..MaxPaths(r) : <<s, p>> \in done[r] /\ <<r, s, p>> \in Success})]

Answer(r) ==
  IF job[r] = "failed" THEN [status |-> "error", counts |-> <<>>]
  ELSE [status |-> IF DOMAIN Counts(r) = Scenarios(r) THEN "ok" ELSE "partial",
        counts |-> Counts(r)]

(* The task's result reaches the handler, which then disarms CancelOnDrop. *)
Reply(r) ==
  /\ handler[r] = "waiting" /\ job[r] \in {"finished", "failed"}
  /\ reply' = [reply EXCEPT ![r] = Answer(r)]
  /\ handler' = [handler EXCEPT ![r] = "replied"]
  /\ UNCHANGED <<queue, permits, job, cancelled, unitVars>>

-----------------------------------------------------------------------------
(* Jobs *)

Prepared(r) == \A s \in Scenarios(r) : <<r, s>> \notin Unprepared

(* What may be projected next: run_sweep_cancellable prepares all scenarios  *)
(* and takes each path through them in order; a full batch takes scenario    *)
(* after scenario, leaving out the ones that fail; a headline has but one.   *)
Ready(r, s, p) ==
  /\ <<s, p>> \in Units(r) \ (busy[r] \cup done[r])
  /\ CASE Mode[r] = "full" ->
            /\ <<r, s>> \notin Unprepared
            /\ \A u \in Units(r) :
                 u[1] < s /\ <<r, u[1]>> \notin Unprepared => u \in done[r]
       [] OTHER ->
            Prepared(r) /\ \A u \in Units(r) : u[1] < s /\ u[2] = p => u \in done[r]

(* ensure_active, then the projection begins.  A panic unwinds a full batch   *)
(* between scenarios, and leaves the threads of one scenario running.        *)
Begin(r, s, p) ==
  /\ job[r] = "running" /\ ~cancelled[r] /\ Ready(r, s, p)
  /\ Mode[r] = "full" => \A u \in done[r] : u[1] < s => <<r, u[1], u[2]>> \notin Panicking
  /\ busy' = [busy EXCEPT ![r] = @ \cup {<<s, p>>}]
  /\ UNCHANGED <<handler, queue, permits, job, cancelled, done, reply>>

End(r, s, p) ==
  /\ <<s, p>> \in busy[r]
  /\ busy' = [busy EXCEPT ![r] = @ \ {<<s, p>>}]
  /\ done' = [done EXCEPT ![r] = @ \cup {<<s, p>>}]
  /\ UNCHANGED <<handler, queue, permits, job, cancelled, reply>>

Panicked(r) == \E u \in done[r] : <<r, u[1], u[2]>> \in Panicking

(* The units a job has to project before it can finish. The one path that is *)
(* projected again for the report of a finished scenario is not among them.  *)
Required(r) ==
  IF Mode[r] = "full" THEN {u \in Units(r) : <<r, u[1]>> \notin Unprepared} ELSE Units(r)

(* A job ends finished when every unit is done; it ends failed by a panic,   *)
(* a plan that cannot be prepared or a cancelled token.  A full batch does   *)
(* not fail for one scenario; when cancelled it ends with what it has, but   *)
(* its handler is gone then.                                                 *)
Outcome(r) ==
  IF Panicked(r) \/ cancelled[r] \/ (Mode[r] # "full" /\ ~Prepared(r))
  THEN "failed" ELSE "finished"

(* A mistake: a job that fails keeps its permit. *)
Returned_OnSuccess(r) == IF Outcome(r) = "finished" THEN 1 ELSE 0
Returned(r) == 1

(* Other threads finish their unit first; then the permit is dropped. *)
Finish(r) ==
  /\ job[r] = "running" /\ busy[r] = {}
  /\ Outcome(r) = "finished" => Required(r) \subseteq done[r]
  /\ job' = [job EXCEPT ![r] = Outcome(r)]
  /\ permits' = permits + Returned(r)
  /\ UNCHANGED <<handler, queue, cancelled, unitVars, reply>>

Step(r) == \E s \in Scenarios(r), p \in 0..MaxPaths(r) : Begin(r, s, p) \/ End(r, s, p)

Next ==
  \E r \in Requests :
    \/ Receive(r) \/ acquire_simulation_slot(r) \/ Disconnect(r) \/ Reply(r)
    \/ Step(r) \/ Finish(r)

Spec == Init /\ [][Next]_vars

(* The runtime polls woken futures and the pool's threads run. *)
FairSpec ==
  Spec /\ \A r \in Requests :
    /\ WF_vars(acquire_simulation_slot(r)) /\ WF_vars(Reply(r))
    /\ WF_vars(Step(r)) /\ WF_vars(Finish(r))

-----------------------------------------------------------------------------
Running == {r \in Requests : job[r] = "running"}

(* Compute is bounded by the number of jobs and not by the number of clients *)
(* still listening: a disconnected request's job counts until its last       *)
(* thread has stopped.                                                       *)
ComputeBounded == Cardinality(Running) <= MaxConcurrentSimulations

(* A client is told a scenario's successes over exactly its own paths,       *)
(* however the pool interleaved them and whatever other clients did; a full  *)
(* batch accounts for each scenario it left out.                             *)
ReplyExact ==
  \A r \in Requests : reply[r].status \in {"ok", "partial"} =>
    /\ DOMAIN reply[r].counts = {s \in Scenarios(r) : <<r, s>> \notin Unprepared}
    /\ \A s \in DOMAIN reply[r].counts :
         reply[r].counts[s] =
           Cardinality({p \in 0..Paths[r][s] - 1 : <<r, s, p>> \in Success})
    /\ reply[r].status = "partial" => Mode[r] = "full"

(* "Dropping an incomplete request cancels its compute": once a handler is   *)
(* gone no thread begins another unit of its job.                            *)
GoneBeginsNothing ==
  [][\A r \in Requests : handler[r] = "gone" => busy'[r] \subseteq busy[r]]_vars

(* A request that waits for a slot gets it or leaves, whatever jobs before   *)
(* it fail, panic or are abandoned.                                          *)
QueuedServed ==
  \A r \in Requests : handler[r] = "queued" ~> handler[r] # "queued"
=============================================================================
