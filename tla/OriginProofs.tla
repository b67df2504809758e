---------------------------- MODULE OriginProofs ----------------------------
(* The servers behind the edge.  The Rust service's compute stays bounded, an *)
(* abandoned job begins nothing more and an answer counts exactly what was   *)
(* asked for.  The requests of any number of users, interleaved statement by *)
(* statement with failures and with migration jobs, are the atomic            *)
(* operations of AccountTable in some order, and the migration jobs of any   *)
(* number of deploys, under their own lock, keep the schema sound.  The Node *)
(* server's limiter bounds every window, and itself.                         *)
EXTENDS RustServer, RateLimiter, Database, TotalsProofs

-----------------------------------------------------------------------------
(* The Rust service *)

Types ==
  /\ handler \in [Requests -> {"idle", "queued", "waiting", "replied", "gone"}]
  /\ job \in [Requests -> {"none", "running", "finished", "failed"}]
  /\ permits \in Nat
  /\ cancelled \in [Requests -> BOOLEAN]
  /\ busy \in [Requests -> SUBSET (Nat \X Int)]

(* A future that has no permit yet has no job either. *)
NoEarlyJob == \A r \in Requests : handler[r] \in {"idle", "queued"} => job[r] = "none"

(* Every permit is free or held by a running job. *)
PermitsKept == permits + Cardinality(Running) = MaxConcurrentSimulations

(* CancelOnDrop has reached the job of every handler that is gone. *)
GoneIsCancelled ==
  \A r \in Requests : handler[r] = "gone" /\ job[r] = "running" => cancelled[r] = TRUE

Slots == Types /\ NoEarlyJob /\ PermitsKept /\ GoneIsCancelled

-----------------------------------------------------------------------------

LEMMA RunningFinite == IsFiniteSet(Running) /\ Cardinality(Running) \in Nat
<1>1. IsFiniteSet(Requests)  BY RequestAssumption
<1>2. Running \in SUBSET Requests  BY DEF Running
<1>3. IsFiniteSet(Running)  BY <1>1, <1>2, FS_Subset
<1>. QED  BY <1>3, FS_CardinalityType

LEMMA Initially == Init => Slots
<1>. SUFFICES ASSUME Init PROVE Slots  OBVIOUS
<1>1. Running = {}  BY DEF Init, Running
<1>2. Cardinality(Running) = 0  BY <1>1, FS_EmptySet
<1>. QED  BY <1>2, SlotAssumption DEF Init, Slots, Types, NoEarlyJob, PermitsKept, GoneIsCancelled

(* A step that starts no job and ends none keeps the permits. *)
LEMMA SameJobs ==
  ASSUME PermitsKept, UNCHANGED <<job, permits>>
  PROVE  PermitsKept'
<1>1. Running' = Running  BY DEF Running
<1>. QED  BY <1>1 DEF PermitsKept

LEMMA ReceiveKeeps ==
  ASSUME Slots, NEW r \in Requests, Receive(r)  PROVE Slots'
<1>1. PermitsKept'  BY SameJobs DEF Slots, Receive
<1>2. Types' /\ NoEarlyJob' /\ GoneIsCancelled'
  BY DEF Slots, Types, NoEarlyJob, GoneIsCancelled, Receive
<1>. QED  BY <1>1, <1>2 DEF Slots

LEMMA AcquireKeeps ==
  ASSUME Slots, NEW r \in Requests, acquire_simulation_slot(r)  PROVE Slots'
<1>1. Types'
  BY DEF Slots, Types, acquire_simulation_slot, Available
<1>2. NoEarlyJob' /\ GoneIsCancelled'
  BY DEF Slots, Types, NoEarlyJob, GoneIsCancelled, acquire_simulation_slot
<1>3. r \notin Running
  BY DEF Slots, NoEarlyJob, Running, acquire_simulation_slot
<1>4. Running' = Running \cup {r}
  BY DEF Slots, Types, Running, acquire_simulation_slot
<1>5. Cardinality(Running') = Cardinality(Running) + 1
  BY <1>3, <1>4, RunningFinite, FS_AddElement
<1>6. permits' = permits - 1  BY DEF acquire_simulation_slot
<1>7. PermitsKept'
  BY <1>5, <1>6, RunningFinite, SlotAssumption DEF Slots, Types, PermitsKept
<1>. QED  BY <1>1, <1>2, <1>7 DEF Slots

LEMMA DisconnectKeeps ==
  ASSUME Slots, NEW r \in Requests, Disconnect(r)  PROVE Slots'
<1>1. UNCHANGED permits /\ UNCHANGED job /\ UNCHANGED busy
  BY DEF Disconnect, AfterDrop
<1>2. PermitsKept'  BY <1>1, SameJobs DEF Slots
<1>3. handler' = [handler EXCEPT ![r] = "gone"]  BY DEF Disconnect
<1>4. CASE handler[r] = "queued" /\ UNCHANGED cancelled
  BY <1>1, <1>2, <1>3, <1>4 DEF Slots, Types, NoEarlyJob, GoneIsCancelled
<1>5. CASE cancelled' = [cancelled EXCEPT ![r] = TRUE]
  BY <1>1, <1>2, <1>3, <1>5 DEF Slots, Types, NoEarlyJob, GoneIsCancelled
<1>6. \/ handler[r] = "queued" /\ UNCHANGED cancelled
      \/ cancelled' = [cancelled EXCEPT ![r] = TRUE]
  BY DEF Disconnect, AfterDrop
<1>. QED  BY <1>4, <1>5, <1>6

LEMMA ReplyKeeps ==
  ASSUME Slots, NEW r \in Requests, Reply(r)  PROVE Slots'
<1>1. PermitsKept'  BY SameJobs DEF Slots, Reply
<1>2. Types' /\ NoEarlyJob' /\ GoneIsCancelled'
  BY DEF Slots, Types, NoEarlyJob, GoneIsCancelled, Reply, unitVars
<1>. QED  BY <1>1, <1>2 DEF Slots

LEMMA StepKeeps ==
  ASSUME Slots, NEW r \in Requests, Step(r)  PROVE Slots'
<1>1. UNCHANGED <<handler, permits, job, cancelled>>  BY DEF Step, Begin, End
<1>2. PermitsKept'  BY <1>1, SameJobs DEF Slots
<1>3. NoEarlyJob' /\ GoneIsCancelled'
  BY <1>1 DEF Slots, NoEarlyJob, GoneIsCancelled
<1>4. busy' \in [Requests -> SUBSET (Nat \X Int)]
  <2>1. PICK s \in Scenarios(r), p \in 0..MaxPaths(r) : Begin(r, s, p) \/ End(r, s, p)
    BY DEF Step
  <2>2. s \in Nat /\ p \in Int
    BY RequestAssumption DEF Scenarios
  <2>3. busy' = [busy EXCEPT ![r] = @ \cup {<<s, p>>}] \/ busy' = [busy EXCEPT ![r] = @ \ {<<s, p>>}]
    BY <2>1 DEF Begin, End
  <2>. QED  BY <2>2, <2>3 DEF Slots, Types
<1>. QED  BY <1>1, <1>2, <1>3, <1>4 DEF Slots, Types

LEMMA FinishKeeps ==
  ASSUME Slots, NEW r \in Requests, Finish(r)  PROVE Slots'
<1>1. /\ UNCHANGED handler /\ UNCHANGED cancelled /\ UNCHANGED busy
      /\ job[r] = "running" /\ permits' = permits + 1
      /\ job' = [job EXCEPT ![r] = Outcome(r)]
  BY DEF Finish, Returned, unitVars
<1>2. Outcome(r) \in {"finished", "failed"}  BY DEF Outcome
<1>3. Types'  BY <1>1, <1>2 DEF Slots, Types
<1>4. NoEarlyJob' /\ GoneIsCancelled'
  BY <1>1, <1>2 DEF Slots, Types, NoEarlyJob, GoneIsCancelled
<1>5. r \in Running  BY <1>1 DEF Running
<1>6. Running' = Running \ {r}
  BY <1>1, <1>2 DEF Slots, Types, Running
<1>7. Cardinality(Running') = Cardinality(Running) - 1
  BY <1>5, <1>6, RunningFinite, FS_RemoveElement
<1>8. PermitsKept'
  BY <1>1, <1>7, RunningFinite, SlotAssumption DEF Slots, Types, PermitsKept
<1>. QED  BY <1>3, <1>4, <1>8 DEF Slots

LEMMA SlotsInductive == Slots /\ [Next]_vars => Slots'
<1>. SUFFICES ASSUME Slots, [Next]_vars PROVE Slots'  OBVIOUS
<1>1. CASE UNCHANGED vars
  <2>1. UNCHANGED <<handler, permits, job, cancelled, busy>>  BY <1>1 DEF vars
  <2>2. PermitsKept'  BY <2>1, SameJobs DEF Slots
  <2>. QED  BY <2>1, <2>2 DEF Slots, Types, NoEarlyJob, GoneIsCancelled
<1>2. CASE Next
  BY <1>2, ReceiveKeeps, AcquireKeeps, DisconnectKeeps, ReplyKeeps, StepKeeps, FinishKeeps DEF Next
<1>. QED  BY <1>1, <1>2

LEMMA SlotsInvariant == Spec => []Slots
BY Initially, SlotsInductive, PTL DEF Spec

(* server.rs moves the permit into the blocking task: the number of jobs     *)
(* that compute never exceeds MAX_CONCURRENT_SIMULATIONS, clients that left  *)
(* included.                                                                 *)
THEOREM ComputeIsBounded == Spec => []ComputeBounded
<1>1. Slots => ComputeBounded
  BY RunningFinite, SlotAssumption DEF Slots, Types, PermitsKept, ComputeBounded
<1>. QED  BY <1>1, SlotsInvariant, PTL

(* CancelOnDrop: no thread begins another unit for a handler that is gone.   *)
THEOREM AbandonedStops == Spec => GoneBeginsNothing
<1>1. Slots /\ [Next]_vars =>
        [\A r \in Requests : handler[r] = "gone" => busy'[r] \subseteq busy[r]]_vars
  <2>. SUFFICES ASSUME Slots, Next, NEW r \in Requests, handler[r] = "gone"
                PROVE  busy'[r] \subseteq busy[r]
    OBVIOUS
  <2>1. PICK q \in Requests :
          \/ Receive(q) \/ acquire_simulation_slot(q) \/ Disconnect(q) \/ Reply(q)
          \/ Step(q) \/ Finish(q)
    BY DEF Next
  <2>2. CASE UNCHANGED busy  BY <2>2
  <2>3. CASE Step(q)
    <3>1. PICK s \in Scenarios(q), p \in 0..MaxPaths(q) : Begin(q, s, p) \/ End(q, s, p)
      BY <2>3 DEF Step
    <3>2. CASE Begin(q, s, p)
      <4>1. job[q] = "running" /\ ~cancelled[q]  BY <3>2 DEF Begin
      <4>2. q # r  BY <4>1 DEF Slots, GoneIsCancelled
      <4>3. busy' = [busy EXCEPT ![q] = @ \cup {<<s, p>>}]  BY <3>2 DEF Begin
      <4>. QED  BY <4>2, <4>3 DEF Slots, Types
    <3>3. CASE End(q, s, p)
      <4>1. busy' = [busy EXCEPT ![q] = @ \ {<<s, p>>}]  BY <3>3 DEF End
      <4>. QED  BY <4>1 DEF Slots, Types
    <3>. QED  BY <3>1, <3>2, <3>3
  <2>. QED
    BY <2>1, <2>2, <2>3 DEF Receive, acquire_simulation_slot, Disconnect, Reply, Finish, unitVars
<1>. QED  BY <1>1, SlotsInvariant, PTL DEF Spec, GoneBeginsNothing

-----------------------------------------------------------------------------
(* A job that finished has projected what its answer counts. *)

(* Of finitely many indices one has the greatest value. *)
LEMMA GreatestExists ==
  ASSUME NEW S, IsFiniteSet(S), S # {}, NEW f, \A s \in S : f[s] \in Nat
  PROVE  \E n \in S : \A s \in S : f[s] <= f[n]
<1> DEFINE Q == {T \in SUBSET S : T = {} \/ \E n \in T : \A s \in T : f[s] <= f[n]}
<1>1. {} \in Q
  OBVIOUS
<1>2. ASSUME NEW T \in SUBSET S, NEW x \in S, T \in Q PROVE T \cup {x} \in Q
  <2>1. CASE T = {}
    <3>1. \A s \in T \cup {x} : f[s] <= f[x]
      BY <2>1
    <3> QED BY <3>1
  <2>2. CASE T # {}
    <3>1. PICK n \in T : \A s \in T : f[s] <= f[n]
      BY <1>2, <2>2
    <3>2. CASE f[x] <= f[n]
      BY <3>1, <3>2
    <3>3. CASE ~(f[x] <= f[n])
      <4>1. \A s \in T \cup {x} : f[s] <= f[x]
        BY <3>1, <3>3
      <4> QED BY <4>1
    <3> QED BY <3>2, <3>3
  <2> QED BY <2>1, <2>2
<1> HIDE DEF Q
<1>3. S \in Q
  BY <1>1, <1>2, FiniteInduction
<1> QED BY <1>3 DEF Q

LEMMA MaxPathsBounds ==
  ASSUME NEW r \in Requests, NEW s \in Scenarios(r)
  PROVE  MaxPaths(r) \in Nat /\ Paths[r][s] \in Nat /\ Paths[r][s] <= MaxPaths(r)
<1>1. Paths[r] \in Seq(Nat)
  BY RequestAssumption
<1>2. \A q \in Scenarios(r) : Paths[r][q] \in Nat
  BY <1>1 DEF Scenarios
<1>3. Len(Paths[r]) \in Nat /\ Scenarios(r) = 1..Len(Paths[r])
  BY <1>1 DEF Scenarios
<1>4. IsFiniteSet(Scenarios(r))
  BY <1>3, FS_Interval
<1>5. PICK n \in Scenarios(r) : \A q \in Scenarios(r) : Paths[r][q] <= Paths[r][n]
  BY <1>2, <1>4, GreatestExists
<1>6. MaxPaths(r) \in {Paths[r][q] : q \in Scenarios(r)}
      /\ \A q \in Scenarios(r) : Paths[r][q] <= MaxPaths(r)
  BY <1>5 DEF MaxPaths
<1> QED BY <1>2, <1>6

(* Threads project only what the request asked for, and a job that ended well *)
(* has projected all of it.                                                  *)
FinishedIsComplete ==
  /\ busy \in [Requests -> SUBSET (Nat \X Int)] /\ done \in [Requests -> SUBSET (Nat \X Int)]
  /\ job \in [Requests -> {"none", "running", "finished", "failed"}]
  /\ DOMAIN reply = Requests
  /\ \A r \in Requests :
       /\ busy[r] \subseteq Units(r) /\ done[r] \subseteq Units(r)
       /\ job[r] = "finished" =>
            Required(r) \subseteq done[r] /\ (Mode[r] # "full" => Prepared(r))

Honest == FinishedIsComplete /\ ReplyExact

LEMMA UnitsTyped == ASSUME NEW r \in Requests PROVE Units(r) \subseteq Nat \X Int
<1>1. Scenarios(r) \subseteq Nat
  BY RequestAssumption DEF Scenarios
<1> QED BY <1>1 DEF Units

(* What a complete job counts is what its scenarios promise. *)
LEMMA CountsExact ==
  ASSUME NEW r \in Requests, done[r] \subseteq Units(r), Required(r) \subseteq done[r],
         NEW s \in Scenarios(r), <<r, s>> \notin Unprepared
  PROVE  {p \in 0..MaxPaths(r) : <<s, p>> \in done[r] /\ <<r, s, p>> \in Success}
           = {p \in 0..Paths[r][s] - 1 : <<r, s, p>> \in Success}
<1>1. MaxPaths(r) \in Nat /\ Paths[r][s] \in Nat /\ Paths[r][s] <= MaxPaths(r)
  BY MaxPathsBounds
<1>2. ASSUME NEW p, <<s, p>> \in done[r] PROVE p \in 0..Paths[r][s] - 1
  <2>1. p \in 0..MaxPaths(r) - 1 /\ p < Paths[r][s]
    BY <1>2 DEF Units, InRange
  <2> QED BY <1>1, <2>1
<1>3. ASSUME NEW p \in 0..Paths[r][s] - 1
      PROVE  p \in 0..MaxPaths(r) /\ <<s, p>> \in done[r]
  <2>1. p \in 0..MaxPaths(r) /\ p \in 0..MaxPaths(r) - 1 /\ p < Paths[r][s]
    BY <1>1, <1>3
  <2>2. <<s, p>> \in Units(r)
    BY <2>1 DEF Units, InRange
  <2>3. <<s, p>> \in Required(r)
    BY <2>2 DEF Required
  <2> QED BY <2>1, <2>3
<1> QED BY <1>2, <1>3

LEMMA AnswerExact ==
  ASSUME FinishedIsComplete, NEW r \in Requests, job[r] \in {"finished", "failed"},
         Answer(r).status \in {"ok", "partial"}
  PROVE  /\ DOMAIN Answer(r).counts = {s \in Scenarios(r) : <<r, s>> \notin Unprepared}
         /\ \A s \in DOMAIN Answer(r).counts :
              Answer(r).counts[s] =
                Cardinality({p \in 0..Paths[r][s] - 1 : <<r, s, p>> \in Success})
         /\ Answer(r).status = "partial" => Mode[r] = "full"
<1>1. job[r] = "finished"
  BY DEF Answer
<1>2. /\ Answer(r).counts = Counts(r)
      /\ Answer(r).status = IF DOMAIN Counts(r) = Scenarios(r) THEN "ok" ELSE "partial"
  BY <1>1 DEF Answer
<1>3. /\ done[r] \subseteq Units(r) /\ Required(r) \subseteq done[r]
      /\ Mode[r] # "full" => Prepared(r)
  BY <1>1 DEF FinishedIsComplete
<1>4. DOMAIN Counts(r) = {s \in Scenarios(r) : <<r, s>> \notin Unprepared}
  BY DEF Counts
<1>5. \A s \in DOMAIN Counts(r) :
        Counts(r)[s] =
          Cardinality({p \in 0..MaxPaths(r) : <<s, p>> \in done[r] /\ <<r, s, p>> \in Success})
  BY <1>4 DEF Counts
<1>6. \A s \in DOMAIN Counts(r) :
        Counts(r)[s] = Cardinality({p \in 0..Paths[r][s] - 1 : <<r, s, p>> \in Success})
  BY <1>3, <1>4, <1>5, CountsExact
<1>7. Answer(r).status = "partial" => Mode[r] = "full"
  BY <1>2, <1>3, <1>4 DEF Prepared
<1> QED BY <1>2, <1>4, <1>6, <1>7

LEMMA ReplyIsHonest == ASSUME Honest, NEW r \in Requests, Reply(r) PROVE Honest'
<1>1. /\ UNCHANGED <<job, busy, done>> /\ job[r] \in {"finished", "failed"}
      /\ reply' = [reply EXCEPT ![r] = Answer(r)]
  BY DEF Reply, unitVars
<1>2. FinishedIsComplete'
  BY <1>1 DEF Honest, FinishedIsComplete
<1>3. ReplyExact'
  <2> SUFFICES ASSUME NEW q \in Requests, reply'[q].status \in {"ok", "partial"}
               PROVE  /\ DOMAIN reply'[q].counts = {s \in Scenarios(q) : <<q, s>> \notin Unprepared}
                      /\ \A s \in DOMAIN reply'[q].counts :
                           reply'[q].counts[s] =
                             Cardinality({p \in 0..Paths[q][s] - 1 : <<q, s, p>> \in Success})
                      /\ reply'[q].status = "partial" => Mode[q] = "full"
    BY DEF ReplyExact
  <2>1. CASE q = r
    <3>1. reply'[q] = Answer(r)
      BY <1>1, <2>1 DEF Honest, FinishedIsComplete
    <3> DEFINE answer == Answer(r)
    <3>2. FinishedIsComplete /\ answer.status \in {"ok", "partial"}
      BY <3>1 DEF Honest
    <3>3. /\ DOMAIN answer.counts = {s \in Scenarios(r) : <<r, s>> \notin Unprepared}
          /\ \A s \in DOMAIN answer.counts :
               answer.counts[s] =
                 Cardinality({p \in 0..Paths[r][s] - 1 : <<r, s, p>> \in Success})
          /\ answer.status = "partial" => Mode[r] = "full"
      BY <1>1, <3>2, AnswerExact
    <3> HIDE DEF answer
    <3>4. reply'[q] = answer
      BY <3>1 DEF answer
    <3> QED BY <2>1, <3>3, <3>4
  <2>2. CASE q # r
    <3>1. reply'[q] = reply[q]
      BY <1>1, <2>2
    <3> QED BY <3>1 DEF Honest, ReplyExact
  <2> QED BY <2>1, <2>2
<1> QED BY <1>2, <1>3 DEF Honest

LEMMA WorkIsHonest ==
  ASSUME Honest, NEW r \in Requests, Step(r) \/ Finish(r) PROVE Honest'
<1>1. UNCHANGED reply
  BY DEF Step, Begin, End, Finish
<1>2. ReplyExact'
  BY <1>1 DEF Honest, ReplyExact
<1>3. CASE Finish(r)
  <2>1. /\ UNCHANGED <<busy, done>> /\ job' = [job EXCEPT ![r] = Outcome(r)]
        /\ Outcome(r) = "finished" => Required(r) \subseteq done[r]
        /\ Outcome(r) \in {"finished", "failed"}
        /\ Outcome(r) = "finished" => (Mode[r] # "full" => Prepared(r))
    BY <1>3 DEF Finish, unitVars, Outcome
  <2>2. FinishedIsComplete'
    BY <1>1, <2>1 DEF Honest, FinishedIsComplete
  <2> QED BY <1>2, <2>2 DEF Honest
<1>4. CASE Step(r)
  <2>1. PICK s \in Scenarios(r), p \in 0..MaxPaths(r) : Begin(r, s, p) \/ End(r, s, p)
    BY <1>4 DEF Step
  <2>2. <<s, p>> \in Units(r)
    BY <2>1 DEF Begin, End, Ready, Honest, FinishedIsComplete
  <2>3. UNCHANGED job
    BY <2>1 DEF Begin, End
  <2>4. \/ UNCHANGED done /\ busy' = [busy EXCEPT ![r] = @ \cup {<<s, p>>}]
        \/ /\ busy' = [busy EXCEPT ![r] = @ \ {<<s, p>>}]
           /\ done' = [done EXCEPT ![r] = @ \cup {<<s, p>>}]
    BY <2>1 DEF Begin, End
  <2>5. /\ DOMAIN busy' = Requests /\ DOMAIN done' = Requests
        /\ busy' = [q \in Requests |-> busy'[q]] /\ done' = [q \in Requests |-> done'[q]]
    BY <2>4 DEF Honest, FinishedIsComplete
  <2>6. ASSUME NEW q \in Requests
        PROVE  busy'[q] \subseteq Units(q) /\ done'[q] \subseteq Units(q)
               /\ done[q] \subseteq done'[q]
    BY <2>2, <2>4 DEF Honest, FinishedIsComplete
  <2>7. FinishedIsComplete'
    <3>1. busy' \in [Requests -> SUBSET (Nat \X Int)] /\ done' \in [Requests -> SUBSET (Nat \X Int)]
      BY <2>5, <2>6, UnitsTyped
    <3> QED BY <1>1, <2>3, <2>6, <3>1 DEF Honest, FinishedIsComplete
  <2> QED BY <1>2, <2>7 DEF Honest
<1> QED BY <1>3, <1>4

LEMMA OthersAreHonest ==
  ASSUME Honest, UNCHANGED <<busy, done, reply>>,
         job' = job \/ \E r \in Requests : job' = [job EXCEPT ![r] = "running"]
  PROVE  Honest'
<1>1. ReplyExact'
  BY DEF Honest, ReplyExact
<1>2. FinishedIsComplete'
  BY DEF Honest, FinishedIsComplete
<1> QED BY <1>1, <1>2 DEF Honest

LEMMA HonestInductive == Honest /\ [Next]_vars => Honest'
<1>. SUFFICES ASSUME Honest, [Next]_vars PROVE Honest'  OBVIOUS
<1>1. CASE UNCHANGED vars
  <2>1. UNCHANGED <<busy, done, reply, job>>  BY <1>1 DEF vars
  <2>. QED  BY <2>1, OthersAreHonest
<1>2. ASSUME NEW r \in Requests, Receive(r) \/ acquire_simulation_slot(r) \/ Disconnect(r)
      PROVE  Honest'
  <2>1. UNCHANGED <<busy, done, reply>>
        /\ (job' = job \/ job' = [job EXCEPT ![r] = "running"])
    BY <1>2 DEF Receive, acquire_simulation_slot, Disconnect
  <2>. QED  BY <2>1, OthersAreHonest
<1>3. CASE Next
  BY <1>2, <1>3, ReplyIsHonest, WorkIsHonest DEF Next
<1>. QED  BY <1>1, <1>3

LEMMA InitHonest == Init => Honest
<1>. SUFFICES ASSUME Init PROVE Honest  OBVIOUS
<1>1. \A r \in Requests : reply[r].status = "none"
  BY DEF Init, NoReply
<1>. QED  BY <1>1 DEF Init, Honest, FinishedIsComplete, ReplyExact

(* run_sweep_cancellable and the batch handler: an answer counts, for every   *)
(* scenario that could be prepared, the successes over exactly its own paths, *)
(* and only a full batch may leave a scenario out, however the pool's threads *)
(* and other clients interleave.                                             *)
THEOREM RepliesAreExact == Spec => []ReplyExact
<1>1. Honest => ReplyExact
  BY DEF Honest
<1>. QED  BY <1>1, InitHonest, HonestInductive, PTL DEF Spec

-----------------------------------------------------------------------------
(* The database *)

Places == {"idle", "opening", "opened", "ready", "locked", "counted", "inserted",
           "answered", "closed"}
RequestRecord == [pc : Places, op : Operations, target : DataRequests \cup Seeds \cup {Free},
                  open : BOOLEAN]

Typed ==
  /\ request \in [DataRequests -> RequestRecord]
  /\ DOMAIN holder = Owners \cup {SchemaLock} /\ holder = [k \in DOMAIN holder |-> holder[k]]
  /\ Accounts!Table(rows)

(* A creation in its transaction holds the lock of its owner. *)
LockHeld ==
  \A r \in DataRequests : request[r].pc \in {"locked", "counted", "inserted"} =>
    holder[OwnerOf[r]] = r

(* What it has counted is still true. *)
RoomLeft ==
  \A r \in DataRequests : request[r].pc \in {"counted", "inserted"} =>
    Cardinality(Accounts!Owned(rows, OwnerOf[r])) < MaxAccounts

(* Its row does not exist before it commits. *)
RowAhead ==
  \A r \in DataRequests : request[r].pc \notin {"answered", "closed"} => r \notin DOMAIN rows

TableInv == Typed /\ LockHeld /\ RoomLeft /\ RowAhead

-----------------------------------------------------------------------------
(* The accounts of an owner. *)

(* AccountTable counts the way this module does. *)
LEMMA SameCardinality == ASSUME NEW S PROVE Accounts!Cardinality(S) = Cardinality(S)
BY DEF Accounts!Cardinality, Cardinality

LEMMA OwnedFinite ==
  ASSUME NEW t, Accounts!Table(t), NEW o
  PROVE  IsFiniteSet(Accounts!Owned(t, o)) /\ Cardinality(Accounts!Owned(t, o)) \in Nat
<1>1. Accounts!Owned(t, o) \subseteq DataRequests \cup Seeds
  BY DEF Accounts!Owned, Accounts!Table
<1>2. IsFiniteSet(Accounts!Owned(t, o))
  BY <1>1, FS_Subset, DataAssumption
<1> QED BY <1>2, FS_CardinalityType

LEMMA FewerOwned ==
  ASSUME Accounts!Table(rows), NEW t, NEW o,
         Accounts!Owned(t, o) \subseteq Accounts!Owned(rows, o)
  PROVE  Cardinality(Accounts!Owned(t, o)) <= Cardinality(Accounts!Owned(rows, o))
BY OwnedFinite, FS_Subset

LEMMA UpdatedTable ==
  ASSUME Accounts!Table(rows), NEW a \in DOMAIN rows,
         rows' = [rows EXCEPT ![a].edits = @ + 1]
  PROVE  Accounts!Table(rows') /\ \A o : Accounts!Owned(rows', o) = Accounts!Owned(rows, o)
<1>1. DOMAIN rows' = DOMAIN rows
  OBVIOUS
<1>2. \A b \in DOMAIN rows : rows[b] \in [owner : Owners, edits : Nat]
  BY DEF Accounts!Table
<1>3. \A b \in DOMAIN rows :
        rows'[b] \in [owner : Owners, edits : Nat] /\ rows'[b].owner = rows[b].owner
  BY <1>2
<1>4. rows' = [b \in DOMAIN rows' |-> rows'[b]]
  OBVIOUS
<1> QED BY <1>1, <1>3, <1>4 DEF Accounts!Table, Accounts!Owned

LEMMA DeletedTable ==
  ASSUME Accounts!Table(rows), NEW a \in DOMAIN rows,
         rows' = [b \in DOMAIN rows \ {a} |-> rows[b]]
  PROVE  /\ Accounts!Table(rows') /\ DOMAIN rows' \subseteq DOMAIN rows
         /\ \A o : Accounts!Owned(rows', o) \subseteq Accounts!Owned(rows, o)
BY DEF Accounts!Table, Accounts!Owned

LEMMA GrownTable ==
  ASSUME Accounts!Table(rows), NEW r \in DataRequests, r \notin DOMAIN rows, NEW owner \in Owners,
         rows' = [a \in DOMAIN rows \cup {r} |->
                    IF a = r THEN [owner |-> owner, edits |-> 0] ELSE rows[a]]
  PROVE  /\ Accounts!Table(rows') /\ DOMAIN rows' = DOMAIN rows \cup {r}
         /\ \A o : o # owner => Accounts!Owned(rows', o) = Accounts!Owned(rows, o)
BY DEF Accounts!Table, Accounts!Owned

-----------------------------------------------------------------------------
(* The invariant. *)

LEMMA InitiallySound == ASSUME DataInit PROVE TableInv
<1>1. request = [r \in DataRequests |-> IdleRequest]
  BY DEF DataInit
<1>2. PICK S \in SUBSET Seeds : rows \in [S -> [owner : Owners, edits : {0}]]
  BY DEF DataInit
<1>3. Accounts!Table(rows)
  BY <1>2 DEF Accounts!Table
<1>4. request \in [DataRequests -> RequestRecord]
  BY <1>1 DEF IdleRequest, RequestRecord, Places, Operations
<1>5. DOMAIN holder = Owners \cup {SchemaLock} /\ holder = [k \in DOMAIN holder |-> holder[k]]
  BY DEF DataInit
<1>6. LockHeld /\ RoomLeft
  BY <1>1 DEF LockHeld, RoomLeft, IdleRequest
<1>7. RowAhead
  BY <1>2, DataAssumption DEF RowAhead
<1> QED BY <1>3, <1>4, <1>5, <1>6, <1>7 DEF TableInv, Typed

(* Steps that leave the accounts and the requests alone: those of a job,     *)
(* which takes the schema lock and releases what it holds.                   *)
LEMMA JobKeeps ==
  ASSUME TableInv, NEW j \in Jobs, JobStep(j)
  PROVE  TableInv'
<1>1. UNCHANGED <<rows, request>>
  BY DEF JobStep, BeginMigrations, LockSchema, ReadVersion, ApplyMigration, CommitMigrations,
         RollBackMigrations
<1>2. \/ UNCHANGED holder
      \/ holder' = [holder EXCEPT ![SchemaLock] = j]
      \/ holder' = Released(j)
  BY DEF JobStep, BeginMigrations, LockSchema, ReadVersion, ApplyMigration, CommitMigrations,
         RollBackMigrations
<1>3. /\ DOMAIN holder' = DOMAIN holder /\ holder' = [k \in DOMAIN holder' |-> holder'[k]]
      /\ \A o \in Owners, r \in DataRequests : holder[o] = r => holder'[o] = r
  BY <1>2, DataAssumption DEF Released, TableInv, Typed
<1>4. Typed'
  BY <1>1, <1>3 DEF TableInv, Typed
<1>5. LockHeld'
  BY <1>1, <1>3, DataAssumption DEF TableInv, LockHeld
<1> QED BY <1>1, <1>4, <1>5 DEF TableInv, RoomLeft, RowAhead

(* What a request's step keeps of the others: their locks and their count.    *)
LEMMA OthersKeep ==
  ASSUME TableInv, NEW r \in DataRequests,
         holder' \in {holder, Released(r)} \/ (holder[OwnerOf[r]] = Free
                        /\ holder' = [holder EXCEPT ![OwnerOf[r]] = r])
  PROVE  /\ DOMAIN holder' = DOMAIN holder /\ holder' = [k \in DOMAIN holder' |-> holder'[k]]
         /\ \A q \in DataRequests \ {r} :
              request[q].pc \in {"locked", "counted", "inserted"} => holder'[OwnerOf[q]] = q
<1>1. DOMAIN holder = Owners \cup {SchemaLock} /\ holder = [k \in DOMAIN holder |-> holder[k]]
  BY DEF TableInv, Typed
<1>2. DOMAIN holder' = DOMAIN holder /\ holder' = [k \in DOMAIN holder' |-> holder'[k]]
  BY <1>1 DEF Released
<1>3. ASSUME NEW q \in DataRequests \ {r}, request[q].pc \in {"locked", "counted", "inserted"}
      PROVE  holder'[OwnerOf[q]] = q
  <2>1. holder[OwnerOf[q]] = q /\ OwnerOf[q] \in DOMAIN holder
    BY <1>1, <1>3, DataAssumption DEF TableInv, LockHeld
  <2> QED BY <2>1, <1>1, DataAssumption DEF Released
<1> QED BY <1>2, <1>3

(* A request's step that leaves the accounts alone.                          *)
LEMMA QuietKeeps ==
  ASSUME TableInv, UNCHANGED rows, NEW r \in DataRequests, NEW record \in RequestRecord,
         request' = [request EXCEPT ![r] = record],
         holder' \in {holder, Released(r)} \/ (holder[OwnerOf[r]] = Free
                        /\ holder' = [holder EXCEPT ![OwnerOf[r]] = r]),
         record.pc \in {"locked", "counted", "inserted"} => holder'[OwnerOf[r]] = r,
         record.pc \in {"counted", "inserted"} =>
           Cardinality(Accounts!Owned(rows, OwnerOf[r])) < MaxAccounts,
         record.pc \notin {"answered", "closed"} => request[r].pc \notin {"answered", "closed"}
  PROVE  TableInv'
<1>1. request' \in [DataRequests -> RequestRecord] /\ request'[r] = record
  BY DEF TableInv, Typed
<1>2. \A q \in DataRequests : q # r => request'[q] = request[q]
  BY DEF TableInv, Typed
<1>3. /\ DOMAIN holder' = DOMAIN holder /\ holder' = [k \in DOMAIN holder' |-> holder'[k]]
      /\ \A q \in DataRequests \ {r} :
           request[q].pc \in {"locked", "counted", "inserted"} => holder'[OwnerOf[q]] = q
  BY OthersKeep
<1>4. Typed'
  BY <1>1, <1>3 DEF TableInv, Typed
<1>5. LockHeld'
  BY <1>1, <1>2, <1>3 DEF LockHeld
<1>6. RoomLeft'
  BY <1>1, <1>2 DEF TableInv, RoomLeft
<1>7. RowAhead'
  BY <1>1, <1>2 DEF TableInv, RowAhead
<1> QED BY <1>4, <1>5, <1>6, <1>7 DEF TableInv

LEMMA RecordOf ==
  ASSUME TableInv, NEW r \in DataRequests
  PROVE  /\ request[r] \in RequestRecord
         /\ \A pc \in Places : [request[r] EXCEPT !.pc = pc] \in RequestRecord
         /\ [IdleRequest EXCEPT !.pc = "answered", !.open = request[r].open] \in RequestRecord
BY DEF TableInv, Typed, RequestRecord, IdleRequest, Places, Operations

(* AnswerRequest and Move replace the request's record.                      *)
LEMMA Replaced ==
  ASSUME TableInv, NEW r \in DataRequests
  PROVE  /\ AnswerRequest(r) => \E record \in RequestRecord :
                record.pc = "answered" /\ request' = [request EXCEPT ![r] = record]
         /\ \A pc \in Places : Move(r, pc) => \E record \in RequestRecord :
                record.pc = pc /\ request' = [request EXCEPT ![r] = record]
<1>1. request[r] \in RequestRecord /\ request \in [DataRequests -> RequestRecord]
  BY DEF TableInv, Typed
<1>2. ASSUME AnswerRequest(r)
      PROVE  \E record \in RequestRecord :
                record.pc = "answered" /\ request' = [request EXCEPT ![r] = record]
  <2>1. [IdleRequest EXCEPT !.pc = "answered", !.open = request[r].open].pc = "answered"
    BY DEF IdleRequest
  <2> QED BY <1>2, <2>1, RecordOf DEF AnswerRequest
<1>3. ASSUME NEW pc \in Places, Move(r, pc)
      PROVE  \E record \in RequestRecord :
                record.pc = pc /\ request' = [request EXCEPT ![r] = record]
  <2>1. [request[r] EXCEPT !.pc = pc].pc = pc
    BY <1>1 DEF RequestRecord
  <2>2. request' = [request EXCEPT ![r] = [request[r] EXCEPT !.pc = pc]]
    BY <1>3 DEF Move
  <2> QED BY <2>1, <2>2, RecordOf
<1> QED BY <1>2, <1>3

LEMMA AskKeeps == ASSUME TableInv, NEW r \in DataRequests, Ask(r) PROVE TableInv'
<1>1. PICK op \in Operations, a \in DataRequests \cup Seeds :
        request' = [request EXCEPT ![r].pc = "opening", ![r].op = op, ![r].target = a]
  BY DEF Ask
<1> DEFINE record == [request[r] EXCEPT !.pc = "opening", !.op = op, !.target = a]
<1>2. request[r] \in RequestRecord /\ request[r].pc = "idle"
  BY RecordOf DEF Ask
<1>3. record \in RequestRecord /\ record.pc = "opening"
  BY <1>2 DEF RequestRecord, Places
<1>4. request' = [request EXCEPT ![r] = record]
  BY <1>1
<1>5. UNCHANGED <<rows, holder>>
  BY DEF Ask, Quiet
<1> QED BY <1>2, <1>3, <1>4, <1>5, QuietKeeps

LEMMA OpenKeeps ==
  ASSUME TableInv, NEW r \in DataRequests, OpenDatabase(r) PROVE TableInv'
<1>1. UNCHANGED <<rows, holder>> /\ request[r].pc = "opening"
  BY DEF OpenDatabase, Quiet
<1>2. \E record \in RequestRecord :
        record.pc \in {"opened", "answered"} /\ request' = [request EXCEPT ![r] = record]
  <2>1. CASE AnswerRequest(r)
    BY <2>1, Replaced
  <2>2. CASE request' = [request EXCEPT ![r].pc = "opened", ![r].open = TRUE]
    <3> DEFINE record == [request[r] EXCEPT !.pc = "opened", !.open = TRUE]
    <3>1. record \in RequestRecord /\ record.pc = "opened"
      <4>1. request[r] \in RequestRecord
        BY RecordOf
      <4> QED BY <4>1 DEF RequestRecord, Places
    <3>2. request' = [request EXCEPT ![r] = record]
      BY <2>2
    <3> QED BY <3>1, <3>2
  <2> QED BY <2>1, <2>2 DEF OpenDatabase
<1> QED BY <1>1, <1>2, QuietKeeps

LEMMA FloorKeeps ==
  ASSUME TableInv, NEW r \in DataRequests, AssertSchemaFloor(r) PROVE TableInv'
<1>1. UNCHANGED <<rows, holder>> /\ request[r].pc = "opened"
  BY DEF AssertSchemaFloor
<1>2. Move(r, "ready") \/ AnswerRequest(r)
  BY DEF AssertSchemaFloor
<1>3. \E record \in RequestRecord :
        record.pc \in {"ready", "answered"} /\ request' = [request EXCEPT ![r] = record]
  BY <1>2, Replaced DEF Places
<1> QED BY <1>1, <1>3, QuietKeeps

LEMMA LockKeeps ==
  ASSUME TableInv, NEW r \in DataRequests, LockAccounts(r) PROVE TableInv'
<1>1. /\ UNCHANGED rows /\ request[r].pc = "ready" /\ holder[OwnerOf[r]] = Free
      /\ holder' = [holder EXCEPT ![OwnerOf[r]] = r] /\ Move(r, "locked")
  BY DEF LockAccounts
<1>2. OwnerOf[r] \in DOMAIN holder
  BY DataAssumption DEF TableInv, Typed
<1>3. holder'[OwnerOf[r]] = r
  BY <1>1, <1>2
<1>4. \E record \in RequestRecord :
        record.pc = "locked" /\ request' = [request EXCEPT ![r] = record]
  BY <1>1, Replaced DEF Places
<1> QED BY <1>1, <1>3, <1>4, QuietKeeps

LEMMA CountKeeps ==
  ASSUME TableInv, NEW r \in DataRequests, CountAccounts(r) PROVE TableInv'
<1>1. UNCHANGED rows /\ request[r].pc = "locked" /\ holder[OwnerOf[r]] = r
  BY DEF CountAccounts, TableInv, LockHeld
<1>2. CASE Cardinality(Accounts!Owned(rows, OwnerOf[r])) >= MaxAccounts
  <2>1. AnswerRequest(r) /\ holder' = Released(r)
    BY <1>2 DEF CountAccounts
  <2>2. \E record \in RequestRecord :
          record.pc = "answered" /\ request' = [request EXCEPT ![r] = record]
    BY <2>1, Replaced
  <2> QED BY <1>1, <2>1, <2>2, QuietKeeps
<1>3. CASE ~(Cardinality(Accounts!Owned(rows, OwnerOf[r])) >= MaxAccounts)
  <2>1. Move(r, "counted") /\ UNCHANGED holder
    BY <1>3 DEF CountAccounts
  <2>2. Cardinality(Accounts!Owned(rows, OwnerOf[r])) \in Nat /\ MaxAccounts \in Nat
    BY OwnedFinite, DataAssumption DEF TableInv, Typed
  <2>3. Cardinality(Accounts!Owned(rows, OwnerOf[r])) < MaxAccounts
    BY <1>3, <2>2
  <2>4. \E record \in RequestRecord :
          record.pc = "counted" /\ request' = [request EXCEPT ![r] = record]
    BY <2>1, Replaced DEF Places
  <2> QED BY <1>1, <2>1, <2>3, <2>4, QuietKeeps
<1> QED BY <1>2, <1>3

LEMMA InsertKeeps ==
  ASSUME TableInv, NEW r \in DataRequests, InsertAccount(r) PROVE TableInv'
<1>1. /\ UNCHANGED <<rows, holder>> /\ request[r].pc = "counted" /\ Move(r, "inserted")
      /\ holder[OwnerOf[r]] = r
      /\ Cardinality(Accounts!Owned(rows, OwnerOf[r])) < MaxAccounts
  BY DEF InsertAccount, Quiet, TableInv, LockHeld, RoomLeft
<1>2. \E record \in RequestRecord :
        record.pc = "inserted" /\ request' = [request EXCEPT ![r] = record]
  BY <1>1, Replaced DEF Places
<1> QED BY <1>1, <1>2, QuietKeeps

LEMMA FailKeeps ==
  ASSUME TableInv, NEW r \in DataRequests, Fail(r) PROVE TableInv'
<1>1. UNCHANGED rows /\ holder' = Released(r) /\ AnswerRequest(r)
  BY DEF Fail
<1>2. \E record \in RequestRecord :
        record.pc = "answered" /\ request' = [request EXCEPT ![r] = record]
  BY <1>1, Replaced
<1> QED BY <1>1, <1>2, QuietKeeps

LEMMA CloseKeeps ==
  ASSUME TableInv, NEW r \in DataRequests, Close(r) PROVE TableInv'
<1> DEFINE record == [request[r] EXCEPT !.pc = "closed", !.open = FALSE]
<1>1. UNCHANGED <<rows, holder>>
  BY DEF Close, Quiet
<1>2. record \in RequestRecord /\ record.pc = "closed"
  <2>1. request[r] \in RequestRecord
    BY RecordOf
  <2> QED BY <2>1 DEF RequestRecord, Places
<1>3. request' = [request EXCEPT ![r] = record]
  BY DEF Close
<1> QED BY <1>1, <1>2, <1>3, QuietKeeps

(* A statement of its own: what others have counted does not grow by it.     *)
LEMMA StatementKeeps ==
  ASSUME TableInv, NEW r \in DataRequests, Statement(r)
  PROVE  TableInv' /\ [Accounts!Next]_rows
<1>1. AnswerRequest(r) /\ UNCHANGED holder /\ Accounts!Table(rows) /\ request \in [DataRequests -> RequestRecord]
  BY DEF Statement, TableInv, Typed
<1>2. PICK record \in RequestRecord :
        record.pc = "answered" /\ request' = [request EXCEPT ![r] = record]
  BY <1>1, Replaced
<1>3. request' \in [DataRequests -> RequestRecord] /\ request'[r].pc = "answered"
      /\ \A q \in DataRequests : q # r => request'[q] = request[q]
  BY <1>1, <1>2
<1> DEFINE a == request[r].target
           o == OwnerOf[r]
<1>4. \/ o \in Owners /\ a \in DOMAIN rows /\ a \in DataRequests \cup Seeds
      \/ a \notin Accounts!Owned(rows, o)
  BY <1>1, DataAssumption DEF Accounts!Owned, Accounts!Table
<1>5. \/ UNCHANGED rows
      \/ a \in Accounts!Owned(rows, o) /\ rows' = [rows EXCEPT ![a].edits = @ + 1]
      \/ a \in Accounts!Owned(rows, o) /\ rows' = [b \in DOMAIN rows \ {a} |-> rows[b]]
  BY DEF Statement
<1>6. /\ Accounts!Table(rows') /\ DOMAIN rows' \subseteq DOMAIN rows
      /\ \A p : Accounts!Owned(rows', p) \subseteq Accounts!Owned(rows, p)
      /\ [Accounts!Next]_rows
  <2>1. CASE UNCHANGED rows
    BY <2>1, <1>1
  <2>2. CASE a \in Accounts!Owned(rows, o) /\ rows' = [rows EXCEPT ![a].edits = @ + 1]
    <3>1. a \in DOMAIN rows /\ o \in Owners /\ a \in DataRequests \cup Seeds
      BY <2>2, <1>4 DEF Accounts!Owned
    <3>2. Accounts!Table(rows') /\ \A p : Accounts!Owned(rows', p) = Accounts!Owned(rows, p)
      BY <3>1, <2>2, <1>1, UpdatedTable
    <3>3. Accounts!Next
      BY <2>2, <3>1 DEF Accounts!Next, Accounts!Update
    <3>4. DOMAIN rows' = DOMAIN rows
      BY <2>2
    <3> QED BY <3>2, <3>3, <3>4
  <2>3. CASE a \in Accounts!Owned(rows, o) /\ rows' = [b \in DOMAIN rows \ {a} |-> rows[b]]
    <3>1. a \in DOMAIN rows /\ o \in Owners /\ a \in DataRequests \cup Seeds
      BY <2>3, <1>4 DEF Accounts!Owned
    <3>2. Accounts!Next
      BY <2>3, <3>1 DEF Accounts!Next, Accounts!Delete
    <3> QED BY <2>3, <3>1, <3>2, <1>1, DeletedTable
  <2> QED BY <1>5, <2>1, <2>2, <2>3
<1>7. Typed'
  BY <1>1, <1>3, <1>6 DEF TableInv, Typed
<1>8. LockHeld'
  BY <1>1, <1>3 DEF TableInv, LockHeld
<1>9. RoomLeft'
  <2> SUFFICES ASSUME NEW q \in DataRequests, request'[q].pc \in {"counted", "inserted"}
               PROVE  Cardinality(Accounts!Owned(rows', OwnerOf[q])) < MaxAccounts
    BY DEF RoomLeft
  <2>1. Cardinality(Accounts!Owned(rows, OwnerOf[q])) < MaxAccounts
    BY <1>3 DEF TableInv, RoomLeft
  <2>2. Cardinality(Accounts!Owned(rows', OwnerOf[q])) <= Cardinality(Accounts!Owned(rows, OwnerOf[q]))
    BY <1>1, <1>6, FewerOwned
  <2>3. /\ Cardinality(Accounts!Owned(rows, OwnerOf[q])) \in Nat
        /\ Cardinality(Accounts!Owned(rows', OwnerOf[q])) \in Nat /\ MaxAccounts \in Nat
    BY <1>1, <1>6, OwnedFinite, DataAssumption
  <2> QED BY <2>1, <2>2, <2>3
<1>10. RowAhead'
  BY <1>3, <1>6 DEF TableInv, RowAhead
<1> QED BY <1>6, <1>7, <1>8, <1>9, <1>10 DEF TableInv

(* The commit of a creation: the lock kept everyone else from counting the    *)
(* accounts of its owner, and its own count still holds.                     *)
LEMMA CommitKeeps ==
  ASSUME TableInv, NEW r \in DataRequests, CommitAccount(r)
  PROVE  TableInv' /\ Accounts!Next
<1> DEFINE o == OwnerOf[r]
<1>1. /\ request[r].pc = "inserted" /\ AnswerRequest(r) /\ holder' = Released(r)
      /\ rows' = [a \in DOMAIN rows \cup {r} |->
                    IF a = r THEN [owner |-> o, edits |-> 0] ELSE rows[a]]
  BY DEF CommitAccount
<1>2. /\ r \notin DOMAIN rows /\ holder[o] = r /\ o \in Owners
      /\ Cardinality(Accounts!Owned(rows, o)) < MaxAccounts
      /\ Accounts!Table(rows) /\ request \in [DataRequests -> RequestRecord]
  BY <1>1, DataAssumption DEF TableInv, Typed, RowAhead, LockHeld, RoomLeft
<1>3. /\ Accounts!Table(rows') /\ DOMAIN rows' = DOMAIN rows \cup {r}
      /\ \A p : p # o => Accounts!Owned(rows', p) = Accounts!Owned(rows, p)
  BY <1>1, <1>2, GrownTable
<1>4. PICK record \in RequestRecord :
        record.pc = "answered" /\ request' = [request EXCEPT ![r] = record]
  BY <1>1, Replaced
<1>5. request' \in [DataRequests -> RequestRecord] /\ request'[r].pc = "answered"
      /\ \A q \in DataRequests : q # r => request'[q] = request[q]
  BY <1>2, <1>4
<1>6. /\ DOMAIN holder' = DOMAIN holder /\ holder' = [k \in DOMAIN holder' |-> holder'[k]]
      /\ \A q \in DataRequests \ {r} :
           request[q].pc \in {"locked", "counted", "inserted"} => holder'[OwnerOf[q]] = q
  BY <1>1, OthersKeep
<1>7. Typed'
  BY <1>3, <1>5, <1>6 DEF TableInv, Typed
<1>8. LockHeld'
  BY <1>5, <1>6 DEF LockHeld
<1>9. RoomLeft'
  <2> SUFFICES ASSUME NEW q \in DataRequests, request'[q].pc \in {"counted", "inserted"}
               PROVE  Cardinality(Accounts!Owned(rows', OwnerOf[q])) < MaxAccounts
    BY DEF RoomLeft
  <2>1. q # r /\ request[q].pc \in {"counted", "inserted"}
    BY <1>5
  <2>2. holder[OwnerOf[q]] = q
    BY <2>1 DEF TableInv, LockHeld
  <2>3. OwnerOf[q] # o
    BY <2>1, <2>2, <1>2
  <2> QED BY <2>1, <2>3, <1>3 DEF TableInv, RoomLeft
<1>10. RowAhead'
  BY <1>3, <1>5 DEF TableInv, RowAhead
<1>11. Accounts!Next
  BY <1>1, <1>2, SameCardinality DEF Accounts!Next, Accounts!Create
<1> QED BY <1>7, <1>8, <1>9, <1>10, <1>11 DEF TableInv

-----------------------------------------------------------------------------

LEMMA StepSound ==
  ASSUME TableInv, [DataNext]_dataVars
  PROVE  TableInv' /\ [Accounts!Next]_rows
<1>1. CASE UNCHANGED dataVars
  <2>1. UNCHANGED <<rows, holder, request>>
    BY <1>1 DEF dataVars
  <2> QED BY <2>1 DEF TableInv, Typed, LockHeld, RoomLeft, RowAhead
<1>2. ASSUME NEW j \in Jobs, JobStep(j) PROVE TableInv' /\ UNCHANGED rows
  <2>1. UNCHANGED rows
    BY <1>2 DEF JobStep, BeginMigrations, LockSchema, ReadVersion, ApplyMigration,
                CommitMigrations, RollBackMigrations
  <2> QED BY <1>2, <2>1, JobKeeps
<1>3. ASSUME NEW r \in DataRequests, Ask(r) \/ RequestStep(r)
      PROVE  TableInv' /\ [Accounts!Next]_rows
  <2>1. CASE Statement(r)
    BY <2>1, StatementKeeps
  <2>2. CASE CommitAccount(r)
    BY <2>2, CommitKeeps
  <2>3. CASE \/ Ask(r) \/ OpenDatabase(r) \/ AssertSchemaFloor(r) \/ LockAccounts(r)
             \/ CountAccounts(r) \/ InsertAccount(r) \/ Fail(r) \/ Close(r)
    <3>1. TableInv'
      BY <2>3, AskKeeps, OpenKeeps, FloorKeeps, LockKeeps, CountKeeps, InsertKeeps, FailKeeps,
         CloseKeeps
    <3>2. UNCHANGED rows
      BY <2>3 DEF Ask, OpenDatabase, AssertSchemaFloor, LockAccounts, CountAccounts,
                  InsertAccount, Fail, Close, Quiet
    <3> QED BY <3>1, <3>2
  <2> QED BY <1>3, <2>1, <2>2, <2>3 DEF RequestStep
<1> QED BY <1>1, <1>2, <1>3 DEF DataNext

(* createAccount's "The lock makes the count and the insert one step": for    *)
(* any users, requests, accounts and jobs, the requests implement the atomic *)
(* table, so no owner ever exceeds the cap and nobody touches a row of       *)
(* another owner.                                                            *)
THEOREM AccountsAreAtomic == DataSpec => AccountsAtomic
<1>1. DataInit => TableInv
  BY InitiallySound
<1>2. DataInit => Accounts!Init
  <2> SUFFICES ASSUME DataInit PROVE Accounts!Init
    OBVIOUS
  <2>1. Accounts!Table(rows)
    BY InitiallySound DEF TableInv, Typed
  <2> QED BY <2>1, SameCardinality DEF DataInit, Accounts!Init
<1>3. TableInv /\ [DataNext]_dataVars => TableInv' /\ [Accounts!Next]_rows
  BY StepSound
<1> QED BY <1>1, <1>2, <1>3, PTL DEF DataSpec, AccountsAtomic, Accounts!Spec

-----------------------------------------------------------------------------

(* The schema.  What schema_migrations may ever record: one of the starts,   *)
(* brought up to date by one commit or not yet.                              *)
Ledgers == {{}, {1, 10}, {10, 11, 12, 13}, {10, 11, 12, 13, 14}, {1, 10, 11, 12, 13, 14}}
Level == Latest(ledger)

(* How many of the migrations the ledger stands for: those up to its level.  *)
Base == IF Level = 0 THEN 0 ELSE Level - 9

(* The n migrations after the first b, and the version they lead to.         *)
Stretch(b, n) == [i \in 1 .. n |-> b + i]
After(b, n) == IF n = 0 THEN Level ELSE 9 + b + n

JobPlaces == {"idle", "begun", "locked", "applying", "ended"}
JobRecord == [pc : JobPlaces, version : Nat, done : Seq(1 .. 5)]

SchemaTyped ==
  /\ migration \in [Jobs -> JobRecord]
  /\ verified \in [Isolates -> BOOLEAN]
  /\ SchemaLock \in DOMAIN holder /\ holder = [k \in DOMAIN holder |-> holder[k]]
  /\ request \in [DataRequests -> RequestRecord]

(* One job at a time is past the lock. *)
OneMigrator ==
  \A j \in Jobs : migration[j].pc \in {"locked", "applying"} => holder[SchemaLock] = j

(* It has applied the first migrations beyond the ledger, whatever the        *)
(* ledger was when it read the version: nobody else can have moved it.       *)
NextInList ==
  \A j \in Jobs :
    /\ migration[j].pc = "applying" =>
         \E n \in 0 .. 5 - Base :
           migration[j].done = Stretch(Base, n) /\ migration[j].version = After(Base, n)
    /\ migration[j].pc # "applying" => migration[j].done = <<>>

(* The tables and columns of each level are there. *)
Objects(level) ==
  (IF level >= 10 THEN {"accounts", "user_profiles"} ELSE {})
    \cup (IF level >= 13 THEN {"revision"} ELSE {})
    \cup (IF level >= 14 THEN {"schema_version"} ELSE {})

LedgerTold ==
  /\ ledger \in Ledgers
  /\ Objects(Level) \subseteq schema
  /\ Level >= 11 => "legacy" \notin schema

(* What was committed here is what the start lacked. *)
AppliedOnce ==
  applied = <<>> \/ (Level = 14 /\ \E b \in 0 .. 4 : applied = Stretch(b, 5 - b))

(* Whoever serves, or remembers that the schema is recent, has seen the last. *)
FloorHolds ==
  /\ \A i \in Isolates : verified[i] => Level = 14
  /\ \A r \in DataRequests :
       request[r].pc \in {"ready", "locked", "counted", "inserted"} => Level = 14

SchemaInv ==
  SchemaTyped /\ OneMigrator /\ NextInList /\ LedgerTold /\ AppliedOnce /\ FloorHolds

-----------------------------------------------------------------------------

LEMMA LatestIs ==
  ASSUME NEW S \in SUBSET Nat, NEW m \in S, \A w \in S : w <= m
  PROVE  Latest(S) = m
<1>1. \E v \in S : \A w \in S : w <= v
  OBVIOUS
<1>2. PICK l \in S : l = Latest(S) /\ \A w \in S : w <= l
  BY <1>1 DEF Latest
<1>3. l <= m /\ m <= l
  BY <1>2
<1> QED BY <1>2, <1>3

LEMMA Levels ==
  /\ Latest({}) = 0 /\ Latest({1, 10}) = 10 /\ Latest({10, 11, 12, 13}) = 13
  /\ Latest({10, 11, 12, 13, 14}) = 14 /\ Latest({1, 10, 11, 12, 13, 14}) = 14
<1>1. Latest({}) = 0
  BY DEF Latest
<1>2. Latest({1, 10}) = 10
  BY LatestIs
<1>3. Latest({10, 11, 12, 13}) = 13
  BY LatestIs
<1>4. Latest({10, 11, 12, 13, 14}) = 14
  BY LatestIs
<1>5. Latest({1, 10, 11, 12, 13, 14}) = 14
  BY LatestIs
<1> QED BY <1>1, <1>2, <1>3, <1>4, <1>5

(* The list, by its positions. *)
LEMMA List ==
  /\ DOMAIN DATABASE_MIGRATIONS = 1 .. 5
  /\ \A i \in 1 .. 5 : DATABASE_MIGRATIONS[i].version = 9 + i
  /\ \A i \in 1 .. 5 : DATABASE_MIGRATIONS[i].drops = IF i = 2 THEN {"legacy"} ELSE {}
  /\ DATABASE_MIGRATIONS[1].creates = {"users", "accounts", "user_profiles"}
  /\ DATABASE_MIGRATIONS[4].creates = {"revision"}
  /\ DATABASE_MIGRATIONS[5].creates = {"schema_version"}
  /\ \A i \in 1 .. 5 : "legacy" \notin DATABASE_MIGRATIONS[i].creates \cup DATABASE_MIGRATIONS[i].bare
BY DEF DATABASE_MIGRATIONS

LEMMA VersionsAre == Versions = 10 .. 14 /\ REQUIRED_SCHEMA_VERSION = 14
<1>1. Versions = 10 .. 14
  BY List DEF Versions
<1>2. Latest(10 .. 14) = 14
  BY LatestIs
<1> QED BY <1>1, <1>2 DEF REQUIRED_SCHEMA_VERSION

LEMMA LevelsOf ==
  ASSUME LedgerTold
  PROVE  /\ Level \in {0, 10, 13, 14} /\ Base \in {0, 1, 4, 5} /\ (Base = 5 <=> Level = 14)
         /\ Level = IF Base = 0 THEN 0 ELSE Base + 9
         /\ Level = 14 => 10 .. 14 \subseteq ledger
         /\ \A v \in Versions : v > 10 /\ v <= Level => v \in ledger
<1>1. CASE ledger = {}
  BY <1>1, Levels, VersionsAre DEF Level, Base
<1>2. CASE ledger = {1, 10}
  BY <1>2, Levels, VersionsAre DEF Level, Base
<1>3. CASE ledger = {10, 11, 12, 13}
  BY <1>3, Levels, VersionsAre DEF Level, Base
<1>4. CASE ledger \in {{10, 11, 12, 13, 14}, {1, 10, 11, 12, 13, 14}}
  BY <1>4, Levels, VersionsAre DEF Level, Base
<1> QED BY <1>1, <1>2, <1>3, <1>4 DEF LedgerTold, Ledgers

LEMMA SchemaStarts == ASSUME DataInit PROVE SchemaInv
<1>1. SchemaTyped
  <2>1. IdleJob \in JobRecord
    BY DEF IdleJob, JobRecord, JobPlaces
  <2>2. IdleRequest \in RequestRecord
    BY DEF IdleRequest, RequestRecord, Places, Operations
  <2> QED BY <2>1, <2>2 DEF SchemaTyped, DataInit
<1>2. OneMigrator /\ NextInList
  BY DEF OneMigrator, NextInList, DataInit, IdleJob
<1>3. LedgerTold
  <2>1. PICK s \in Starts : ledger = s.ledger /\ schema = s.schema
    BY DEF DataInit
  <2>2. ledger \in Ledgers
    BY <2>1 DEF Starts, Ledgers
  <2>3. Objects(Level) \subseteq schema /\ (Level >= 11 => "legacy" \notin schema)
    BY <2>1, Levels DEF Starts, Level, Objects
  <2> QED BY <2>2, <2>3 DEF LedgerTold
<1>4. AppliedOnce /\ FloorHolds
  BY DEF AppliedOnce, FloorHolds, DataInit, IdleRequest
<1> QED BY <1>1, <1>2, <1>3, <1>4 DEF SchemaInv

-----------------------------------------------------------------------------

(* The record of a job, replaced. *)
LEMMA JobReplaced ==
  ASSUME SchemaTyped, NEW j \in Jobs
  PROVE  /\ migration[j] \in JobRecord
         /\ \A pc \in JobPlaces : MoveJob(j, pc) =>
              /\ migration' \in [Jobs -> JobRecord]
              /\ migration'[j].pc = pc /\ migration'[j].done = migration[j].done
              /\ \A i \in Jobs \ {j} : migration'[i] = migration[i]
         /\ EndJob(j) =>
              /\ migration' \in [Jobs -> JobRecord]
              /\ migration'[j].pc = "ended" /\ migration'[j].done = <<>>
              /\ \A i \in Jobs \ {j} : migration'[i] = migration[i]
<1>1. migration \in [Jobs -> JobRecord]
  BY DEF SchemaTyped
<1>2. ASSUME NEW pc \in JobPlaces, MoveJob(j, pc)
      PROVE  /\ migration' \in [Jobs -> JobRecord]
             /\ migration'[j].pc = pc /\ migration'[j].done = migration[j].done
             /\ \A i \in Jobs \ {j} : migration'[i] = migration[i]
  <2>1. /\ [migration[j] EXCEPT !.pc = pc] \in JobRecord /\ [migration[j] EXCEPT !.pc = pc].pc = pc
        /\ [migration[j] EXCEPT !.pc = pc].done = migration[j].done
    BY <1>1 DEF JobRecord
  <2>2. migration' = [migration EXCEPT ![j] = [migration[j] EXCEPT !.pc = pc]]
    BY <1>2 DEF MoveJob
  <2> QED BY <1>1, <2>1, <2>2
<1>3. ASSUME EndJob(j)
      PROVE  /\ migration' \in [Jobs -> JobRecord]
             /\ migration'[j].pc = "ended" /\ migration'[j].done = <<>>
             /\ \A i \in Jobs \ {j} : migration'[i] = migration[i]
  <2>1. /\ [IdleJob EXCEPT !.pc = "ended"] \in JobRecord
        /\ [IdleJob EXCEPT !.pc = "ended"].pc = "ended" /\ [IdleJob EXCEPT !.pc = "ended"].done = <<>>
    <3>1. IdleJob \in JobRecord /\ IdleJob.done = <<>>
      BY DEF IdleJob, JobRecord, JobPlaces
    <3> QED BY <3>1 DEF JobRecord, JobPlaces
  <2> QED BY <1>1, <1>3, <2>1 DEF EndJob
<1> QED BY <1>1, <1>2, <1>3

(* The end of somebody's transaction leaves the lock with another job.       *)
LEMMA LockKept ==
  ASSUME SchemaTyped, OneMigrator, NEW who, holder' \in {holder, Released(who)},
         NEW j \in Jobs, j # who, migration[j].pc \in {"locked", "applying"}
  PROVE  holder'[SchemaLock] = j
BY DEF SchemaTyped, OneMigrator, Released

LEMMA HolderTyped ==
  ASSUME SchemaTyped, NEW who, holder' \in {holder, Released(who)}
  PROVE  SchemaLock \in DOMAIN holder' /\ holder' = [k \in DOMAIN holder' |-> holder'[k]]
BY DEF SchemaTyped, Released

(* Steps of a job that leave the committed tables alone.                     *)
LEMMA UncommittedKeeps ==
  ASSUME SchemaInv, NEW j \in Jobs, UNCHANGED <<tables, verified, request>>,
         migration' \in [Jobs -> JobRecord],
         \A i \in Jobs \ {j} : migration'[i] = migration[i],
         SchemaLock \in DOMAIN holder', holder' = [k \in DOMAIN holder' |-> holder'[k]],
         \A i \in Jobs \ {j} : migration[i].pc \in {"locked", "applying"} => holder'[SchemaLock] = i,
         migration'[j].pc \in {"locked", "applying"} => holder'[SchemaLock] = j,
         migration'[j].pc = "applying" =>
           \E n \in 0 .. 5 - Base :
             migration'[j].done = Stretch(Base, n) /\ migration'[j].version = After(Base, n),
         migration'[j].pc # "applying" => migration'[j].done = <<>>
  PROVE  SchemaInv'
<1>1. Level' = Level /\ Base' = Base
  BY DEF Level, Base, tables
<1>2. SchemaTyped' /\ OneMigrator'
  BY DEF SchemaInv, SchemaTyped, OneMigrator
<1>3. NextInList'
  <2>1. ASSUME NEW i \in Jobs
        PROVE  /\ migration'[i].pc = "applying" =>
                    \E n \in 0 .. 5 - Base :
                      migration'[i].done = Stretch(Base, n) /\ migration'[i].version = After(Base, n)
               /\ migration'[i].pc # "applying" => migration'[i].done = <<>>
    BY DEF SchemaInv, NextInList
  <2> QED BY <1>1, <2>1 DEF NextInList, After, Stretch
<1>4. LedgerTold' /\ AppliedOnce' /\ FloorHolds'
  BY <1>1 DEF SchemaInv, LedgerTold, AppliedOnce, FloorHolds, tables
<1> QED BY <1>2, <1>3, <1>4 DEF SchemaInv

LEMMA PendingIs ==
  ASSUME LedgerTold, NEW n \in 0 .. 5 - Base
  PROVE  Pending(After(Base, n)) = Base + n + 1 .. 5
<1>1. Base \in {0, 1, 4, 5} /\ Level = IF Base = 0 THEN 0 ELSE Base + 9
  BY LevelsOf
<1>2. \A i \in 1 .. 5 : 9 + i > After(Base, n) <=> i >= Base + n + 1
  BY <1>1 DEF After
<1> QED BY <1>1, <1>2, List DEF Pending

(* The next statement of a job: the position after those it has done.        *)
LEMMA ApplyKeeps == ASSUME SchemaInv, NEW j \in Jobs, ApplyMigration(j) PROVE SchemaInv'
<1>0. migration \in [Jobs -> JobRecord] /\ migration[j].pc = "applying" /\ LedgerTold
  BY DEF SchemaInv, SchemaTyped, ApplyMigration
<1>1. PICK n \in 0 .. 5 - Base :
        migration[j].done = Stretch(Base, n) /\ migration[j].version = After(Base, n)
  BY <1>0 DEF SchemaInv, NextInList
<1>2. PICK i \in Pending(migration[j].version) :
        /\ \A k \in Pending(migration[j].version) : i <= k
        /\ migration' = [migration EXCEPT ![j].version = DATABASE_MIGRATIONS[i].version,
                                          ![j].done = Append(@, i)]
  BY DEF ApplyMigration
<1>3. Base \in {0, 1, 4, 5}
  BY <1>0, LevelsOf
<1>4. i = Base + n + 1 /\ i \in 1 .. 5
  <2>1. Pending(migration[j].version) = Base + n + 1 .. 5
    BY <1>0, <1>1, PendingIs
  <2>2. i \in Base + n + 1 .. 5 /\ \A k \in Base + n + 1 .. 5 : i <= k
    BY <1>2, <2>1
  <2> QED BY <1>3, <2>2
<1>5. DATABASE_MIGRATIONS[i].version = After(Base, n + 1)
  BY <1>4, <1>3, List DEF After
<1>6. Append(migration[j].done, i) = Stretch(Base, n + 1)
  BY <1>0, <1>1, <1>3, <1>4 DEF Stretch, JobRecord
<1> DEFINE record == [migration[j] EXCEPT !.version = DATABASE_MIGRATIONS[i].version,
                                          !.done = Append(@, i)]
<1>7. migration' = [migration EXCEPT ![j] = record]
  BY <1>0, <1>2
<1>8. record \in JobRecord /\ record.pc = "applying" /\ record.done = Stretch(Base, n + 1)
        /\ record.version = After(Base, n + 1)
  <2>1. DATABASE_MIGRATIONS[i].version \in Nat
    BY <1>4, List
  <2>2. migration[j] \in JobRecord
    BY <1>0
  <2>3. Append(migration[j].done, i) \in Seq(1 .. 5)
    BY <2>2, <1>4 DEF JobRecord
  <2> QED BY <2>1, <2>2, <2>3, <1>0, <1>5, <1>6 DEF JobRecord
<1>9. n + 1 \in 0 .. 5 - Base
  BY <1>3, <1>4
<1> HIDE DEF record
<1>10. /\ migration' \in [Jobs -> JobRecord] /\ migration'[j] = record
       /\ \A k \in Jobs \ {j} : migration'[k] = migration[k]
  BY <1>0, <1>7, <1>8
<1>11. UNCHANGED <<tables, verified, request>> /\ UNCHANGED holder
  BY DEF ApplyMigration
<1> QED BY <1>0, <1>8, <1>9, <1>10, <1>11, UncommittedKeeps DEF SchemaInv, SchemaTyped, OneMigrator

(* The commit of all the list that the ledger lacked.                        *)
LEMMA CommitKeepsSchema == ASSUME SchemaInv, NEW j \in Jobs, CommitMigrations(j) PROVE SchemaInv'
<1>0. /\ migration \in [Jobs -> JobRecord] /\ migration[j].pc = "applying" /\ LedgerTold
      /\ holder[SchemaLock] = j
  BY DEF SchemaInv, SchemaTyped, CommitMigrations, OneMigrator
<1>1. PICK n \in 0 .. 5 - Base :
        migration[j].done = Stretch(Base, n) /\ migration[j].version = After(Base, n)
  BY <1>0 DEF SchemaInv, NextInList
<1>2. /\ Base \in {0, 1, 4, 5} /\ (Base = 5 <=> Level = 14)
      /\ Level = IF Base = 0 THEN 0 ELSE Base + 9
  BY <1>0, LevelsOf
<1>3. Base + n = 5
  <2>1. Pending(migration[j].version) = {}
    BY DEF CommitMigrations
  <2>2. Base + n + 1 .. 5 = {}
    BY <2>1, <1>0, <1>1, PendingIs
  <2> QED BY <2>2, <1>2
<1> DEFINE D == Base + 1 .. 5
<1>4. {migration[j].done[m] : m \in DOMAIN migration[j].done} = D
  <2>1. \A i \in D : i - Base \in 1 .. n /\ Stretch(Base, n)[i - Base] = i
    BY <1>2, <1>3 DEF Stretch
  <2>2. \A m \in 1 .. n : Stretch(Base, n)[m] \in D
    BY <1>2, <1>3 DEF Stretch
  <2>3. DOMAIN Stretch(Base, n) = 1 .. n
    BY DEF Stretch
  <2> QED BY <2>1, <2>2, <2>3, <1>1
<1>5. /\ ledger' = ledger \cup {DATABASE_MIGRATIONS[i].version : i \in D}
      /\ schema' = Changed(schema, D)
      /\ applied' = applied \o Stretch(Base, n)
  BY <1>1, <1>4 DEF CommitMigrations
<1>6. ledger' \in {{10, 11, 12, 13, 14}, {1, 10, 11, 12, 13, 14}} /\ Level' = 14
  <2>1. {DATABASE_MIGRATIONS[i].version : i \in D} = 10 + Base .. 14
    <3>1. \A i \in D : DATABASE_MIGRATIONS[i].version = 9 + i
      BY <1>2, List
    <3>2. \A v \in 10 + Base .. 14 : v - 9 \in D /\ v = 9 + (v - 9)
      BY <1>2
    <3> QED BY <3>1, <3>2, <1>2
  <2>2. ledger' \in {{10, 11, 12, 13, 14}, {1, 10, 11, 12, 13, 14}}
    <3>0. ledger' = ledger \cup (10 + Base .. 14)
      BY <2>1, <1>5
    <3>1. CASE ledger = {}
      <4>1. Base = 0
        BY <3>1, Levels DEF Base, Level
      <4>2. 10 + Base .. 14 = {10, 11, 12, 13, 14}
        BY <4>1
      <4> QED BY <3>0, <3>1, <4>2
    <3>2. CASE ledger = {1, 10}
      <4>1. Base = 1
        BY <3>2, Levels DEF Base, Level
      <4>2. 10 + Base .. 14 = {11, 12, 13, 14}
        BY <4>1
      <4> QED BY <3>0, <3>2, <4>2
    <3>3. CASE ledger = {10, 11, 12, 13}
      <4>1. Base = 4
        BY <3>3, Levels DEF Base, Level
      <4>2. 10 + Base .. 14 = {14}
        BY <4>1
      <4> QED BY <3>0, <3>3, <4>2
    <3>4. CASE ledger \in {{10, 11, 12, 13, 14}, {1, 10, 11, 12, 13, 14}}
      <4>1. Base = 5
        BY <3>4, Levels DEF Base, Level
      <4>2. 10 + Base .. 14 = {}
        BY <4>1
      <4>3. ledger' = ledger
        BY <3>0, <4>2
      <4> QED BY <3>4, <4>3
    <3> QED BY <3>1, <3>2, <3>3, <3>4, <1>0 DEF LedgerTold, Ledgers
  <2> QED BY <2>2, Levels DEF Level
<1>7. LedgerTold'
  <2>1. ledger' \in Ledgers
    BY <1>6 DEF Ledgers
  <2>2. Objects(14) \subseteq schema'
    <3>1. Objects(Level) \subseteq schema
      BY <1>0 DEF LedgerTold
    <3>2. \A x \in Objects(14) : x # "legacy"
      BY DEF Objects
    <3>3. \A x \in schema : x # "legacy" => x \in Changed(schema, D)
      BY <1>2, List DEF Changed
    <3>4. \A i \in D : \A x \in DATABASE_MIGRATIONS[i].creates : x \in Changed(schema, D)
      BY <1>2 DEF Changed
    <3>5. CASE Base = 0
      <4>1. 1 \in D /\ 4 \in D /\ 5 \in D
        BY <3>5
      <4> QED BY <4>1, <3>4, <1>5, List DEF Objects
    <3>6. CASE Base = 1
      <4>1. 4 \in D /\ 5 \in D /\ {"accounts", "user_profiles"} \subseteq schema
        BY <3>6, <3>1, <1>2 DEF Objects
      <4> QED BY <4>1, <3>3, <3>4, <1>5, List DEF Objects
    <3>7. CASE Base = 4
      <4>1. 5 \in D /\ {"accounts", "user_profiles", "revision"} \subseteq schema
        BY <3>7, <3>1, <1>2 DEF Objects
      <4> QED BY <4>1, <3>3, <3>4, <1>5, List DEF Objects
    <3>8. CASE Base = 5
      <4>1. Objects(14) \subseteq schema
        BY <3>8, <3>1, <1>2
      <4> QED BY <4>1, <3>2, <3>3, <1>5
    <3> QED BY <3>5, <3>6, <3>7, <3>8, <1>2
  <2>3. "legacy" \notin schema'
    <3>1. \A i \in D : "legacy" \notin DATABASE_MIGRATIONS[i].creates \cup DATABASE_MIGRATIONS[i].bare
      BY <1>2, List
    <3>2. "legacy" \notin schema \/ \E i \in D : "legacy" \in DATABASE_MIGRATIONS[i].drops
      <4>1. CASE Base \in {0, 1}
        <5>1. 2 \in D
          BY <4>1
        <5> QED BY <5>1, List
      <4>2. CASE Base \in {4, 5}
        BY <4>2, <1>2, <1>0 DEF LedgerTold
      <4> QED BY <4>1, <4>2, <1>2
    <3> QED BY <3>1, <3>2, <1>5 DEF Changed
  <2> QED BY <2>1, <2>2, <2>3, <1>6 DEF LedgerTold
<1>8. AppliedOnce'
  <2>1. CASE Base = 5
    <3>1. n = 0 /\ Stretch(Base, n) = <<>>
      BY <2>1, <1>3 DEF Stretch
    <3>2. applied' = applied
      BY <3>1, <1>5 DEF SchemaInv, AppliedOnce, Stretch
    <3> QED BY <3>2, <1>6 DEF SchemaInv, AppliedOnce
  <2>2. CASE Base # 5
    <3>1. applied = <<>> /\ n = 5 - Base /\ Base \in 0 .. 4
      BY <2>2, <1>2, <1>3 DEF SchemaInv, AppliedOnce
    <3>2. applied' = Stretch(Base, 5 - Base)
      BY <3>1, <1>5 DEF Stretch
    <3>3. PICK b \in 0 .. 4 : applied' = Stretch(b, 5 - b)
      BY <3>1, <3>2
    <3> QED BY <3>3, <1>6 DEF AppliedOnce, Stretch
  <2> QED BY <2>1, <2>2
<1>9. /\ migration' \in [Jobs -> JobRecord]
      /\ migration'[j].pc = "ended" /\ migration'[j].done = <<>>
      /\ \A i \in Jobs \ {j} : migration'[i] = migration[i]
  BY JobReplaced DEF CommitMigrations, SchemaInv
<1>10. \A i \in Jobs : migration'[i].pc \notin {"locked", "applying"}
  BY <1>0, <1>9 DEF SchemaInv, OneMigrator
<1>11. SchemaTyped' /\ OneMigrator' /\ NextInList'
  <2>1. holder' = Released(j) /\ UNCHANGED <<verified, request>>
    BY DEF CommitMigrations
  <2>2. SchemaLock \in DOMAIN holder' /\ holder' = [k \in DOMAIN holder' |-> holder'[k]]
    BY <2>1, HolderTyped DEF SchemaInv
  <2> QED BY <2>1, <2>2, <1>9, <1>10 DEF SchemaInv, SchemaTyped, OneMigrator, NextInList
<1>12. FloorHolds'
  BY <1>6 DEF SchemaInv, SchemaTyped, FloorHolds, CommitMigrations
<1> QED BY <1>7, <1>8, <1>11, <1>12 DEF SchemaInv

LEMMA JobKeepsSchema == ASSUME SchemaInv, NEW j \in Jobs, JobStep(j) PROVE SchemaInv'
<1>0. /\ SchemaTyped /\ OneMigrator /\ migration \in [Jobs -> JobRecord] /\ LedgerTold
      /\ migration[j].pc # "applying" => migration[j].done = <<>>
  BY DEF SchemaInv, SchemaTyped, NextInList
<1>1. CASE BeginMigrations(j)
  <2>1. /\ UNCHANGED <<tables, verified, request, holder>> /\ MoveJob(j, "begun")
        /\ migration[j].pc = "idle"
    BY <1>1 DEF BeginMigrations
  <2>2. /\ migration' \in [Jobs -> JobRecord] /\ migration'[j].pc = "begun"
        /\ migration'[j].done = <<>>
        /\ \A i \in Jobs \ {j} : migration'[i] = migration[i]
    BY <2>1, <1>0, JobReplaced DEF JobPlaces
  <2> QED BY <2>1, <2>2, <1>0, UncommittedKeeps DEF SchemaTyped, OneMigrator
<1>2. CASE LockSchema(j)
  <2>1. /\ UNCHANGED <<tables, verified, request>> /\ MoveJob(j, "locked")
        /\ migration[j].pc = "begun"
        /\ holder[SchemaLock] = Free /\ holder' = [holder EXCEPT ![SchemaLock] = j]
    BY <1>2 DEF LockSchema
  <2>2. /\ migration' \in [Jobs -> JobRecord] /\ migration'[j].pc = "locked"
        /\ migration'[j].done = <<>>
        /\ \A i \in Jobs \ {j} : migration'[i] = migration[i]
    BY <2>1, <1>0, JobReplaced DEF JobPlaces
  <2>3. \A i \in Jobs : migration[i].pc \notin {"locked", "applying"}
    BY <2>1, <1>0, DataAssumption DEF OneMigrator
  <2>4. /\ SchemaLock \in DOMAIN holder' /\ holder' = [k \in DOMAIN holder' |-> holder'[k]]
        /\ holder'[SchemaLock] = j
    BY <2>1, <1>0 DEF SchemaTyped
  <2> QED BY <2>1, <2>2, <2>3, <2>4, UncommittedKeeps
<1>3. CASE ReadVersion(j)
  <2>1. /\ UNCHANGED <<tables, verified, request, holder>> /\ migration[j].pc = "locked"
        /\ migration' = [migration EXCEPT ![j].pc = "applying", ![j].version = Level]
    BY <1>3 DEF ReadVersion, Level
  <2>2. Level \in Nat /\ Base \in {0, 1, 4, 5}
    BY <1>0, LevelsOf
  <2>3. PICK record : record = [migration[j] EXCEPT !.pc = "applying", !.version = Level]
    OBVIOUS
  <2>4. record \in JobRecord /\ record.pc = "applying" /\ record.version = Level
          /\ record.done = migration[j].done
    BY <2>2, <2>3, <1>0 DEF JobRecord, JobPlaces
  <2>5. /\ migration' \in [Jobs -> JobRecord] /\ migration'[j] = record
        /\ \A i \in Jobs \ {j} : migration'[i] = migration[i]
    BY <2>1, <2>3, <2>4, <1>0
  <2>6. record.done = <<>>
    BY <2>1, <2>4, <1>0
  <2>7. Stretch(Base, 0) = <<>>
    BY DEF Stretch
  <2>8. record.version = After(Base, 0) /\ 0 \in 0 .. 5 - Base
    BY <2>2, <2>4 DEF After
  <2>9. \E n \in 0 .. 5 - Base :
          migration'[j].done = Stretch(Base, n) /\ migration'[j].version = After(Base, n)
    BY <2>5, <2>6, <2>7, <2>8
  <2>10. /\ migration'[j].pc = "applying" /\ holder'[SchemaLock] = j
         /\ SchemaLock \in DOMAIN holder' /\ holder' = [k \in DOMAIN holder' |-> holder'[k]]
         /\ \A i \in Jobs \ {j} : migration[i].pc \in {"locked", "applying"} => holder'[SchemaLock] = i
    BY <2>1, <2>4, <2>5, <1>0 DEF SchemaTyped, OneMigrator
  <2> QED BY <2>1, <2>5, <2>9, <2>10, UncommittedKeeps
<1>4. CASE ApplyMigration(j)
  BY <1>4, ApplyKeeps
<1>5. CASE CommitMigrations(j)
  BY <1>5, CommitKeepsSchema
<1>6. CASE RollBackMigrations(j)
  <2>1. UNCHANGED <<tables, verified, request>> /\ EndJob(j) /\ holder' = Released(j)
    BY <1>6 DEF RollBackMigrations
  <2>2. /\ migration' \in [Jobs -> JobRecord] /\ migration'[j].pc = "ended"
        /\ migration'[j].done = <<>>
        /\ \A i \in Jobs \ {j} : migration'[i] = migration[i]
    BY <2>1, <1>0, JobReplaced
  <2>3. /\ SchemaLock \in DOMAIN holder' /\ holder' = [k \in DOMAIN holder' |-> holder'[k]]
        /\ \A i \in Jobs \ {j} : migration[i].pc \in {"locked", "applying"} => holder'[SchemaLock] = i
    BY <2>1, <1>0, HolderTyped, LockKept
  <2> QED BY <2>1, <2>2, <2>3, UncommittedKeeps
<1> QED BY <1>1, <1>2, <1>3, <1>4, <1>5, <1>6 DEF JobStep

-----------------------------------------------------------------------------

Serving == {"ready", "locked", "counted", "inserted"}

(* A request comes to be served past the floor, and nowhere else.            *)
LEMMA RequestKeepsSchema ==
  ASSUME TableInv, TableInv', SchemaInv, NEW r \in DataRequests, Ask(r) \/ RequestStep(r)
  PROVE  SchemaInv'
<1> USE DEF Serving
<1>1. UNCHANGED <<tables, migration>>
  BY DEF Ask, RequestStep, OpenDatabase, AssertSchemaFloor, Statement, LockAccounts,
         CountAccounts, InsertAccount, CommitAccount, Fail, Close, Quiet
<1>2. Level' = Level /\ Base' = Base
  BY <1>1 DEF Level, Base, tables
<1>3. LedgerTold' /\ AppliedOnce'
  BY <1>1, <1>2 DEF SchemaInv, LedgerTold, AppliedOnce, tables
<1>4. NextInList'
  <2>1. /\ UNCHANGED migration
        /\ \A b, n : After(b, n)' = After(b, n) /\ Stretch(b, n)' = Stretch(b, n)
    BY <1>1, <1>2 DEF After, Stretch
  <2> QED BY <1>2, <2>1 DEF SchemaInv, NextInList
<1>5. request \in [DataRequests -> RequestRecord] /\ request' \in [DataRequests -> RequestRecord]
  BY DEF TableInv, Typed
<1>6. \A q \in DataRequests \ {r} : request'[q] = request[q]
  BY <1>5 DEF Ask, RequestStep, OpenDatabase, AssertSchemaFloor, Statement, LockAccounts,
              CountAccounts, InsertAccount, CommitAccount, Fail, Close, Move, AnswerRequest
<1>7. \/ holder' \in {holder, Released(r)}
      \/ holder' = [holder EXCEPT ![OwnerOf[r]] = r]
  BY DEF Ask, RequestStep, OpenDatabase, AssertSchemaFloor, Statement, LockAccounts,
         CountAccounts, InsertAccount, CommitAccount, Fail, Close, Quiet
<1>8. OneMigrator'
  <2> SUFFICES ASSUME NEW j \in Jobs, migration[j].pc \in {"locked", "applying"}
               PROVE  holder'[SchemaLock] = j
    BY <1>1 DEF OneMigrator
  <2>1. holder[SchemaLock] = j /\ j # r /\ OwnerOf[r] # SchemaLock
    BY DataAssumption DEF SchemaInv, OneMigrator
  <2> QED BY <2>1, <1>7 DEF SchemaInv, SchemaTyped, Released
<1>9. SchemaLock \in DOMAIN holder' /\ holder' = [k \in DOMAIN holder' |-> holder'[k]]
  BY <1>7 DEF SchemaInv, SchemaTyped, Released
<1>10. Level >= REQUIRED_SCHEMA_VERSION <=> Level = 14
  BY VersionsAre, LevelsOf DEF SchemaInv
<1>11. CASE AssertSchemaFloor(r)
  <2>1. IsolateOf[r] \in Isolates /\ verified \in [Isolates -> BOOLEAN]
    BY DataAssumption DEF SchemaInv, SchemaTyped
  <2>2. /\ verified' \in [Isolates -> BOOLEAN]
        /\ \A i \in Isolates : verified'[i] => verified[i] \/ Level = 14
        /\ request'[r].pc \in Serving => verified[IsolateOf[r]] \/ Level = 14
    <3>1. CASE verified[IsolateOf[r]] \/ Level >= REQUIRED_SCHEMA_VERSION
      BY <1>10, <1>11, <2>1, <3>1 DEF AssertSchemaFloor, SchemaInv, FloorHolds
    <3>2. CASE ~(verified[IsolateOf[r]] \/ Level >= REQUIRED_SCHEMA_VERSION)
      <4>1. UNCHANGED verified /\ AnswerRequest(r)
        BY <1>11, <3>2 DEF AssertSchemaFloor, Level
      <4>2. request'[r].pc = "answered"
        BY <4>1, <1>5 DEF AnswerRequest, IdleRequest
      <4> QED BY <4>1, <4>2, <2>1
    <3> QED BY <3>1, <3>2
  <2>3. FloorHolds'
    BY <1>2, <1>6, <2>1, <2>2 DEF SchemaInv, FloorHolds
  <2> QED BY <1>3, <1>4, <1>5, <1>8, <1>9, <1>1, <2>2, <2>3 DEF SchemaInv, SchemaTyped
<1>12. CASE ~AssertSchemaFloor(r)
  <2>1. UNCHANGED verified
    BY <1>12 DEF Ask, RequestStep, OpenDatabase, Statement, LockAccounts,
         CountAccounts, InsertAccount, CommitAccount, Fail, Close, Quiet
  <2>2. request'[r].pc \in Serving => request[r].pc \in Serving
    <3>1. AnswerRequest(r) => request'[r].pc = "answered"
      BY <1>5 DEF AnswerRequest, IdleRequest
    <3>2. \A pc : Move(r, pc) => request'[r].pc = pc
      BY <1>5 DEF Move, RequestRecord
    <3>3. CASE Ask(r)
      <4>1. PICK op, a : request' = [request EXCEPT ![r].pc = "opening", ![r].op = op, ![r].target = a]
        BY <3>3 DEF Ask
      <4>2. request[r] \in RequestRecord
        BY <1>5
      <4>3. request'[r] = [request[r] EXCEPT !.pc = "opening", !.op = op, !.target = a]
        BY <4>1, <1>5
      <4>4. request'[r].pc = "opening"
        BY <4>2, <4>3 DEF RequestRecord
      <4> QED BY <4>4
    <3>4. CASE OpenDatabase(r)
      BY <1>5, <3>1, <3>4 DEF OpenDatabase, RequestRecord
    <3>5. CASE Statement(r) \/ CommitAccount(r) \/ Fail(r)
      BY <3>1, <3>5 DEF Statement, CommitAccount, Fail
    <3>6. CASE LockAccounts(r) \/ InsertAccount(r)
      BY <3>2, <3>6 DEF LockAccounts, InsertAccount
    <3>7. CASE CountAccounts(r)
      BY <3>1, <3>2, <3>7 DEF CountAccounts
    <3>8. CASE Close(r)
      <4>1. request'[r] = [request[r] EXCEPT !.pc = "closed", !.open = FALSE]
        BY <3>8, <1>5 DEF Close
      <4>2. request'[r].pc = "closed"
        BY <4>1, <1>5 DEF RequestRecord
      <4> QED BY <4>2
    <3> QED BY <1>12, <3>3, <3>4, <3>5, <3>6, <3>7, <3>8 DEF RequestStep
  <2>3. FloorHolds'
    BY <1>2, <1>6, <2>1, <2>2 DEF SchemaInv, FloorHolds
  <2> QED BY <1>3, <1>4, <1>5, <1>8, <1>9, <1>1, <2>1, <2>3 DEF SchemaInv, SchemaTyped
<1> QED BY <1>11, <1>12

(* What the invariant means for the schema.                                  *)
LEMMA SoundBySchema == ASSUME SchemaInv, TableInv PROVE SchemaSound
<1>1. MigratedInOrder
  <2>1. LedgerTold /\ AppliedOnce
    BY DEF SchemaInv
  <2>2. \A v \in Versions : v > 10 /\ v <= Latest(ledger) => v \in ledger
    BY <2>1, LevelsOf DEF Level
  <2>3. Latest(ledger) = REQUIRED_SCHEMA_VERSION => "legacy" \notin schema
    BY <2>1, VersionsAre DEF LedgerTold, Level
  <2>4. CASE applied = <<>>
    BY <2>2, <2>3, <2>4 DEF MigratedInOrder
  <2>5. CASE Level = 14 /\ \E b \in 0 .. 4 : applied = Stretch(b, 5 - b)
    <3>1. PICK b \in 0 .. 4 : applied = Stretch(b, 5 - b)
      BY <2>5
    <3>2. DOMAIN applied = 1 .. 5 - b /\ \A m \in 1 .. 5 - b : applied[m] = b + m
      BY <3>1 DEF Stretch
    <3>3. \A m \in 1 .. 5 - b : b + m \in 1 .. 5 /\ DATABASE_MIGRATIONS[b + m].version = 9 + b + m
      BY List
    <3>4. \A m \in 1 .. 5 - b : 9 + b + m \in ledger
      BY <2>1, <2>5, LevelsOf
    <3>5. \A m, n \in DOMAIN applied : m < n => applied[m] < applied[n]
      BY <3>2
    <3>6. \A m \in DOMAIN applied : DATABASE_MIGRATIONS[applied[m]].version \in ledger
      BY <3>2, <3>3, <3>4
    <3> QED BY <2>2, <2>3, <3>5, <3>6 DEF MigratedInOrder
  <2> QED BY <2>1, <2>4, <2>5 DEF AppliedOnce
<1>2. SchemaServed
  <2> SUFFICES ASSUME NEW r \in DataRequests, request[r].pc \in Serving
               PROVE  Names(request[r].op) \subseteq schema
    BY DEF SchemaServed, Serving
  <2>1. Level = 14
    BY DEF SchemaInv, FloorHolds, Serving
  <2>2. Objects(14) \subseteq schema
    BY <2>1 DEF SchemaInv, LedgerTold
  <2> QED BY <2>2 DEF Names, Objects
<1> QED BY <1>1, <1>2 DEF SchemaSound

(* migrate.ts and database.ts assertSchemaFloor: for any jobs, isolates and   *)
(* requests, however jobs overlap, fail or lose the reply to their commit,   *)
(* each migration takes effect once and in the order of the list, and no     *)
(* statement names what its database does not have.                          *)
THEOREM SchemaIsSound == DataSpec => []SchemaSound
<1> DEFINE Inv == TableInv /\ SchemaInv
<1>1. DataInit => Inv
  BY InitiallySound, SchemaStarts
<1>2. Inv /\ [DataNext]_dataVars => Inv'
  <2> SUFFICES ASSUME Inv, [DataNext]_dataVars PROVE Inv'
    OBVIOUS
  <2>1. TableInv'
    BY StepSound
  <2>2. CASE UNCHANGED dataVars
    <3>1. SchemaInv'
      BY <2>2 DEF dataVars, tables, SchemaInv, SchemaTyped, OneMigrator, NextInList, LedgerTold,
                  AppliedOnce, FloorHolds, Level, Base, After, Stretch
    <3> QED BY <2>1, <3>1
  <2>3. ASSUME NEW j \in Jobs, JobStep(j) PROVE Inv'
    BY <2>1, <2>3, JobKeepsSchema
  <2>4. ASSUME NEW r \in DataRequests, Ask(r) \/ RequestStep(r) PROVE Inv'
    BY <2>1, <2>4, RequestKeepsSchema
  <2> QED BY <2>2, <2>3, <2>4 DEF DataNext
<1>3. Inv => SchemaSound
  BY SoundBySchema
<1> QED BY <1>1, <1>2, <1>3, PTL DEF DataSpec

-----------------------------------------------------------------------------
(* The rate limiter *)

KeysOnce(entries) ==
  \A m, n \in DOMAIN entries : entries[m].key = entries[n].key => m = n

Refusal == [key : EntryKeys, at : Times, cost : Costs]

LimiterTyped ==
  /\ now \in Times /\ store \in Seq(Entry)
  /\ refusal = <<>> \/ refusal \in Refusal
  /\ spent \in [EntryKeys -> [Times -> Nat]] /\ evicted \subseteq EntryKeys

(* What counts at the present time. *)
Recent == {t \in Times : t > now - windowMs}

(* What an entry holds was granted through its key, all that still counts of *)
(* it unless the key was evicted, and it stays until the last of it is over. *)
EntryTells(entry) ==
  /\ \A t \in Times : entry.requests[t] <= spent[entry.key][t]
  /\ entry.key \notin evicted => \A t \in Recent : entry.requests[t] = spent[entry.key][t]
  /\ \A t \in Times : entry.requests[t] > 0 => t + windowMs <= entry.resetTime

(* A key without an entry was granted nothing that still counts. *)
Forgotten(key) ==
  key \notin evicted /\ ~Stored(key) => \A t \in Recent : spent[key][t] = 0

(* Nothing was granted, nor refused, in the future. *)
NoFuture ==
  /\ \A key \in EntryKeys : \A t \in Times : t > now => spent[key][t] = 0
  /\ refusal # <<>> => refusal.at <= now

LimiterInv ==
  /\ LimiterTyped /\ KeysOnce(store) /\ Len(store) <= MaxStoreEntries /\ NoFuture
  /\ \A n \in DOMAIN store : EntryTells(store[n])
  /\ \A key \in EntryKeys : Forgotten(key)
  /\ SlidingBound /\ RefusalJustified

LEMMA LimiterNumbers ==
  /\ limit \in Nat /\ windowMs \in Nat /\ Horizon \in Nat /\ MaxStoreEntries \in Nat \ {0}
  /\ IsFiniteSet(Times) /\ Times \subseteq Nat /\ Costs \subseteq Nat \ {0}
  /\ \A cost \in Costs : cost <= limit
<1>1. limit \in Nat /\ windowMs \in Nat /\ Horizon \in Nat /\ MaxStoreEntries \in Nat \ {0}
  BY LimiterAssumption
<1>2. IsFiniteSet(Times) /\ Times \subseteq Nat
  BY <1>1, FS_Interval DEF Times
<1>3. Costs \subseteq Nat \ {0} /\ \A cost \in Costs : cost <= limit
  BY <1>1, LimiterAssumption
<1> QED BY <1>1, <1>2, <1>3

LEMMA RecentTimes == IsFiniteSet(Recent) /\ Recent \subseteq Times
<1>1. Recent \subseteq Times
  BY DEF Recent
<1> QED BY <1>1, LimiterNumbers, FS_Subset

(* What counts of an entry's requests is what was asked for recently. *)
LEMMA UsedIsRecent ==
  ASSUME NEW requests \in [Times -> Nat]
  PROVE  /\ Live(requests) \in [Times -> Nat]
         /\ Used(Live(requests)) = Total(requests, Recent)
<1>1. Live(requests) \in [Times -> Nat]
  BY DEF Live
<1>2. Tallies(Live(requests), Times) = Tallies(requests, Recent)
  BY DEF Tallies, Live, Recent
<1> QED BY <1>1, <1>2 DEF Used, Total

(* Recent requests of an entry whose key was not evicted are its key's. *)
LEMMA UsedIsSpent ==
  ASSUME LimiterInv, NEW n \in DOMAIN store, store[n].key \notin evicted
  PROVE  Used(Live(store[n].requests)) = Total(spent[store[n].key], Recent)
<1>1. store[n] \in Entry
  BY DEF LimiterInv, LimiterTyped
<1>2. \A t \in Recent : store[n].requests[t] = spent[store[n].key][t]
  BY DEF LimiterInv, EntryTells
<1>3. Used(Live(store[n].requests)) = Total(store[n].requests, Recent)
  BY <1>1, UsedIsRecent DEF Entry
<1> QED BY <1>2, <1>3, TotalSame

LEMMA SpentIsNat ==
  ASSUME LimiterTyped, NEW key \in EntryKeys, NEW T \in SUBSET Times
  PROVE  IsFiniteSet(T) /\ (\A t \in T : spent[key][t] \in Nat) /\ Total(spent[key], T) \in Nat
<1>1. IsFiniteSet(T)
  BY LimiterNumbers, FS_Subset
<1>2. \A t \in T : spent[key][t] \in Nat
  BY DEF LimiterTyped
<1> QED BY <1>1, <1>2, TotalIsNat

-----------------------------------------------------------------------------
(* What a grant adds. *)
Grants(key, cost) ==
  /\ LimiterInv /\ key \in EntryKeys /\ cost \in Costs
  /\ Granted(key, cost) /\ now' = now /\ evicted \subseteq evicted'

LEMMA GrantAdds ==
  ASSUME NEW key, NEW cost, Grants(key, cost)
  PROVE  /\ spent' \in [EntryKeys -> [Times -> Nat]]
         /\ \A k \in EntryKeys, t \in Times :
              spent'[k][t] = IF k = key /\ t = now THEN spent[k][t] + cost ELSE spent[k][t]
         /\ \A k \in EntryKeys : k # key => spent'[k] = spent[k]
<1>1. spent \in [EntryKeys -> [Times -> Nat]] /\ now \in Times /\ key \in EntryKeys
  BY DEF Grants, LimiterInv, LimiterTyped
<1>2. cost \in Nat
  BY LimiterNumbers DEF Grants
<1>3. spent' = [spent EXCEPT ![key][now] = @ + cost]
  BY DEF Grants, Granted
<1>4. spent'[key] = [spent[key] EXCEPT ![now] = @ + cost]
  BY <1>1, <1>3
<1>5. spent'[key] \in [Times -> Nat]
  BY <1>1, <1>2, <1>4
<1>6. \A k \in EntryKeys : k # key => spent'[k] = spent[k]
  BY <1>1, <1>3
<1>7. spent' \in [EntryKeys -> [Times -> Nat]]
  BY <1>1, <1>3, <1>5, <1>6
<1> QED BY <1>1, <1>4, <1>6, <1>7

LEMMA GrantKeepsRest ==
  ASSUME NEW key, NEW cost, Grants(key, cost)
  PROVE  /\ NoFuture' /\ RefusalJustified'
         /\ refusal' = <<>> /\ now' \in Times /\ Recent' = Recent
<1>1. refusal' = <<>> /\ now' = now /\ now \in Times
  BY DEF Grants, Granted, LimiterInv, LimiterTyped
<1>2. \A k \in EntryKeys, t \in Times : t > now' => spent'[k][t] = 0
  <2>1. now \in Nat
    BY <1>1, LimiterNumbers
  <2>2. \A k \in EntryKeys, t \in Times : t > now => t # now /\ spent[k][t] = 0
    BY <2>1, LimiterNumbers DEF Grants, LimiterInv, NoFuture
  <2> QED BY <1>1, <2>2, GrantAdds
<1>3. Recent' = Recent
  BY <1>1 DEF Recent, Times
<1> QED BY <1>1, <1>2, <1>3 DEF NoFuture, RefusalJustified, EntryKeys, Times

(* What leaves room for the cost in the last window leaves it in every one.  *)
LEMMA GrantStaysInBound ==
  ASSUME NEW key, NEW cost, Grants(key, cost),
         key \notin evicted' => Total(spent[key], Recent) + cost <= limit
  PROVE  SlidingBound'
<1> DEFINE W(end) == {t \in Times : end - windowMs < t /\ t <= end}
<1> SUFFICES ASSUME NEW k \in EntryKeys \ evicted', NEW end \in Times
             PROVE  Total(spent'[k], W(end)) <= limit
  BY DEF SlidingBound, InWindow, EntryKeys, Times
<1>1. k \in EntryKeys \ evicted /\ LimiterTyped /\ now \in Times /\ cost \in Nat
  BY LimiterNumbers DEF Grants, LimiterInv, LimiterTyped
<1>2. Total(spent[k], W(end)) <= limit
  BY <1>1 DEF Grants, LimiterInv, SlidingBound, InWindow
<1>3. W(end) \in SUBSET Times /\ Recent \in SUBSET Times
  BY RecentTimes
<1>4. CASE k # key
  BY <1>1, <1>2, <1>4, GrantAdds
<1>5. CASE k = key
  <2>1. IsFiniteSet(W(end)) /\ \A t \in W(end) : spent[key][t] \in Nat
    BY <1>1, <1>3, <1>5, SpentIsNat
  <2>2. \A t \in W(end) : spent'[key][t] = IF t = now THEN spent[key][t] + cost ELSE spent[key][t]
    BY <1>1, <1>5, GrantAdds
  <2>3. Total(spent'[key], W(end)) = Total(spent[key], W(end)) + IF now \in W(end) THEN cost ELSE 0
    <3>1. PICK f, g, T, x : f = spent[key] /\ g = spent'[key] /\ T = W(end) /\ x = now
      OBVIOUS
    <3> HIDE DEF W
    <3>2. \A t \in T : f[t] \in Nat /\ g[t] = IF t = x THEN f[t] + cost ELSE f[t]
      BY <2>1, <2>2, <3>1
    <3>3. Adds(f, g, T, x, cost)
      BY <1>1, <2>1, <3>1, <3>2 DEF Adds
    <3>4. Total(g, T) = Total(f, T) + IF x \in T THEN cost ELSE 0
      BY <3>3, TotalAdds
    <3> QED BY <3>1, <3>4
  <2>4. Total(spent[key], W(end)) \in Nat
    BY <1>1, <1>3, <1>5, SpentIsNat
  <2>5. CASE now \notin W(end)
    BY <1>2, <1>5, <2>3, <2>4, <2>5
  <2>6. CASE now \in W(end)
    <3>1. W(end) \subseteq Recent
      <4>1. now \in Nat /\ end \in Nat /\ windowMs \in Nat /\ Times \subseteq Nat /\ now <= end
        BY <1>1, <2>6, LimiterNumbers
      <4>2. \A t \in Nat : end - windowMs < t => t > now - windowMs
        BY <4>1
      <4> QED BY <4>1, <4>2 DEF Recent
    <3>2. /\ IsFiniteSet(Recent) /\ \A t \in Recent : spent[key][t] \in Nat
          /\ Total(spent[key], Recent) \in Nat
      BY <1>1, <1>3, <1>5, SpentIsNat
    <3>3. Total(spent[key], W(end)) <= Total(spent[key], Recent)
      BY <3>1, <3>2, TotalIsMonotone
    <3>4. Total(spent[key], Recent) + cost <= limit
      BY <1>5
    <3>5. Total(spent'[key], W(end)) = Total(spent[key], W(end)) + cost
      BY <2>3, <2>6
    <3> QED BY <1>1, <1>5, <2>4, <3>2, <3>3, <3>4, <3>5, LimiterNumbers
  <2> QED BY <2>5, <2>6
<1> QED BY <1>4, <1>5

(* Entries of other keys do not notice a grant, nor do keys without an entry. *)
LEMMA GrantPassesOthers ==
  ASSUME NEW key, NEW cost, Grants(key, cost), NEW e \in Entry, EntryTells(e), e.key # key
  PROVE  EntryTells(e)'
<1>1. e.key \in EntryKeys
  BY DEF Entry
<1>2. spent'[e.key] = spent[e.key]
  BY <1>1, GrantAdds
<1>3. evicted \subseteq evicted' /\ Recent' = Recent /\ Times' = Times
  BY GrantKeepsRest DEF Grants, Times
<1> QED BY <1>2, <1>3 DEF EntryTells

LEMMA EntriesAre ==
  ASSUME LimiterInv, NEW n \in DOMAIN store
  PROVE  /\ store[n] \in Entry /\ EntryTells(store[n])
         /\ store[n].key \in EntryKeys /\ store[n].requests \in [Times -> Nat]
         /\ store[n].resetTime \in Nat
<1>1. store[n] \in Entry
  BY DEF LimiterInv, LimiterTyped
<1>2. EntryTells(store[n])
  BY DEF LimiterInv
<1> QED BY <1>1, <1>2 DEF Entry

LEMMA KeysAre ==
  ASSUME LimiterTyped, NEW identifier \in Identifiers, NEW key, key = StoreKey(identifier)
  PROVE  /\ key \in EntryKeys
         /\ ~Stored(key) => (key \in Namespaces <=> Full)
<1>1. NamespaceOf[identifier] \in Namespaces /\ identifier \notin Namespaces
  BY LimiterAssumption
<1> QED BY <1>1 DEF StoreKey, EntryKeys

(* An identifier or a namespace that has no entry gets one, and the first    *)
(* entry makes room for a namespace's.                                       *)
LEMMA FirstRequestKeeps ==
  ASSUME LimiterInv, NEW identifier \in Identifiers, NEW cost \in Costs,
         NEW key, key = StoreKey(identifier), Open(key, cost), now' = now
  PROVE  LimiterInv'
<1> DEFINE room == MadeRoom(key)
           fresh == [key |-> key, requests |-> With(NoRequests, cost),
                     resetTime |-> now + windowMs]
<1>1. LimiterTyped /\ key \in EntryKeys /\ (key \in Namespaces <=> Full) /\ ~Stored(key)
  BY KeysAre DEF Open, LimiterInv
<1>2. cost \in Nat \ {0} /\ cost <= limit /\ now \in Times /\ Times \subseteq Nat
  BY <1>1, LimiterNumbers DEF LimiterTyped
<1>3. store \in Seq(Entry) /\ Len(store) \in Nat /\ DOMAIN store = 1 .. Len(store)
  BY <1>1 DEF LimiterTyped
<1>4. key \in Namespaces => Len(store) > 0 /\ store # <<>>
  BY <1>1, <1>3, LimiterNumbers DEF Full
<1>5. /\ room \in Seq(Entry) /\ Len(room) + 1 <= MaxStoreEntries /\ Len(room) \in Nat
      /\ \A n \in 1 .. Len(room) : \E m \in DOMAIN store :
           room[n] = store[m] /\ m = IF key \in Namespaces THEN n + 1 ELSE n
  <2>1. Len(store) <= MaxStoreEntries /\ MaxStoreEntries \in Nat
    BY LimiterNumbers DEF LimiterInv
  <2>2. CASE key \in Namespaces
    BY <1>3, <1>4, <2>1, <2>2 DEF MadeRoom
  <2>3. CASE key \notin Namespaces
    BY <1>1, <1>3, <2>1, <2>3 DEF MadeRoom, Full
  <2> QED BY <2>2, <2>3
<1>6. evicted' = IF key \in Namespaces THEN evicted \cup {store[1].key} ELSE evicted
  <2>1. evicted' = IF key \in Namespaces THEN evicted \cup {Head(store).key} ELSE evicted
    BY DEF Open
  <2>2. key \in Namespaces => Head(store) = store[1]
    BY <1>3, <1>4
  <2> QED BY <2>1, <2>2, Zenon
<1>7. evicted \subseteq evicted' /\ evicted' \subseteq EntryKeys
  <2>1. key \in Namespaces => store[1].key \in EntryKeys
    BY <1>3, <1>4, EntriesAre
  <2>2. evicted \subseteq EntryKeys
    BY <1>1 DEF LimiterTyped
  <2> QED BY <1>6, <2>1, <2>2
<1>8. Grants(key, cost)
  BY <1>1, <1>7 DEF Grants, Open
<1>9. PICK u : u = fresh
  OBVIOUS
<1>10. /\ u \in Entry /\ u.key = key /\ u.resetTime = now + windowMs
       /\ \A t \in Times : u.requests[t] = IF t = now THEN cost ELSE 0
  <2>1. With(NoRequests, cost) \in [Times -> Nat]
    BY <1>2 DEF With, NoRequests
  <2>2. \A t \in Times : With(NoRequests, cost)[t] = IF t = now THEN cost ELSE 0
    BY <1>2 DEF With, NoRequests
  <2>3. now + windowMs \in Nat
    BY <1>2, LimiterNumbers
  <2> QED BY <1>1, <1>9, <2>1, <2>2, <2>3 DEF Entry
<1>11. store' = Append(room, u)
  BY <1>9 DEF Open
<1> HIDE DEF room, fresh
<1>12. /\ store' \in Seq(Entry) /\ DOMAIN store' = 1 .. Len(room) + 1
       /\ Len(store') = Len(room) + 1 /\ store'[Len(room) + 1] = u
       /\ \A n \in 1 .. Len(room) : store'[n] = room[n]
  BY <1>5, <1>10, <1>11
<1>13. \A n \in 1 .. Len(room) : store'[n].key # key
  BY <1>1, <1>5, <1>12 DEF Stored
<1>14. KeysOnce(store)'
  <2>1. \A m, n \in 1 .. Len(room) : store'[m].key = store'[n].key => m = n
    <3> SUFFICES ASSUME NEW m \in 1 .. Len(room), NEW n \in 1 .. Len(room),
                        store'[m].key = store'[n].key
                 PROVE  m = n
      OBVIOUS
    <3>1. PICK i \in DOMAIN store, j \in DOMAIN store :
            /\ room[m] = store[i] /\ i = IF key \in Namespaces THEN m + 1 ELSE m
            /\ room[n] = store[j] /\ j = IF key \in Namespaces THEN n + 1 ELSE n
      BY <1>5
    <3>2. i = j
      BY <1>12, <3>1 DEF LimiterInv, KeysOnce
    <3> QED BY <3>1, <3>2
  <2>2. \A m \in 1 .. Len(room) + 1 : m \in 1 .. Len(room) \/ m = Len(room) + 1
    BY <1>5
  <2> QED BY <1>10, <1>12, <1>13, <2>1, <2>2 DEF KeysOnce
<1>15. ~Stored(key) /\ key \notin evicted => \A t \in Recent : spent[key][t] = 0
  BY <1>1 DEF LimiterInv, Forgotten
<1>16. \A n \in DOMAIN store' : EntryTells(store[n])'
  <2> SUFFICES ASSUME NEW n \in DOMAIN store' PROVE EntryTells(store[n])'
    OBVIOUS
  <2>1. PICK e : e = store'[n]
    OBVIOUS
  <2>2. CASE n \in 1 .. Len(room)
    <3>1. e \in Entry /\ EntryTells(e)
      BY <1>5, <1>12, <2>1, <2>2, EntriesAre
    <3>2. EntryTells(e)'
      BY <1>8, <1>13, <2>1, <2>2, <3>1, GrantPassesOthers
    <3> QED BY <2>1, <3>2 DEF EntryTells
  <2>3. CASE n = Len(room) + 1
    <3>1. e = u /\ u.key = key
      BY <1>10, <1>12, <2>1, <2>3
    <3>2. \A t \in Times : spent'[key][t] = IF t = now THEN spent[key][t] + cost ELSE spent[key][t]
      BY <1>1, <1>8, GrantAdds
    <3>3. \A t \in Times : spent[key][t] \in Nat
      BY <1>1 DEF LimiterTyped
    <3>4. \A t \in Times : u.requests[t] <= spent'[key][t]
      BY <1>2, <1>10, <3>2, <3>3
    <3>5. key \notin evicted' => \A t \in Recent : u.requests[t] = spent'[key][t]
      BY <1>1, <1>2, <1>7, <1>10, <1>15, <3>2, RecentTimes
    <3>6. \A t \in Times : u.requests[t] > 0 => t + windowMs <= u.resetTime
      BY <1>2, <1>10, LimiterNumbers
    <3>7. Recent' = Recent /\ Times' = Times
      BY <1>8, GrantKeepsRest DEF Times
    <3> QED BY <2>1, <3>1, <3>4, <3>5, <3>6, <3>7 DEF EntryTells
  <2> QED BY <1>5, <1>12, <2>2, <2>3
<1>17. \A k \in EntryKeys : Forgotten(k)'
  <2> SUFFICES ASSUME NEW k \in EntryKeys, k \notin evicted', ~Stored(k)'
               PROVE  \A t \in Recent : spent'[k][t] = 0
    BY <1>8, GrantKeepsRest DEF Forgotten
  <2>1. Len(room) + 1 \in DOMAIN store' /\ store'[Len(room) + 1].key = key
    BY <1>5, <1>10, <1>12
  <2>2. k # key
    BY <2>1 DEF Stored
  <2>3. ~Stored(k)
    <3> SUFFICES ASSUME NEW m \in DOMAIN store, store[m].key = k PROVE FALSE
      BY DEF Stored
    <3>1. key \in Namespaces => m # 1
      BY <1>6
    <3>2. \E n \in 1 .. Len(room) : room[n] = store[m]
      <4>1. CASE key \in Namespaces
        <5>1. room = Tail(store) /\ m - 1 \in 1 .. Len(room)
          BY <1>3, <1>4, <3>1, <4>1 DEF room, MadeRoom
        <5>2. room[m - 1] = store[m]
          BY <1>3, <1>4, <5>1
        <5> QED BY <5>1, <5>2
      <4>2. CASE key \notin Namespaces
        BY <1>3, <4>2 DEF room, MadeRoom
      <4> QED BY <4>1, <4>2
    <3>3. PICK n \in 1 .. Len(room) : room[n] = store[m]
      BY <3>2
    <3>4. n \in DOMAIN store' /\ store'[n].key = k
      BY <1>5, <1>12, <3>3
    <3> QED BY <3>4 DEF Stored
  <2>4. spent'[k] = spent[k]
    BY <1>8, <2>2, GrantAdds
  <2> QED BY <1>7, <2>3, <2>4 DEF LimiterInv, Forgotten
<1>18. SlidingBound'
  <2>1. key \notin evicted' => Total(spent[key], Recent) + cost <= limit
    <3> SUFFICES ASSUME key \notin evicted' PROVE Total(spent[key], Recent) + cost <= limit
      OBVIOUS
    <3>1. \A t \in Recent : spent[key][t] = 0
      BY <1>1, <1>7, <1>15
    <3>2. Total(spent[key], Recent) = 0
      BY <3>1, TotalOfNothing
    <3> QED BY <1>2, <3>2
  <2> QED BY <1>8, <2>1, GrantStaysInBound
<1>19. LimiterTyped' /\ NoFuture' /\ RefusalJustified' /\ Len(store') <= MaxStoreEntries
  BY <1>5, <1>7, <1>8, <1>12, GrantAdds, GrantKeepsRest
    DEF LimiterTyped, Times, Entry, EntryKeys, Refusal
<1> QED BY <1>14, <1>16, <1>17, <1>18, <1>19 DEF LimiterInv

-----------------------------------------------------------------------------
(* A request that finds the entry of its key changes that entry only.        *)
Rewrites(i, u) ==
  /\ LimiterInv /\ i \in DOMAIN store
  /\ u \in Entry /\ u.key = store[i].key /\ store' = [store EXCEPT ![i] = u]

LEMMA RewriteKeeps ==
  ASSUME NEW i, NEW u, Rewrites(i, u)
  PROVE  /\ store' \in Seq(Entry) /\ Len(store') = Len(store) /\ KeysOnce(store)'
         /\ DOMAIN store' = DOMAIN store /\ store'[i] = u
         /\ \A n \in DOMAIN store : n # i => store'[n] = store[n] /\ store[n].key # u.key
         /\ \A k : Stored(k)' <=> Stored(k)
<1>1. store \in Seq(Entry) /\ i \in DOMAIN store /\ u \in Entry /\ u.key = store[i].key
  BY DEF Rewrites, LimiterInv, LimiterTyped
<1>2. store' = [store EXCEPT ![i] = u] /\ KeysOnce(store)
  BY DEF Rewrites, LimiterInv
<1>3. /\ store' \in Seq(Entry) /\ Len(store') = Len(store) /\ DOMAIN store' = DOMAIN store
      /\ store'[i] = u /\ \A n \in DOMAIN store : n # i => store'[n] = store[n]
  BY <1>1, <1>2
<1>4. \A n \in DOMAIN store : store'[n].key = store[n].key
  BY <1>1, <1>3
<1>5. KeysOnce(store)'
  BY <1>2, <1>3, <1>4 DEF KeysOnce
<1>6. \A k : Stored(k)' <=> Stored(k)
  BY <1>3, <1>4 DEF Stored
<1>7. \A n \in DOMAIN store : n # i => store[n].key # u.key
  BY <1>1, <1>2 DEF KeysOnce
<1> QED BY <1>3, <1>5, <1>6, <1>7

LEMMA IndexOf ==
  ASSUME LimiterInv, NEW key, Stored(key), NEW i, i = Index(key)
  PROVE  i \in DOMAIN store /\ store[i].key = key
BY DEF Stored, Index

LEMMA AdmitKeeps ==
  ASSUME LimiterInv, NEW key \in EntryKeys, NEW cost \in Costs, Admit(key, cost), now' = now
  PROVE  LimiterInv'
<1>1. PICK i : i = Index(key)
  OBVIOUS
<1>2. i \in DOMAIN store /\ store[i].key = key
  BY <1>1, IndexOf DEF Admit
<1>3. PICK e, requests : e = store[i] /\ requests = With(Live(e.requests), cost)
  OBVIOUS
<1>4. e \in Entry /\ EntryTells(e) /\ e.key = key /\ e.requests \in [Times -> Nat]
  BY <1>2, <1>3, EntriesAre
<1>5. cost \in Nat \ {0} /\ now \in Times /\ Times \subseteq Nat /\ now \in Nat /\ windowMs \in Nat
  BY LimiterNumbers DEF LimiterInv, LimiterTyped
<1>6. Live(e.requests) \in [Times -> Nat]
  BY <1>4, UsedIsRecent
<1>7. /\ requests \in [Times -> Nat]
      /\ \A t \in Times :
           requests[t] = Live(e.requests)[t] + IF t = now THEN cost ELSE 0
  BY <1>3, <1>5, <1>6 DEF With
<1>8. \A t \in Times : Live(e.requests)[t] = IF t \in Recent THEN e.requests[t] ELSE 0
  BY DEF Live, Recent
<1>9. PICK u : u = [e EXCEPT !.requests = requests, !.resetTime = now + windowMs]
  OBVIOUS
<1>10. now + windowMs \in Nat
  BY <1>5
<1>11. u \in Entry /\ u.key = key /\ u.requests = requests /\ u.resetTime = now + windowMs
  BY <1>4, <1>7, <1>9, <1>10 DEF Entry
<1>12. store' = [store EXCEPT ![i] = u]
  <2>1. store' = [store EXCEPT ![i] =
                    [@ EXCEPT !.requests = requests, !.resetTime = now + windowMs]]
    BY <1>1, <1>3 DEF Admit, Extended
  <2> QED BY <1>2, <1>3, <1>9, <2>1
<1>13. Rewrites(i, u) /\ evicted' = evicted
  BY <1>2, <1>11, <1>12 DEF Rewrites, Admit
<1>14. Grants(key, cost)
  BY <1>13 DEF Grants, Admit
<1>15. Recent' = Recent /\ Times' = Times
  BY <1>14, GrantKeepsRest DEF Times
<1>16. \A n \in DOMAIN store' : EntryTells(store[n])'
  <2> SUFFICES ASSUME NEW n \in DOMAIN store' PROVE EntryTells(store[n])'
    OBVIOUS
  <2>1. CASE n = i
    <3>1. \A t \in Times : spent'[key][t] = spent[key][t] + IF t = now THEN cost ELSE 0
      <4>1. \A t \in Times : spent[key][t] \in Nat
        BY DEF LimiterInv, LimiterTyped
      <4>2. \A t \in Times :
              spent'[key][t] = IF t = now THEN spent[key][t] + cost ELSE spent[key][t]
        BY <1>14, GrantAdds
      <4> SUFFICES ASSUME NEW t \in Times
                   PROVE  spent'[key][t] = spent[key][t] + IF t = now THEN cost ELSE 0
        OBVIOUS
      <4>3. PICK a \in Nat : a = spent[key][t]
        BY <4>1
      <4>4. spent'[key][t] = IF t = now THEN a + cost ELSE a
        BY <4>2, <4>3
      <4>5. spent'[key][t] = a + IF t = now THEN cost ELSE 0
        BY <1>5, <4>4
      <4> QED BY <4>3, <4>5
    <3>2. \A t \in Times : spent[key][t] \in Nat /\ e.requests[t] \in Nat
      BY <1>4 DEF LimiterInv, LimiterTyped
    <3>3. \A t \in Times : requests[t] <= spent'[key][t]
      <4> SUFFICES ASSUME NEW t \in Times PROVE requests[t] <= spent'[key][t]
        OBVIOUS
      <4>1. e.requests[t] <= spent[key][t]
        BY <1>4 DEF EntryTells
      <4>2. Live(e.requests)[t] \in Nat /\ Live(e.requests)[t] <= spent[key][t]
        BY <1>8, <3>2, <4>1
      <4>3. PICK a \in Nat, b \in Nat :
              a = Live(e.requests)[t] /\ b = spent[key][t]
        BY <3>2, <4>2
      <4>4. /\ requests[t] = a + IF t = now THEN cost ELSE 0
            /\ spent'[key][t] = b + IF t = now THEN cost ELSE 0
        BY <1>7, <3>1, <4>3
      <4> QED BY <1>5, <4>2, <4>3, <4>4
    <3>4. key \notin evicted => \A t \in Recent : requests[t] = spent'[key][t]
      BY <1>4, <1>5, <1>7, <1>8, <3>1, <3>2, RecentTimes DEF EntryTells
    <3>5. \A t \in Times : requests[t] > 0 => t + windowMs <= now + windowMs
      <4> SUFFICES ASSUME NEW t \in Times, t > now PROVE requests[t] = 0
        BY <1>5
      <4>1. spent[key][t] = 0
        BY DEF LimiterInv, NoFuture
      <4>2. e.requests[t] = 0
        BY <1>4, <3>2, <4>1 DEF EntryTells
      <4>3. t # now
        BY <1>5
      <4> QED BY <1>7, <1>8, <4>2, <4>3
    <3>6. store'[n] = u
      BY <1>13, <2>1, RewriteKeeps
    <3> QED BY <1>11, <1>13, <1>15, <3>3, <3>4, <3>5, <3>6 DEF EntryTells
  <2>2. CASE n # i
    <3>1. PICK o : o = store[n]
      OBVIOUS
    <3>2. n \in DOMAIN store /\ store'[n] = o /\ o.key # key
      BY <1>11, <1>13, <2>2, <3>1, RewriteKeeps
    <3>3. o \in Entry /\ EntryTells(o)
      BY <3>1, <3>2, EntriesAre
    <3>4. EntryTells(o)'
      BY <1>14, <3>2, <3>3, GrantPassesOthers
    <3> QED BY <3>2, <3>4 DEF EntryTells
  <2> QED BY <2>1, <2>2
<1>17. \A k \in EntryKeys : Forgotten(k)'
  <2> SUFFICES ASSUME NEW k \in EntryKeys, k \notin evicted', ~Stored(k)'
               PROVE  \A t \in Recent : spent'[k][t] = 0
    BY <1>15 DEF Forgotten
  <2>1. ~Stored(k)
    BY <1>13, RewriteKeeps
  <2>2. k # key
    BY <2>1 DEF Admit
  <2> QED BY <1>13, <1>14, <2>1, <2>2, GrantAdds DEF LimiterInv, Forgotten
<1>18. SlidingBound'
  <2>1. key \notin evicted' => Total(spent[key], Recent) + cost <= limit
    <3>1. Used(Live(e.requests)) + cost <= limit
      BY <1>1, <1>3 DEF Admit
    <3> QED BY <1>2, <1>3, <1>13, <3>1, UsedIsSpent
  <2> QED BY <1>14, <2>1, GrantStaysInBound
<1>19. LimiterTyped' /\ NoFuture' /\ RefusalJustified' /\ Len(store') <= MaxStoreEntries
  <2>1. /\ NoFuture' /\ RefusalJustified' /\ refusal' = <<>> /\ now' \in Times
        /\ spent' \in [EntryKeys -> [Times -> Nat]]
    BY <1>14, GrantAdds, GrantKeepsRest
  <2>2. store' \in Seq(Entry) /\ Len(store') = Len(store)
    BY <1>13, RewriteKeeps
  <2> QED BY <1>13, <2>1, <2>2 DEF LimiterInv, LimiterTyped, Times, Entry, EntryKeys
<1>20. KeysOnce(store)'
  BY <1>13, RewriteKeeps
<1> QED BY <1>16, <1>17, <1>18, <1>19, <1>20 DEF LimiterInv

LEMMA RefuseKeeps ==
  ASSUME LimiterInv, NEW key \in EntryKeys, NEW cost \in Costs, Refuse(key, cost), now' = now
  PROVE  LimiterInv'
<1>1. PICK i : i = Index(key)
  OBVIOUS
<1>2. i \in DOMAIN store /\ store[i].key = key
  BY <1>1, IndexOf DEF Refuse
<1>3. PICK e, live : e = store[i] /\ live = Live(e.requests)
  OBVIOUS
<1>4. e \in Entry /\ EntryTells(e) /\ e.key = key /\ e.requests \in [Times -> Nat]
  BY <1>2, <1>3, EntriesAre
<1>5. cost \in Nat /\ now \in Times /\ LimiterTyped
  BY LimiterNumbers DEF LimiterInv, LimiterTyped
<1>6. live \in [Times -> Nat] /\ Used(live) = Total(e.requests, Recent)
  BY <1>3, <1>4, UsedIsRecent
<1>7. \A t \in Times : live[t] = IF t \in Recent THEN e.requests[t] ELSE 0
  BY <1>3 DEF Live, Recent
<1>8. PICK u : u = [e EXCEPT !.requests = live]
  OBVIOUS
<1>9. u \in Entry /\ u.key = key /\ u.requests = live /\ u.resetTime = e.resetTime
  BY <1>4, <1>6, <1>8 DEF Entry
<1>10. store' = [store EXCEPT ![i] = u]
  <2>1. store' = [store EXCEPT ![i].requests = live]
    BY <1>1, <1>3 DEF Refuse
  <2> QED BY <1>2, <1>3, <1>8, <2>1
<1>11. Rewrites(i, u) /\ UNCHANGED <<spent, evicted>>
  BY <1>2, <1>9, <1>10 DEF Rewrites, Refuse
<1>12. Recent' = Recent /\ Times' = Times
  BY DEF Recent, Times
<1>13. \A n \in DOMAIN store' : EntryTells(store[n])'
  <2> SUFFICES ASSUME NEW n \in DOMAIN store' PROVE EntryTells(store[n])'
    OBVIOUS
  <2>1. CASE n = i
    <3>1. \A t \in Times : spent[key][t] \in Nat /\ e.requests[t] \in Nat
      BY <1>4, <1>5 DEF LimiterTyped
    <3>2. \A t \in Times : live[t] <= spent[key][t]
      BY <1>4, <1>7, <3>1 DEF EntryTells
    <3>3. key \notin evicted => \A t \in Recent : live[t] = spent[key][t]
      BY <1>4, <1>7, RecentTimes DEF EntryTells
    <3>4. \A t \in Times : live[t] > 0 => t + windowMs <= e.resetTime
      BY <1>4, <1>7, <3>1 DEF EntryTells
    <3>5. store'[n] = u
      BY <1>11, <2>1, RewriteKeeps
    <3> QED BY <1>9, <1>11, <1>12, <3>2, <3>3, <3>4, <3>5 DEF EntryTells
  <2>2. CASE n # i
    <3>1. n \in DOMAIN store /\ store'[n] = store[n]
      BY <1>11, <2>2, RewriteKeeps
    <3>2. EntryTells(store[n])
      BY <3>1, EntriesAre
    <3> QED BY <1>11, <1>12, <3>1, <3>2 DEF EntryTells
  <2> QED BY <2>1, <2>2
<1>14. \A k \in EntryKeys : Forgotten(k)'
  <2>1. \A k \in EntryKeys : Forgotten(k)
    BY DEF LimiterInv
  <2> QED BY <1>11, <1>12, <2>1, RewriteKeeps DEF Forgotten
<1>15. refusal' = [key |-> key, at |-> now, cost |-> cost] /\ refusal' # <<>>
  BY DEF Refuse
<1>16. InWindow(key, now) + cost > limit
  <2> DEFINE W == {t \in Times : now - windowMs < t /\ t <= now}
             asked == e.requests
             granted == spent[key]
  <2>1. IsFiniteSet(W) /\ W \subseteq Times /\ (\A t \in W : granted[t] \in Nat)
        /\ Total(granted, W) \in Nat
    BY <1>5, SpentIsNat
  <2>2. Tallies(asked, Recent) \subseteq Tallies(granted, W)
    <3> SUFFICES ASSUME NEW t \in Recent, NEW n \in 1 .. asked[t]
                 PROVE  t \in W /\ n \in 1 .. granted[t]
      BY DEF Tallies
    <3>1. t \in Times /\ t \in Nat /\ now \in Nat /\ asked[t] \in Nat /\ granted[t] \in Nat
      BY <1>4, <1>5, LimiterNumbers, RecentTimes DEF LimiterTyped
    <3>2. asked[t] <= granted[t]
      BY <1>4, <3>1 DEF EntryTells
    <3>3. t > now => granted[t] = 0
      BY <3>1 DEF LimiterInv, NoFuture
    <3>4. ~(t > now)
      BY <3>1, <3>2, <3>3
    <3> QED BY <3>1, <3>2, <3>4, LimiterNumbers DEF Recent
  <2>3. IsFiniteSet(Tallies(granted, W))
    BY <2>1, TalliesFinite
  <2>4. Total(asked, Recent) <= Total(granted, W) /\ Total(asked, Recent) \in Nat
    BY <2>2, <2>3, FS_Subset, FS_CardinalityType DEF Total
  <2>5. Used(live) + cost > limit
    BY <1>1, <1>3 DEF Refuse
  <2>6. InWindow(key, now) = Total(granted, W)
    BY DEF InWindow
  <2> HIDE DEF W, asked, granted
  <2>7. Total(asked, Recent) + cost > limit
    BY <1>6, <2>5 DEF asked
  <2> QED BY <1>5, <2>1, <2>4, <2>6, <2>7, LimiterNumbers
<1>17. RefusalJustified'
  BY <1>11, <1>12, <1>15, <1>16 DEF RefusalJustified, InWindow
<1>18. SlidingBound'
  BY <1>11, <1>12 DEF LimiterInv, SlidingBound, InWindow, EntryKeys
<1>19. NoFuture'
  <2>1. \A k \in EntryKeys : \A t \in Times : t > now' => spent'[k][t] = 0
    BY <1>11 DEF LimiterInv, NoFuture
  <2>2. refusal'.at <= now'
    BY <1>5, <1>15, LimiterNumbers
  <2> QED BY <1>12, <2>1, <2>2 DEF NoFuture, EntryKeys
<1>20. LimiterTyped' /\ Len(store') <= MaxStoreEntries /\ KeysOnce(store)'
  <2>1. refusal' \in Refusal
    BY <1>5, <1>15 DEF Refusal
  <2>2. store' \in Seq(Entry) /\ Len(store') = Len(store) /\ KeysOnce(store)'
    BY <1>11, RewriteKeeps
  <2> QED BY <1>5, <1>11, <2>1, <2>2 DEF LimiterInv, LimiterTyped, Times, Entry, EntryKeys, Refusal
<1> QED BY <1>13, <1>14, <1>17, <1>18, <1>19, <1>20 DEF LimiterInv

-----------------------------------------------------------------------------
(* The timer's loop *)

(* What becomes of the entry that is looked at in the n-th place. *)
Swept(kept_, n) ==
  IF n <= Len(store) /\ Kept(store[n]) THEN Append(kept_, store[n]) ELSE kept_

LEMMA KeptIs ==
  /\ kept[0] = <<>>
  /\ \A n \in 1 .. MaxStoreEntries : kept[n] = Swept(kept[n - 1], n)
<1> DEFINE Loop(n, f) == \A i \in 0 .. n : f[i] = IF i = 0 THEN <<>> ELSE Swept(f[i - 1], i)
           Lacking == {n \in 0 .. MaxStoreEntries : \A f : ~Loop(n, f)}
<1>1. MaxStoreEntries \in Nat
  BY LimiterNumbers
<1>2. Lacking = {}
  <2> SUFFICES ASSUME Lacking # {} PROVE FALSE
    OBVIOUS
  <2>1. PICK n \in Lacking : \A m \in Lacking : n <= m
    <3>1. Lacking \subseteq Nat
      BY <1>1
    <3> HIDE DEF Lacking
    <3> QED BY <3>1, LeastNatural
  <2>2. n # 0
    <3>1. Loop(0, [i \in {0} |-> <<>>])
      OBVIOUS
    <3> QED BY <3>1
  <2>3. n - 1 \in 0 .. MaxStoreEntries /\ n - 1 \notin Lacking /\ n \in Nat
    <3>1. n \in 0 .. MaxStoreEntries
      BY <2>1
    <3>2. n \in Nat /\ n - 1 \in 0 .. MaxStoreEntries /\ ~(n <= n - 1)
      BY <1>1, <2>2, <3>1
    <3> HIDE DEF Lacking
    <3> QED BY <2>1, <3>2
  <2>4. PICK f : Loop(n - 1, f)
    BY <2>3
  <2>5. PICK g : g = [i \in 0 .. n |-> IF i = n THEN Swept(f[n - 1], n) ELSE f[i]]
    OBVIOUS
  <2>6. Loop(n, g)
    <3> SUFFICES ASSUME NEW i \in 0 .. n
                 PROVE  g[i] = IF i = 0 THEN <<>> ELSE Swept(g[i - 1], i)
      OBVIOUS
    <3>1. CASE i = n
      <4>1. g[i] = Swept(f[n - 1], n) /\ g[n - 1] = f[n - 1]
        BY <2>2, <2>3, <2>5, <3>1
      <4> QED BY <2>2, <3>1, <4>1
    <3>2. CASE i # n
      <4>1. i \in 0 .. n - 1 /\ g[i] = f[i]
        BY <2>3, <2>5, <3>2
      <4>2. i # 0 => g[i - 1] = f[i - 1]
        BY <2>3, <2>5, <4>1
      <4> QED BY <2>4, <4>1, <4>2
    <3> QED BY <3>1, <3>2
  <2> QED BY <2>1, <2>6
<1>3. PICK f : Loop(MaxStoreEntries, f)
  <2>1. MaxStoreEntries \in 0 .. MaxStoreEntries
    BY <1>1
  <2> HIDE DEF Loop
  <2> QED BY <1>2, <2>1
<1>4. PICK g : g = [i \in 0 .. MaxStoreEntries |-> f[i]]
  OBVIOUS
<1>5. g = [n \in 0 .. MaxStoreEntries |-> IF n = 0 THEN <<>> ELSE Swept(g[n - 1], n)]
  <2>1. \A n \in 0 .. MaxStoreEntries : g[n] = IF n = 0 THEN <<>> ELSE Swept(g[n - 1], n)
    <3> SUFFICES ASSUME NEW n \in 0 .. MaxStoreEntries
                 PROVE  g[n] = IF n = 0 THEN <<>> ELSE Swept(g[n - 1], n)
      OBVIOUS
    <3>1. n # 0 => n - 1 \in 0 .. MaxStoreEntries
      BY <1>1
    <3> QED BY <1>3, <1>4, <3>1
  <2> QED BY <1>4, <2>1
<1>6. kept = [n \in 0 .. MaxStoreEntries |-> IF n = 0 THEN <<>> ELSE Swept(kept[n - 1], n)]
  BY <1>5 DEF kept, Swept
<1> QED BY <1>1, <1>6

(* The loop has looked at the first n entries: it has dropped those that are *)
(* over and kept the others.                                                 *)
Sifted(n) ==
  /\ kept[n] \in Seq(Entry) /\ Len(kept[n]) <= n
  /\ \A k \in DOMAIN kept[n] : \E m \in DOMAIN store : m <= n /\ kept[n][k] = store[m]
  /\ \A m \in DOMAIN store : m <= n /\ Kept(store[m]) => \E k \in DOMAIN kept[n] : kept[n][k] = store[m]
  /\ KeysOnce(kept[n])

LEMMA LoopSifts ==
  ASSUME LimiterInv
  PROVE  \A n \in 0 .. MaxStoreEntries : Sifted(n)
<1> DEFINE Bad == {n \in 0 .. MaxStoreEntries : ~Sifted(n)}
<1> SUFFICES ASSUME Bad # {} PROVE FALSE
  OBVIOUS
<1>1. MaxStoreEntries \in Nat /\ store \in Seq(Entry) /\ DOMAIN store = 1 .. Len(store)
  BY LimiterNumbers DEF LimiterInv, LimiterTyped
<1>2. PICK n \in Bad : \A m \in Bad : n <= m
  <2>1. Bad \subseteq Nat
    BY <1>1
  <2> HIDE DEF Bad
  <2> QED BY <2>1, LeastNatural
<1>3. CASE n = 0
  <2>1. kept[0] = <<>>
    BY KeptIs
  <2>2. kept[0] \in Seq(Entry) /\ Len(kept[0]) = 0 /\ DOMAIN kept[0] = {}
    BY <2>1
  <2>3. \A m \in DOMAIN store : ~(m <= 0)
    BY <1>1
  <2>4. Sifted(0)
    BY <2>2, <2>3 DEF Sifted, KeysOnce
  <2> QED BY <1>2, <1>3, <2>4
<1>4. CASE n # 0
  <2>1. n \in 1 .. MaxStoreEntries /\ n - 1 \in 0 .. MaxStoreEntries /\ n - 1 \notin Bad
    BY <1>1, <1>2, <1>4
  <2>2. Sifted(n - 1)
    BY <2>1
  <2>3. PICK s, r : s = kept[n - 1] /\ r = kept[n]
    OBVIOUS
  <2>4. r = Swept(s, n) /\ s \in Seq(Entry) /\ Len(s) <= n - 1
    BY <2>1, <2>2, <2>3, KeptIs DEF Sifted
  <2>5. /\ \A k \in DOMAIN s : \E m \in DOMAIN store : m <= n - 1 /\ s[k] = store[m]
        /\ \A m \in DOMAIN store : m <= n - 1 /\ Kept(store[m]) => \E k \in DOMAIN s : s[k] = store[m]
        /\ KeysOnce(s)
    BY <2>2, <2>3 DEF Sifted
  <2>6. CASE n \in DOMAIN store /\ Kept(store[n])
    <3>1. PICK e : e = store[n]
      OBVIOUS
    <3>2. e \in Entry /\ r = Append(s, e)
      BY <1>1, <2>4, <2>6, <3>1 DEF Swept
    <3>3. /\ r \in Seq(Entry) /\ Len(r) = Len(s) + 1 /\ r[Len(s) + 1] = e
          /\ DOMAIN r = 1 .. Len(s) + 1 /\ DOMAIN s = 1 .. Len(s) /\ Len(s) \in Nat
          /\ \A k \in 1 .. Len(s) : r[k] = s[k]
      BY <2>4, <3>2
    <3>4. \A k \in DOMAIN r : k \in DOMAIN s \/ k = Len(s) + 1
      BY <3>3
    <3>5. \A m \in DOMAIN store : m <= n <=> (m <= n - 1 \/ m = n)
      BY <1>1, <2>1
    <3>6. \A k \in DOMAIN r : \E m \in DOMAIN store : m <= n /\ r[k] = store[m]
      BY <2>5, <2>6, <3>1, <3>3, <3>4, <3>5
    <3>7. \A m \in DOMAIN store : m <= n /\ Kept(store[m]) => \E k \in DOMAIN r : r[k] = store[m]
      <4> SUFFICES ASSUME NEW m \in DOMAIN store, m <= n, Kept(store[m])
                   PROVE  \E k \in DOMAIN r : r[k] = store[m]
        OBVIOUS
      <4>1. CASE m = n
        <5>1. Len(s) + 1 \in DOMAIN r
          BY <3>3
        <5> QED BY <3>1, <3>3, <4>1, <5>1
      <4>2. CASE m # n
        <5>1. PICK k \in DOMAIN s : s[k] = store[m]
          BY <2>5, <3>5, <4>2
        <5> QED BY <3>3, <5>1
      <4> QED BY <4>1, <4>2
    <3>8. \A k \in DOMAIN s : s[k].key # e.key
      <4> SUFFICES ASSUME NEW k \in DOMAIN s, s[k].key = e.key PROVE FALSE
        OBVIOUS
      <4>1. PICK m \in DOMAIN store : m <= n - 1 /\ s[k] = store[m]
        BY <2>5
      <4>2. m = n
        <5>1. KeysOnce(store) /\ store[m].key = store[n].key
          BY <3>1, <4>1 DEF LimiterInv
        <5> QED BY <2>6, <4>1, <5>1 DEF KeysOnce
      <4> QED BY <2>1, <4>1, <4>2
    <3>9. KeysOnce(r)
      BY <2>5, <3>3, <3>4, <3>8 DEF KeysOnce
    <3>10. Len(r) <= n
      BY <2>1, <2>4, <3>3
    <3> QED BY <1>2, <2>3, <3>3, <3>6, <3>7, <3>9, <3>10 DEF Sifted
  <2>7. CASE ~(n \in DOMAIN store /\ Kept(store[n]))
    <3>1. r = s
      BY <1>1, <2>1, <2>4, <2>7 DEF Swept
    <3>2. \A m \in DOMAIN store : m <= n <=> (m <= n - 1 \/ m = n)
      BY <1>1, <2>1
    <3>3. Len(r) <= n /\ Len(s) \in Nat
      BY <2>1, <2>4, <3>1
    <3>4. \A k \in DOMAIN r : \E m \in DOMAIN store : m <= n /\ r[k] = store[m]
      BY <2>5, <3>1, <3>2
    <3>5. \A m \in DOMAIN store : m <= n /\ Kept(store[m]) => m <= n - 1
      BY <2>7, <3>2
    <3>6. \A m \in DOMAIN store : m <= n /\ Kept(store[m]) => \E k \in DOMAIN r : r[k] = store[m]
      BY <2>5, <3>1, <3>5
    <3>7. r \in Seq(Entry) /\ KeysOnce(r)
      BY <2>4, <2>5, <3>1
    <3>8. Sifted(n)
      BY <2>3, <3>3, <3>4, <3>6, <3>7 DEF Sifted
    <3> QED BY <1>2, <3>8
  <2> QED BY <2>6, <2>7
<1> QED BY <1>3, <1>4

LEMMA CleanupKeeps ==
  ASSUME LimiterInv, Cleanup
  PROVE  LimiterInv'
<1>1. /\ MaxStoreEntries \in Nat /\ store \in Seq(Entry) /\ DOMAIN store = 1 .. Len(store)
      /\ Len(store) <= MaxStoreEntries
  BY LimiterNumbers DEF LimiterInv, LimiterTyped
<1>2. store' = kept[MaxStoreEntries] /\ UNCHANGED <<now, refusal, spent, evicted>>
  BY DEF Cleanup
<1>3. Sifted(MaxStoreEntries)
  BY <1>1, LoopSifts
<1>4. \A m \in DOMAIN store : m <= MaxStoreEntries
  BY <1>1
<1>5. /\ store' \in Seq(Entry) /\ Len(store') <= MaxStoreEntries /\ KeysOnce(store)'
      /\ \A k \in DOMAIN store' : \E m \in DOMAIN store : store'[k] = store[m]
      /\ \A m \in DOMAIN store : Kept(store[m]) => \E k \in DOMAIN store' : store'[k] = store[m]
  BY <1>2, <1>3, <1>4 DEF Sifted, KeysOnce
<1>6. Recent' = Recent /\ Times' = Times /\ EntryKeys' = EntryKeys
  BY <1>2 DEF Recent, Times, EntryKeys
<1>7. \A k \in DOMAIN store' : EntryTells(store[k])'
  <2> SUFFICES ASSUME NEW k \in DOMAIN store' PROVE EntryTells(store[k])'
    OBVIOUS
  <2>1. PICK m \in DOMAIN store : store'[k] = store[m]
    BY <1>5
  <2>2. EntryTells(store[m])
    BY EntriesAre
  <2> QED BY <1>2, <1>6, <2>1, <2>2 DEF EntryTells
<1>8. \A key \in EntryKeys : Forgotten(key)'
  <2> SUFFICES ASSUME NEW key \in EntryKeys, key \notin evicted, ~Stored(key)', NEW t \in Recent
               PROVE  spent[key][t] = 0
    BY <1>2, <1>6 DEF Forgotten
  <2>1. CASE ~Stored(key)
    BY <2>1 DEF LimiterInv, Forgotten
  <2>2. CASE Stored(key)
    <3>1. PICK m \in DOMAIN store : store[m].key = key
      BY <2>2 DEF Stored
    <3>2. ~Kept(store[m])
      BY <1>5, <3>1 DEF Stored
    <3>3. PICK e : e = store[m]
      OBVIOUS
    <3>4. EntryTells(e) /\ e.key = key /\ e.requests \in [Times -> Nat] /\ e.resetTime \in Nat
      BY <3>1, <3>3, EntriesAre
    <3>5. t \in Times /\ t \in Nat /\ t > now - windowMs /\ now \in Nat /\ windowMs \in Nat
      BY LimiterNumbers, RecentTimes DEF Recent, LimiterInv, LimiterTyped
    <3>6. now > e.resetTime
      BY <3>2, <3>3, <3>4, <3>5 DEF Kept
    <3>7. e.requests[t] > 0 => t + windowMs <= e.resetTime
      BY <3>4, <3>5 DEF EntryTells
    <3>8. e.requests[t] = 0
      BY <3>4, <3>5, <3>6, <3>7
    <3> QED BY <3>4, <3>8 DEF EntryTells
  <2> QED BY <2>1, <2>2
<1>9. LimiterTyped' /\ NoFuture' /\ SlidingBound' /\ RefusalJustified'
  <2>1. LimiterTyped /\ NoFuture /\ SlidingBound /\ RefusalJustified
    BY DEF LimiterInv
  <2> QED BY <1>2, <1>5, <2>1
    DEF LimiterTyped, NoFuture, SlidingBound, RefusalJustified, InWindow, Times, Entry,
        EntryKeys, Refusal
<1> QED BY <1>5, <1>6, <1>7, <1>8, <1>9 DEF LimiterInv

-----------------------------------------------------------------------------
LEMMA TickKeeps ==
  ASSUME LimiterInv, Tick
  PROVE  LimiterInv'
<1>1. now \in Times /\ now \in Nat /\ now' = now + 1 /\ now' \in Times
      /\ UNCHANGED <<store, refusal, spent, evicted>>
  BY LimiterNumbers DEF Tick, LimiterInv, LimiterTyped, Times
<1>2. Recent' \subseteq Recent /\ Times' = Times /\ EntryKeys' = EntryKeys
  BY <1>1, LimiterNumbers DEF Recent, Times, EntryKeys
<1>3. \A n \in DOMAIN store' : EntryTells(store[n])'
  <2>1. \A n \in DOMAIN store : EntryTells(store[n])
    BY DEF LimiterInv
  <2> QED BY <1>1, <1>2, <2>1 DEF EntryTells
<1>4. \A key \in EntryKeys : Forgotten(key)'
  <2>1. \A key \in EntryKeys : Forgotten(key)
    BY DEF LimiterInv
  <2> QED BY <1>1, <1>2, <2>1 DEF Forgotten, Stored
<1>5. NoFuture'
  <2>1. \A t \in Times : t > now' => t > now
    BY <1>1, LimiterNumbers
  <2>2. \A key \in EntryKeys : \A t \in Times : t > now' => spent'[key][t] = 0
    BY <1>1, <2>1 DEF LimiterInv, NoFuture
  <2>3. refusal # <<>> => refusal.at <= now'
    <3>1. refusal # <<>> => refusal.at <= now /\ refusal.at \in Nat
      BY LimiterNumbers DEF LimiterInv, NoFuture, LimiterTyped, Refusal
    <3> QED BY <1>1, <3>1
  <2> QED BY <1>1, <1>2, <2>2, <2>3 DEF NoFuture
<1>6. RefusalJustified'
  <2>1. refusal # <<>> => refusal.at <= now /\ refusal.at \in Nat
    BY LimiterNumbers DEF LimiterInv, NoFuture, LimiterTyped, Refusal
  <2>2. ~(refusal' # <<>> /\ refusal'.at = now')
    BY <1>1, <2>1
  <2> QED BY <2>2 DEF RefusalJustified
<1>7. LimiterTyped' /\ SlidingBound' /\ KeysOnce(store)' /\ Len(store') <= MaxStoreEntries
  BY <1>1 DEF LimiterInv, LimiterTyped, SlidingBound, InWindow, Times, Entry, EntryKeys,
              Refusal, KeysOnce
<1> QED BY <1>2, <1>3, <1>4, <1>5, <1>6, <1>7 DEF LimiterInv

LEMMA LimiterStarts == LimiterInit => LimiterInv
<1> SUFFICES ASSUME LimiterInit PROVE LimiterInv
  OBVIOUS
<1>1. now = 0 /\ store = <<>> /\ refusal = <<>> /\ evicted = {}
  BY DEF LimiterInit
<1>2. /\ spent \in [EntryKeys -> [Times -> Nat]]
      /\ \A key \in EntryKeys, t \in Times : spent[key][t] = 0
  BY DEF LimiterInit
<1>3. 0 \in Times
  BY LimiterNumbers DEF Times
<1>4. store \in Seq(Entry) /\ DOMAIN store = {} /\ Len(store) = 0
  BY <1>1
<1>5. SlidingBound
  <2> SUFFICES ASSUME NEW key \in EntryKeys, NEW end \in Times
               PROVE  Total(spent[key], {t \in Times : end - windowMs < t /\ t <= end}) <= limit
    BY DEF SlidingBound, InWindow
  <2>1. Total(spent[key], {t \in Times : end - windowMs < t /\ t <= end}) = 0
    BY <1>2, TotalOfNothing
  <2> QED BY <2>1, LimiterNumbers
<1>6. LimiterTyped /\ NoFuture /\ RefusalJustified
  BY <1>1, <1>2, <1>3, <1>4 DEF LimiterTyped, NoFuture, RefusalJustified
<1>7. KeysOnce(store) /\ Len(store) <= MaxStoreEntries
  BY <1>4, LimiterNumbers DEF KeysOnce
<1>8. \A key \in EntryKeys : Forgotten(key)
  BY <1>2, RecentTimes DEF Forgotten
<1> QED BY <1>4, <1>5, <1>6, <1>7, <1>8 DEF LimiterInv

LEMMA LimiterSteps == LimiterInv /\ [LimiterNext]_limiterVars => LimiterInv'
<1> SUFFICES ASSUME LimiterInv, [LimiterNext]_limiterVars PROVE LimiterInv'
  OBVIOUS
<1>1. ASSUME NEW identifier \in Identifiers, NEW cost \in Costs, check(identifier, cost)
      PROVE  LimiterInv'
  <2>1. PICK key : key = StoreKey(identifier)
    OBVIOUS
  <2>2. key \in EntryKeys
    BY <2>1, KeysAre DEF LimiterInv
  <2>3. (Open(key, cost) \/ Admit(key, cost) \/ Refuse(key, cost)) /\ now' = now
    BY <1>1, <2>1 DEF check
  <2>4. CASE Open(key, cost)
    BY <2>1, <2>3, <2>4, FirstRequestKeeps
  <2>5. CASE Admit(key, cost)
    BY <2>2, <2>3, <2>5, AdmitKeeps
  <2>6. CASE Refuse(key, cost)
    BY <2>2, <2>3, <2>6, RefuseKeeps
  <2> QED BY <2>3, <2>4, <2>5, <2>6
<1>2. CASE Cleanup
  BY <1>2, CleanupKeeps
<1>3. CASE Tick
  BY <1>3, TickKeeps
<1>4. CASE UNCHANGED limiterVars
  <2>1. UNCHANGED <<now, store, refusal, spent, evicted>>
    BY <1>4 DEF limiterVars
  <2>2. /\ Recent' = Recent
        /\ \A n \in DOMAIN store : EntryTells(store[n])
        /\ \A key \in EntryKeys : Forgotten(key)
    BY <2>1 DEF LimiterInv, Recent, Times
  <2>3. \A n \in DOMAIN store' : EntryTells(store[n])'
    BY <2>1, <2>2 DEF EntryTells, Times
  <2>4. \A key \in EntryKeys' : Forgotten(key)'
    BY <2>1, <2>2 DEF Forgotten, Stored, EntryKeys
  <2>5. /\ LimiterTyped /\ KeysOnce(store) /\ Len(store) <= MaxStoreEntries /\ NoFuture
        /\ SlidingBound /\ RefusalJustified
    BY DEF LimiterInv
  <2>6. LimiterTyped' /\ KeysOnce(store)' /\ Len(store') <= MaxStoreEntries /\ NoFuture'
    BY <2>1, <2>5 DEF LimiterTyped, KeysOnce, NoFuture, Times, Entry, EntryKeys, Refusal
  <2>7. SlidingBound' /\ RefusalJustified'
    BY <2>1, <2>5 DEF SlidingBound, RefusalJustified, InWindow, Times, EntryKeys
  <2> QED BY <2>3, <2>4, <2>6, <2>7 DEF LimiterInv
<1> QED BY <1>1, <1>2, <1>3, <1>4 DEF LimiterNext

(* However requests interleave with the timer and the clock, no key, be it    *)
(* an address's or the one an overflowing namespace shares, is granted more  *)
(* than the limit in a window that ends at any time unless its entry had to  *)
(* make room, a refusal is justified by what its own key was granted, and the *)
(* map stays within MAX_STORE_ENTRIES: for every number of addresses and      *)
(* namespaces, every limit, window and size of the map.                       *)
THEOREM LimiterIsExact == LimiterSpec => []LimiterExact
<1>1. LimiterInv => LimiterExact
  <2> SUFFICES ASSUME LimiterInv PROVE LimiterExact
    OBVIOUS
  <2>1. \A m, n \in DOMAIN store : store[m].key = store[n].key => m = n
    BY DEF LimiterInv, KeysOnce
  <2>2. /\ LimiterTyped /\ Len(store) <= MaxStoreEntries /\ SlidingBound /\ RefusalJustified
    BY DEF LimiterInv
  <2>3. LimiterTypeOK
    BY <2>1, <2>2 DEF LimiterTypeOK, LimiterTyped, Refusal
  <2> QED BY <2>2, <2>3 DEF LimiterExact, MemoryBounded
<1> QED BY <1>1, LimiterStarts, LimiterSteps, PTL DEF LimiterSpec
=============================================================================
