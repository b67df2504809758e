--------------------------- MODULE EngineWorkers ---------------------------
(* The browser's engine: a main Worker for the headline and a pool of sweep *)
(* Workers that share the paths of the sensitivity curves, as engine/mc.ts  *)
(* drives them and workers/mc.worker.ts answers.  Both runs of a refresh    *)
(* share one abort signal; an abort or a failure terminates the Workers of  *)
(* the run it hits, and the next run creates fresh ones.  What a path       *)
(* computes is left out: a run tallies how often each path was counted.     *)
EXTENDS Integers, Sequences

CONSTANTS Cores,       \* navigator.hardwareConcurrency, one of these
          PathCounts,  \* config.paths, one of these
          MaxWorkers,  \* 8
          MaxSignals,  \* bound: refreshes of the plan
          MaxFailures  \* bound: failures of a Worker

ASSUME WorkersAssumption ==
  Cores \subseteq Nat /\ PathCounts \subseteq Nat \ {0} /\ MaxWorkers \in Nat \ {0}

VARIABLES cores, paths,  \* of this browser and this build
          signal,        \* how many refreshes have begun; the last is not aborted
          run,           \* kind -> the newest run of that kind
          pool,          \* kind -> the Workers the page holds, in order
          failures

workerVars == <<cores, paths, signal, run, pool, failures>>

Kinds == {"main", "sweep"}
NoRun == [signal |-> 0, pc |-> "none", tally |-> <<>>, missing |-> 0]
FreshWorker == [alive |-> TRUE, ready |-> FALSE, queue |-> <<>>]

WorkersInit ==
  /\ cores \in Cores /\ paths \in PathCounts
  /\ signal = 1 /\ failures = 0
  /\ run = [k \in Kinds |-> NoRun]
  /\ pool = [k \in Kinds |-> <<>>]

----------------------------------------------------------------------------
(* How the paths of a sweep are shared among Workers. *)

Least(a, b) == IF a < b THEN a ELSE b

workerCount ==
  Least(Least(IF cores > 2 THEN cores - 1 ELSE 1, MaxWorkers), paths)

(* The paths of the i-th Worker: the first ones take the remainder.         *)
shardSize(count, i) ==
  paths \div count + (IF i <= paths % count THEN 1 ELSE 0)

(* Where the i-th shard ends; the next begins there.                        *)
endPath[i \in 0 .. MaxWorkers] ==
  IF i = 0 THEN 0 ELSE endPath[i - 1] + shardSize(workerCount, i)

sweepPathShards ==
  [i \in 1 .. workerCount |-> [startPath |-> endPath[i - 1], endPath |-> endPath[i]]]

(* The main run is one piece of all paths. *)
Shards(kind) ==
  IF kind = "main" THEN <<[startPath |-> 0, endPath |-> paths]>>
                   ELSE sweepPathShards

Covers(shard, p) == shard.startPath <= p /\ p < shard.endPath

----------------------------------------------------------------------------
(* Runs. *)

Waiting(k) == run[k].pc = "waiting"

(* As Cancelled, for a pool that keeps its terminated Workers. *)
Cancelled_Kept(workers) == [i \in DOMAIN workers |-> [workers[i] EXCEPT !.alive = FALSE]]

(* cancelMainWorker, cancelSweepWorkers: what the page holds after it       *)
(* terminated its Workers.                                                  *)
Cancelled(workers) == <<>>

(* initializeWorker, initializeSweepWorkers: at least count Workers. *)
Grown(workers, count) ==
  [i \in 1 .. (IF Len(workers) > count THEN Len(workers) ELSE count) |->
    IF i <= Len(workers) THEN workers[i] ELSE FreshWorker]

(* runMonteCarloSimulation and runMonteCarloSummaries up to their wait: one *)
(* call to each of the first Workers.                                       *)
Begin(k) ==
  /\ run[k].signal < signal
  /\ LET shards == Shards(k)
         held == Grown(pool[k], Len(shards))
         call(i) == [signal |-> signal, shard |-> shards[i]]
     IN /\ pool' = [pool EXCEPT ![k] =
             [i \in DOMAIN held |-> IF i \in DOMAIN shards
                THEN [held[i] EXCEPT !.queue = Append(@, call(i))] ELSE held[i]]]
        /\ run' = [run EXCEPT ![k] =
             [signal |-> signal, pc |-> "waiting", missing |-> Len(shards),
              tally |-> [p \in 0 .. paths |-> 0]]]
  /\ UNCHANGED <<cores, paths, signal, failures>>

(* initializeWasm, once in the life of a Worker. *)
initializeWasm(k, i) ==
  /\ i \in DOMAIN pool[k]
  /\ pool[k][i].alive /\ pool[k][i].queue # <<>> /\ ~pool[k][i].ready
  /\ pool' = [pool EXCEPT ![k][i].ready = TRUE]
  /\ UNCHANGED <<cores, paths, signal, run, failures>>

(* A run that counted one more shard; its last shard ends its wait.         *)
CountedIn(r, shard) ==
  [r EXCEPT !.missing = @ - 1,
            !.pc = IF r.missing = 1 THEN "answered" ELSE @,
            !.tally = [p \in DOMAIN @ |-> @[p] + IF Covers(shard, p) THEN 1 ELSE 0]]

(* runSimulation, runSweepShard: a Worker answers its next call, and the    *)
(* run that waits for it counts the shard.                                  *)
Answer(k, i) ==
  /\ i \in DOMAIN pool[k]
  /\ pool[k][i].alive /\ pool[k][i].ready /\ pool[k][i].queue # <<>>
  /\ LET call == Head(pool[k][i].queue)
         mine == Waiting(k) /\ run[k].signal = call.signal
     IN /\ pool' = [pool EXCEPT ![k][i].queue = Tail(@)]
        /\ run' = IF mine THEN [run EXCEPT ![k] = CountedIn(@, call.shard)] ELSE run
  /\ UNCHANGED <<cores, paths, signal, failures>>

(* A call fails: the binary does not load, its ABI is another, a scenario   *)
(* is missing or the engine traps.  The run fails and cancels its Workers.  *)
Fail(k, i) ==
  /\ failures < MaxFailures
  /\ i \in DOMAIN pool[k] /\ pool[k][i].alive /\ pool[k][i].queue # <<>>
  /\ Waiting(k)
  /\ run' = [run EXCEPT ![k].pc = "failed"]
  /\ pool' = [pool EXCEPT ![k] = Cancelled(@)]
  /\ failures' = failures + 1
  /\ UNCHANGED <<cores, paths, signal>>

(* As Abort, leaving the sweep's Workers to finish on their own. *)
Abort_KeepsSweep ==
  /\ signal < MaxSignals
  /\ signal' = signal + 1
  /\ run' = [k \in Kinds |-> IF Waiting(k) THEN [run[k] EXCEPT !.pc = "aborted"] ELSE run[k]]
  /\ pool' = [k \in Kinds |-> IF Waiting("main") /\ k = "main" THEN Cancelled(pool[k]) ELSE pool[k]]
  /\ UNCHANGED <<cores, paths, failures>>

(* A new refresh aborts the signal of the last: waitForWorker of each       *)
(* waiting run cancels its Workers and rejects.  A run that has its answer  *)
(* no longer listens.  The page begins its next runs from a timer, after    *)
(* the rejected run has finished its catch.                                 *)
Abort ==
  /\ signal < MaxSignals
  /\ signal' = signal + 1
  /\ run' = [k \in Kinds |-> IF Waiting(k) THEN [run[k] EXCEPT !.pc = "aborted"] ELSE run[k]]
  /\ pool' = [k \in Kinds |-> IF Waiting(k) THEN Cancelled(pool[k]) ELSE pool[k]]
  /\ UNCHANGED <<cores, paths, failures>>

WorkerStep(k, i) == initializeWasm(k, i) \/ Answer(k, i)

WorkersNext ==
  \/ \E k \in Kinds : Begin(k)
  \/ \E k \in Kinds, i \in 1 .. MaxWorkers : WorkerStep(k, i) \/ Fail(k, i)
  \/ Abort

(* A Worker that exists loads and works on its calls.                       *)
WorkersFairness == \A k \in Kinds, i \in 1 .. MaxWorkers : WF_workerVars(WorkerStep(k, i))
WorkersSpec == WorkersInit /\ [][WorkersNext]_workerVars /\ WorkersFairness

----------------------------------------------------------------------------
(* An answered run counted every path exactly once and none beyond them,    *)
(* whatever the number of Workers, and whatever runs used or lost them.     *)
CountedOnce ==
  \A k \in Kinds : run[k].pc = "answered" =>
    \A p \in DOMAIN run[k].tally : run[k].tally[p] = IF p < paths THEN 1 ELSE 0

(* No Worker spends a core on a run nobody waits for: the calls of an       *)
(* aborted or failed run die with their Workers.                            *)
NoWorkForNobody ==
  \A k \in Kinds : \A i \in DOMAIN pool[k] : \A n \in DOMAIN pool[k][i].queue :
    Waiting(k) /\ pool[k][i].queue[n].signal = run[k].signal /\ run[k].signal = signal

(* EngineWorkers' promise about its tallies and its cores.                   *)
EveryPathOnce == CountedOnce /\ NoWorkForNobody

(* Every run settles: ended or aborted runs leave no dead Worker behind for *)
(* a later run to wait on.                                                  *)
RunsSettle ==
  \A k \in Kinds : Waiting(k) ~> ~Waiting(k)
=============================================================================
