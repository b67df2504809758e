----------------------------- MODULE PageProofs ------------------------------
(* What a tab does by itself, for any bounds.  A tab never reloads itself    *)
(* twice within a window; an answered run of the browser's engine counted    *)
(* every path once, which rests on how paths are shared among Workers and on *)
(* who still owes an answer; a provider that stopped loading shows the user  *)
(* Firebase last reported, which rests on the generations of its calls; an   *)
(* unmarked result is of the plan on screen, and the pipeline implements     *)
(* Headline.                                                                 *)
EXTENDS ChunkRecovery, EngineWorkers, Signup, SimPipeline, TotalsProofs, SequenceTheorems

-----------------------------------------------------------------------------
(* Reloads *)

TabTyped ==
  /\ now \in Nat /\ reloads \in Seq(Nat)
  /\ storage \in [usable : BOOLEAN, marker : Nat]

(* The marker is never older than a reload of the tab's own: what survives   *)
(* the reload in sessionStorage remembers the last of them.                  *)
MarkerKept == \A i \in DOMAIN reloads : reloads[i] <= storage.marker

SpinInv == TabTyped /\ MarkerKept /\ NoSpin

-----------------------------------------------------------------------------

(* The listener, whether it may reload the tab or not (chunk-recovery.ts     *)
(* recoverFromRetiredChunks, claimReload).                                   *)
LEMMA ListenerKeepsApart ==
  ASSUME SpinInv, preloadError, UNCHANGED now
  PROVE  SpinInv'
<1> USE WindowAssumption DEF SpinInv, TabTyped, MarkerKept, NoSpin
<1>1. CASE ~MayReload
  <2>1. UNCHANGED <<storage, reloads>>
    BY <1>1 DEF preloadError
  <2> QED BY <2>1
<1>2. CASE MayReload
  <2>1. /\ storage' = [storage EXCEPT !.marker = now]
        /\ reloads' = Append(reloads, now)
    BY <1>2 DEF preloadError
  <2>2. now - storage.marker >= Window
    BY <1>2 DEF MayReload
  <2>3. TabTyped'
    BY <2>1
  <2>4. \A i \in DOMAIN reloads' :
          IF i = Len(reloads) + 1 THEN reloads'[i] = now
                                  ELSE i \in DOMAIN reloads /\ reloads'[i] = reloads[i]
    BY <2>1
  <2>5. storage'.marker = now
    BY <2>1
  <2>6. \A i \in DOMAIN reloads : reloads[i] \in Nat /\ now - reloads[i] >= Window
    <3> TAKE i \in DOMAIN reloads
    <3>1. reloads[i] \in Nat /\ reloads[i] <= storage.marker
      OBVIOUS
    <3> QED BY <3>1, <2>2
  <2>7. MarkerKept'
    <3> SUFFICES ASSUME NEW i \in DOMAIN reloads' PROVE reloads'[i] <= storage'.marker
      OBVIOUS
    <3>1. CASE i = Len(reloads) + 1
      BY <3>1, <2>4, <2>5
    <3>2. CASE i # Len(reloads) + 1
      <4>1. reloads'[i] \in Nat /\ now - reloads'[i] >= Window
        BY <3>2, <2>4, <2>6
      <4> QED BY <4>1, <2>5
    <3> QED BY <3>1, <3>2
  <2>8. NoSpin'
    <3> SUFFICES ASSUME NEW i \in DOMAIN reloads', NEW j \in DOMAIN reloads', i < j
                 PROVE  reloads'[j] - reloads'[i] >= Window
      OBVIOUS
    <3>1. i # Len(reloads) + 1
      BY <2>1
    <3>2. i \in DOMAIN reloads /\ reloads'[i] = reloads[i]
      BY <3>1, <2>4
    <3>3. CASE j = Len(reloads) + 1
      BY <3>3, <3>2, <2>4, <2>6
    <3>4. CASE j # Len(reloads) + 1
      BY <3>4, <3>2, <2>4
    <3> QED BY <3>3, <3>4
  <2> QED BY <2>3, <2>7, <2>8
<1> QED BY <1>1, <1>2

(* What no import rejects leaves the marker and the reloads alone.           *)
LEMMA QuietKeepsApart ==
  ASSUME SpinInv, UNCHANGED <<storage, reloads>>, now' \in Nat
  PROVE  SpinInv'
BY DEF SpinInv, TabTyped, MarkerKept, NoSpin

(* chunk-recovery.ts 3-6, "Reloading again would spin": any two reloads a    *)
(* tab makes by itself are a window apart.                                   *)
THEOREM NeverSpins == TabSpec => []NoSpin
<1>1. TabInit => SpinInv
  BY WindowAssumption DEF TabInit, SpinInv, TabTyped, MarkerKept, NoSpin
<1>2. SpinInv /\ [TabNext]_tabVars => SpinInv'
  <2> SUFFICES ASSUME SpinInv, [TabNext]_tabVars PROVE SpinInv'
    OBVIOUS
  <2>0. now \in Nat
    BY DEF SpinInv, TabTyped
  <2>1. ASSUME NEW sound \in BOOLEAN, Deploy(sound) PROVE SpinInv'
    BY <2>0, <2>1, QuietKeepsApart DEF Deploy
  <2>2. CASE Tick
    BY <2>0, <2>2, QuietKeepsApart DEF Tick
  <2>3. CASE ImportPage
    <3>1. CASE Resolves
      BY <2>0, <2>3, <3>1, QuietKeepsApart DEF ImportPage
    <3>2. CASE ~Resolves
      BY <2>3, <3>2, ListenerKeepsApart DEF ImportPage
    <3> QED BY <3>1, <3>2
  <2>4. CASE ImportBeside
    <3>1. CASE Resolves
      BY <2>0, <2>4, <3>1, QuietKeepsApart DEF ImportBeside
    <3>2. CASE ~Resolves
      BY <2>4, <3>2, ListenerKeepsApart DEF ImportBeside
    <3> QED BY <3>1, <3>2
  <2>5. CASE OpenRoute \/ Reloaded \/ PressReload
    BY <2>0, <2>5, QuietKeepsApart DEF OpenRoute, Reloaded, PressReload
  <2>6. CASE UNCHANGED tabVars
    BY <2>0, <2>6, QuietKeepsApart DEF tabVars
  <2> QED BY <2>1, <2>2, <2>3, <2>4, <2>5, <2>6 DEF TabNext
<1>3. SpinInv => NoSpin
  BY DEF SpinInv
<1> QED BY <1>1, <1>2, <1>3, PTL DEF TabSpec

-----------------------------------------------------------------------------
(* The shards *)

LEMMA CountOfWorkers ==
  ASSUME cores \in Cores, paths \in PathCounts
  PROVE  workerCount \in 1 .. MaxWorkers /\ workerCount <= paths /\ paths \in Nat \ {0}
BY WorkersAssumption DEF workerCount, Least

(* The first paths % workerCount shards are one path longer than the others. *)
EndOf(i) == i * (paths \div workerCount) + Least(i, paths % workerCount)

LEMMA EndsAre ==
  ASSUME cores \in Cores, paths \in PathCounts
  PROVE  endPath = [i \in 0 .. MaxWorkers |-> EndOf(i)]
<1> DEFINE q == paths \div workerCount
           r == paths % workerCount
           g == [i \in 0 .. MaxWorkers |-> EndOf(i)]
           Body(f) == [i \in 0 .. MaxWorkers |->
                         IF i = 0 THEN 0 ELSE f[i - 1] + shardSize(workerCount, i)]
<1>1. workerCount \in Nat \ {0} /\ paths \in Nat
  BY CountOfWorkers
<1>2. q \in Nat /\ r \in Nat
  BY <1>1
<1>3. MaxWorkers \in Nat
  BY WorkersAssumption
<1>4. \A i \in Nat : shardSize(workerCount, i) = q + (IF i <= r THEN 1 ELSE 0)
  BY DEF shardSize
<1>5. \A i \in 0 .. MaxWorkers : EndOf(i) = i * q + (IF i < r THEN i ELSE r)
  BY DEF EndOf, Least
<1> HIDE DEF q, r
<1>6. \A i \in 1 .. MaxWorkers : EndOf(i) = EndOf(i - 1) + shardSize(workerCount, i)
  <2> SUFFICES ASSUME NEW i \in 1 .. MaxWorkers
               PROVE  EndOf(i) = EndOf(i - 1) + shardSize(workerCount, i)
    OBVIOUS
  <2>1. i * q = (i - 1) * q + q
    BY <1>2
  <2>2. EndOf(i - 1) = (i - 1) * q + (IF i - 1 < r THEN i - 1 ELSE r)
    BY <1>3, <1>5
  <2>3. EndOf(i) = i * q + (IF i < r THEN i ELSE r)
    BY <1>5
  <2>4. (i - 1) * q \in Int
    BY <1>2
  <2> QED BY <1>2, <1>3, <1>4, <2>1, <2>2, <2>3, <2>4
<1>7. EndOf(0) = 0
  BY <1>2, <1>3, <1>5
<1>8. g = Body(g)
  BY <1>3, <1>6, <1>7
<1>9. endPath = Body(endPath)
  BY <1>8 DEF endPath
<1>10. \A i \in 0 .. MaxWorkers : endPath[i] = g[i]
  <2> DEFINE Wrong == {i \in 0 .. MaxWorkers : endPath[i] # g[i]}
  <2> SUFFICES ASSUME Wrong # {} PROVE FALSE
    OBVIOUS
  <2>1. PICK i \in Wrong : \A j \in Wrong : i <= j
    <3>1. Wrong \subseteq Nat /\ Wrong # {}
      BY <1>3
    <3> HIDE DEF Wrong
    <3> QED BY <3>1, LeastNatural
  <2>2. i # 0
    BY <1>7, <1>9, <2>1
  <2>3. i - 1 \in 0 .. MaxWorkers /\ endPath[i - 1] = g[i - 1]
    BY <1>3, <2>1, <2>2 
  <2>4. endPath[i] = g[i - 1] + shardSize(workerCount, i)
    BY <1>3, <1>9, <2>1, <2>2, <2>3
  <2>5. g[i] = g[i - 1] + shardSize(workerCount, i)
    BY <1>3, <1>8, <2>1, <2>2
  <2> QED BY <2>1, <2>4, <2>5
<1> QED BY <1>9, <1>10
LEMMA ShardsStay ==
  ASSUME UNCHANGED <<cores, paths>>
  PROVE  \A k \in Kinds : Shards(k)' = Shards(k)
BY DEF Shards, sweepPathShards, endPath, workerCount, shardSize

Shard == [startPath : Int, endPath : Int]

LEMMA ShardsAreTyped ==
  ASSUME cores \in Cores, paths \in PathCounts, NEW k \in Kinds
  PROVE  /\ Shards(k) \in Seq(Shard) /\ Len(Shards(k)) \in Nat \ {0}
         /\ DOMAIN Shards(k) = 1 .. Len(Shards(k))
<1>1. workerCount \in 1 .. MaxWorkers /\ paths \in Nat \ {0}
  BY CountOfWorkers
<1>2. \A i \in 0 .. MaxWorkers : endPath[i] \in Int
  <2>1. \A i \in 0 .. MaxWorkers : EndOf(i) \in Int
    BY <1>1, WorkersAssumption DEF EndOf, Least
  <2> QED BY <2>1, EndsAre
<1>3. CASE k = "main"
  <2>1. Shards(k) = <<[startPath |-> 0, endPath |-> paths]>>
    BY <1>3 DEF Shards
  <2> QED BY <1>1, <2>1 DEF Shard
<1>4. CASE k # "main"
  <2>1. Shards(k) = sweepPathShards
    BY <1>4 DEF Shards
  <2>2. sweepPathShards \in [1 .. workerCount -> Shard]
    BY <1>1, <1>2, WorkersAssumption DEF sweepPathShards, Shard
  <2>3. sweepPathShards \in Seq(Shard)
    BY <1>1, <2>2, SeqDef
  <2> QED BY <1>1, <2>1, <2>2, <2>3
<1> QED BY <1>3, <1>4

(* Every path is in one shard and no shard reaches beyond them. *)
LEMMA ShardsPartition ==
  ASSUME cores \in Cores, paths \in PathCounts, NEW k \in Kinds
  PROVE  \A p \in Nat :
           /\ p < paths => \E i \in DOMAIN Shards(k) : Covers(Shards(k)[i], p)
           /\ \A i \in DOMAIN Shards(k) : Covers(Shards(k)[i], p) =>
                p < paths /\ \A j \in DOMAIN Shards(k) : Covers(Shards(k)[j], p) => i = j
<1>1. workerCount \in 1 .. MaxWorkers /\ paths \in Nat \ {0}
  BY CountOfWorkers
<1>2. CASE k = "main"
  <2>1. Shards(k) = <<[startPath |-> 0, endPath |-> paths]>>
    BY <1>2 DEF Shards
  <2>2. DOMAIN Shards(k) = {1} /\ Shards(k)[1] = [startPath |-> 0, endPath |-> paths]
    BY <2>1
  <2> QED BY <1>1, <2>2 DEF Covers
<1>3. CASE k # "main"
  <2> DEFINE q == paths \div workerCount
             r == paths % workerCount
             count == workerCount
  <2>1. /\ DOMAIN Shards(k) = 1 .. count
        /\ \A i \in 1 .. count : /\ Shards(k)[i].startPath = EndOf(i - 1)
                                 /\ Shards(k)[i].endPath = EndOf(i)
    <3>1. Shards(k) = sweepPathShards
      BY <1>3 DEF Shards
    <3>2. \A i \in 0 .. MaxWorkers : endPath[i] = EndOf(i)
      BY EndsAre
    <3> QED BY <1>1, <3>1, <3>2, WorkersAssumption DEF sweepPathShards
  <2>2. q \in Nat /\ r \in Nat /\ r < count /\ paths = count * q + r
    BY <1>1
  <2> HIDE DEF q, r
  <2>3. \A i \in 0 .. count : EndOf(i) = i * q + (IF i < r THEN i ELSE r)
    BY <1>1 DEF EndOf, Least, q, r
  <2>4. EndOf(0) = 0 /\ EndOf(count) = paths
    <3>1. 0 * q = 0
      BY <2>2
    <3> QED BY <1>1, <2>2, <2>3, <3>1
  <2> HIDE DEF count
  <2>5. count \in Nat \ {0}
    BY <1>1 DEF count
  <2>6. \A i \in 0 .. count : EndOf(i) \in Int
    BY <2>2, <2>3, <2>5
  <2>7. \A i, j \in 0 .. count : i <= j => EndOf(i) <= EndOf(j)
    <3> SUFFICES ASSUME NEW i \in 0 .. count, NEW j \in 0 .. count, i <= j
                 PROVE  EndOf(i) <= EndOf(j)
      OBVIOUS
    <3>1. (j - i) * q >= 0
      BY <2>2, <2>5
    <3>2. j * q = i * q + (j - i) * q
      BY <2>2, <2>5
    <3>3. i * q \in Int /\ j * q \in Int /\ (j - i) * q \in Int
      BY <2>2, <2>5
    <3>4. EndOf(i) = i * q + (IF i < r THEN i ELSE r)
      BY <2>3
    <3>5. EndOf(j) = j * q + (IF j < r THEN j ELSE r)
      BY <2>3
    <3> QED BY <2>2, <2>5, <3>1, <3>2, <3>3, <3>4, <3>5
  <2> HIDE DEF EndOf
  <2> TAKE p \in Nat
  <2>8. ASSUME p < paths PROVE \E i \in 1 .. count : EndOf(i - 1) <= p /\ p < EndOf(i)
    <3> DEFINE Beyond == {i \in 0 .. count : p < EndOf(i)}
    <3>1. PICK i \in Beyond : \A j \in Beyond : i <= j
      <4>1. Beyond \subseteq Nat /\ Beyond # {}
        BY <2>4, <2>5, <2>8
      <4> HIDE DEF Beyond
      <4> QED BY <4>1, LeastNatural
    <3>2. i # 0
      BY <2>4
    <3>3. i - 1 \in 0 .. count /\ i - 1 \notin Beyond
      BY <2>5, <3>1, <3>2
    <3>4. i \in 1 .. count /\ EndOf(i - 1) <= p
      BY <2>5, <2>6, <3>2, <3>3
    <3> QED BY <3>1, <3>4
  <2>9. ASSUME NEW i \in 1 .. count, EndOf(i - 1) <= p, p < EndOf(i)
        PROVE  p < paths
    <3>1. i \in 0 .. count /\ count \in 0 .. count /\ i <= count
      BY <2>5
    <3>2. EndOf(i) <= paths /\ EndOf(i) \in Int
      BY <2>4, <2>6, <2>7, <3>1
    <3> QED BY <1>1, <2>9, <3>2
  <2>10. ASSUME NEW i \in 1 .. count, EndOf(i - 1) <= p, p < EndOf(i),
                NEW j \in 1 .. count, EndOf(j - 1) <= p, p < EndOf(j), i < j
         PROVE  FALSE
    <3>1. i \in 0 .. count /\ j - 1 \in 0 .. count /\ i <= j - 1
      BY <2>5, <2>10
    <3>2. EndOf(i) <= EndOf(j - 1) /\ EndOf(i) \in Int /\ EndOf(j - 1) \in Int
      BY <2>6, <2>7, <3>1
    <3> QED BY <2>10, <3>2
  <2>11. \A i, j \in 1 .. count : i < j \/ j < i \/ i = j
    BY <2>5
  <2>12. \A i \in 1 .. count : Covers(Shards(k)[i], p) <=> (EndOf(i - 1) <= p /\ p < EndOf(i))
    BY <2>1 DEF Covers
  <2> QED BY <2>1, <2>8, <2>9, <2>10, <2>11, <2>12
<1> QED BY <1>2, <1>3
-----------------------------------------------------------------------------
(* What the Workers still owe *)

Pcs == {"none", "waiting", "answered", "failed", "aborted"}
Worker == [alive : BOOLEAN, ready : BOOLEAN, queue : Seq([signal : Nat, shard : Shard])]

TalliesTell == {<<>>} \cup UNION {[0 .. n -> Nat] : n \in PathCounts}
WorkerRun == [signal : Nat, pc : Pcs, missing : Int, tally : TalliesTell]

WorkersTyped ==
  /\ cores \in Cores /\ paths \in PathCounts /\ signal \in Nat \ {0}
  /\ run \in [Kinds -> WorkerRun]
  /\ pool \in [Kinds -> Seq(Worker)]

(* The shards of a run that have no answer yet. *)
Owed(k) == {i \in DOMAIN Shards(k) : i \in DOMAIN pool[k] /\ pool[k][i].queue # <<>>}

(* A Worker with a call has one call, the current run's for its own shard.   *)
OneCallEach(k) ==
  \A i \in DOMAIN pool[k] : pool[k][i].queue # <<>> =>
    /\ Waiting(k) /\ i \in DOMAIN Shards(k)
    /\ pool[k][i].queue = <<[signal |-> signal, shard |-> Shards(k)[i]]>>

Tallied(k) ==
  [p \in 0 .. paths |->
    IF \E i \in DOMAIN Shards(k) \ Owed(k) : Covers(Shards(k)[i], p) THEN 1 ELSE 0]

(* A waiting run misses the shards owed, and tallied all the others.         *)
WaitsForOwed(k) ==
  Waiting(k) =>
    /\ run[k].signal = signal
    /\ run[k].missing = Cardinality(Owed(k))
    /\ run[k].tally = Tallied(k)

Counted(k) ==
  run[k].pc = "answered" =>
    \A p \in DOMAIN run[k].tally : run[k].tally[p] = IF p < paths THEN 1 ELSE 0

WorkersInv ==
  /\ WorkersTyped
  /\ \A k \in Kinds : OneCallEach(k) /\ WaitsForOwed(k) /\ Counted(k)
LEMMA CountedInIs ==
  ASSUME paths \in PathCounts, NEW r \in WorkerRun, r.pc = "waiting", r.tally \in [0 .. paths -> Nat], NEW shard
  PROVE  LET u == CountedIn(r, shard)
         IN  /\ u \in WorkerRun /\ u.signal = r.signal /\ u.missing = r.missing - 1
             /\ u.pc = IF r.missing = 1 THEN "answered" ELSE "waiting"
             /\ u.tally = [p \in 0 .. paths |-> r.tally[p] + IF Covers(shard, p) THEN 1 ELSE 0]
<1> DEFINE t == [p \in 0 .. paths |-> r.tally[p] + IF Covers(shard, p) THEN 1 ELSE 0]
           b == IF r.missing = 1 THEN "answered" ELSE "waiting"
<1>1. CountedIn(r, shard) = [r EXCEPT !.missing = r.missing - 1, !.pc = b, !.tally = t]
  BY DEF CountedIn
<1>2. t \in TalliesTell /\ b \in Pcs /\ r.missing - 1 \in Int
  <2>1. ASSUME NEW p \in 0 .. paths PROVE t[p] \in Nat
    <3>1. r.tally[p] \in Nat
      OBVIOUS
    <3> QED BY <3>1
  <2>2. t \in [0 .. paths -> Nat] /\ t \in TalliesTell
    BY <2>1 DEF TalliesTell
  <2>3. b \in Pcs /\ r.missing - 1 \in Int
    BY DEF WorkerRun, Pcs
  <2> QED BY <2>2, <2>3
<1> HIDE DEF t, b
<1>3. PICK u : u = CountedIn(r, shard)
  OBVIOUS
<1>4. u \in WorkerRun /\ u.signal = r.signal /\ u.missing = r.missing - 1 /\ u.pc = b /\ u.tally = t
  BY <1>1, <1>2, <1>3 DEF WorkerRun
<1> QED BY <1>3, <1>4 DEF t, b

LEMMA WorkerUpdated ==
  ASSUME NEW w \in Worker, NEW q \in Seq([signal : Nat, shard : Shard]), NEW u,
         u = [w EXCEPT !.queue = q]
  PROVE  u \in Worker /\ u.queue = q
BY DEF Worker
LEMMA AppendToNothing ==
  ASSUME NEW s, s = <<>>, NEW e
  PROVE  Append(s, e) = <<e>>
OBVIOUS

(* A step that leaves a kind's run and its queues alone.                      *)
LEMMA QueuesStay ==
  ASSUME WorkersInv, NEW k \in Kinds, run'[k] = run[k], DOMAIN pool'[k] = DOMAIN pool[k],
         \A i \in DOMAIN pool[k] : pool'[k][i].queue = pool[k][i].queue,
         UNCHANGED <<cores, paths, signal>>
  PROVE  OneCallEach(k)' /\ WaitsForOwed(k)' /\ Counted(k)'
<1>1. Shards(k)' = Shards(k)
  BY ShardsStay
<1>2. Owed(k)' = Owed(k)
  BY <1>1 DEF Owed
<1>3. Tallied(k)' = Tallied(k)
  BY <1>1, <1>2 DEF Tallied, Covers
<1>4. Waiting(k)' <=> Waiting(k)
  BY DEF Waiting
<1>5. OneCallEach(k) /\ WaitsForOwed(k) /\ Counted(k)
  BY DEF WorkersInv
<1>6. OneCallEach(k)'
  BY <1>1, <1>4, <1>5 DEF OneCallEach
<1>7. WaitsForOwed(k)'
  BY <1>2, <1>3, <1>4, <1>5 DEF WaitsForOwed
<1> QED BY <1>5, <1>6, <1>7 DEF Counted

LEMMA Untouched ==
  ASSUME WorkersInv, NEW k \in Kinds, run'[k] = run[k], pool'[k] = pool[k],
         UNCHANGED <<cores, paths, signal>>
  PROVE  OneCallEach(k)' /\ WaitsForOwed(k)' /\ Counted(k)'
BY QueuesStay

(* A kind whose run is over and whose Workers are terminated.                 *)
LEMMA CancelledIsSound ==
  ASSUME NEW k \in Kinds, pool'[k] = <<>>, run'[k].pc \in {"failed", "aborted"}
  PROVE  OneCallEach(k)' /\ WaitsForOwed(k)' /\ Counted(k)'
<1>1. ~Waiting(k)' /\ DOMAIN pool'[k] = {}
  BY DEF Waiting
<1> QED BY <1>1 DEF OneCallEach, WaitsForOwed, Counted

(* A run that begins finds the Workers it keeps idle.                        *)
LEMMA IdleBefore ==
  ASSUME WorkersInv, NEW k \in Kinds, run[k].signal < signal
  PROVE  \A i \in DOMAIN pool[k] : pool[k][i].queue = <<>>
<1>1. run[k].signal # signal
  BY DEF WorkersInv, WorkersTyped
<1> QED BY <1>1 DEF WorkersInv, OneCallEach, WaitsForOwed

LEMMA BeginKeeps ==
  ASSUME WorkersInv, NEW k \in Kinds, Begin(k)
  PROVE  WorkersInv'
<1> DEFINE n == Len(Shards(k))
           held == Grown(pool[k], n)
           top == IF Len(pool[k]) > n THEN Len(pool[k]) ELSE n
           call(i) == [signal |-> signal, shard |-> Shards(k)[i]]
           next == [i \in DOMAIN held |-> IF i \in DOMAIN Shards(k)
                     THEN [held[i] EXCEPT !.queue = Append(@, call(i))] ELSE held[i]]
           begun == [signal |-> signal, pc |-> "waiting", missing |-> n,
                     tally |-> [p \in 0 .. paths |-> 0]]
<1>1. /\ run[k].signal < signal
      /\ pool' = [pool EXCEPT ![k] = next] /\ run' = [run EXCEPT ![k] = begun]
      /\ UNCHANGED <<cores, paths, signal>>
  BY DEF Begin
<1>2. WorkersTyped /\ signal \in Nat \ {0} /\ paths \in Nat
  BY CountOfWorkers DEF WorkersInv, WorkersTyped
<1>3. /\ Shards(k) \in Seq(Shard) /\ n \in Nat \ {0} /\ DOMAIN Shards(k) = 1 .. n
      /\ \A i \in 1 .. n : Shards(k)[i] \in Shard
  <2>1. Shards(k) \in Seq(Shard) /\ n \in Nat \ {0} /\ DOMAIN Shards(k) = 1 .. n
    BY <1>2, ShardsAreTyped DEF WorkersTyped
  <2> QED BY <2>1, ElementOfSeq
<1>4. /\ pool[k] \in Seq(Worker) /\ Len(pool[k]) \in Nat /\ DOMAIN pool[k] = 1 .. Len(pool[k])
      /\ \A i \in 1 .. Len(pool[k]) : pool[k][i] \in Worker
  <2>1. pool[k] \in Seq(Worker)
    BY <1>2 DEF WorkersTyped
  <2> QED BY <2>1, ElementOfSeq
<1>5. FreshWorker \in Worker /\ FreshWorker.queue = <<>>
  BY DEF FreshWorker, Worker
<1>6. DOMAIN held = 1 .. top /\ top \in Nat /\ n <= top /\ Len(pool[k]) <= top
  BY <1>3, <1>4 DEF Grown
<1>7. \A i \in 1 .. top : held[i] \in Worker /\ held[i].queue = <<>>
  <2> SUFFICES ASSUME NEW i \in 1 .. top PROVE held[i] \in Worker /\ held[i].queue = <<>>
    OBVIOUS
  <2>1. held[i] = IF i <= Len(pool[k]) THEN pool[k][i] ELSE FreshWorker
    BY <1>3, <1>4 DEF Grown
  <2>2. CASE i <= Len(pool[k])
    <3>1. pool[k][i].queue = <<>>
      BY <1>1, <1>4, <2>2, IdleBefore
    <3> QED BY <1>4, <2>1, <2>2, <3>1
  <2>3. CASE ~(i <= Len(pool[k]))
    BY <1>5, <2>1, <2>3
  <2> QED BY <2>2, <2>3
<1> HIDE DEF held
<1>8. \A i \in 1 .. n : call(i) \in [signal : Nat, shard : Shard]
  BY <1>2, <1>3
<1> HIDE DEF call
<1>9. \A i \in 1 .. top :
        /\ next[i] \in Worker
        /\ next[i].queue = IF i <= n THEN <<call(i)>> ELSE <<>>
  <2> SUFFICES ASSUME NEW i \in 1 .. top
               PROVE  next[i] \in Worker /\ next[i].queue = IF i <= n THEN <<call(i)>> ELSE <<>>
    OBVIOUS
  <2>1. CASE i <= n
    <3>1. next[i] = [held[i] EXCEPT !.queue = Append(@, call(i))]
      BY <1>3, <1>6, <2>1
    <3>2. next[i] = [alive |-> held[i].alive, ready |-> held[i].ready,
                     queue |-> Append(held[i].queue, call(i))]
      BY <1>7, <3>1 DEF Worker
    <3>3. Append(held[i].queue, call(i)) = <<call(i)>>
      BY <1>7, AppendToNothing
    <3>4. <<call(i)>> \in Seq([signal : Nat, shard : Shard])
      <4>1. call(i) \in [signal : Nat, shard : Shard]
        BY <1>8, <2>1
      <4> QED BY <4>1
    <3>5. next[i] = [alive |-> held[i].alive, ready |-> held[i].ready, queue |-> <<call(i)>>]
      BY <3>2, <3>3
    <3> HIDE DEF next
    <3>6. held[i].alive \in BOOLEAN /\ held[i].ready \in BOOLEAN
      BY <1>7 DEF Worker
    <3>7. next[i] \in Worker
      BY <3>4, <3>5, <3>6 DEF Worker
    <3>8. next[i].queue = <<call(i)>>
      BY <3>5
    <3> QED BY <2>1, <3>7, <3>8
  <2>2. CASE ~(i <= n)
    BY <1>3, <1>6, <1>7, <2>2
  <2> QED BY <2>1, <2>2
<1>10. DOMAIN next = 1 .. top /\ next \in Seq(Worker)
  <2>1. DOMAIN next = 1 .. top /\ next = [i \in 1 .. top |-> next[i]]
    BY <1>6
  <2> HIDE DEF next
  <2>2. next \in [1 .. top -> Worker]
    BY <1>9, <2>1
  <2> QED BY <1>6, <2>1, <2>2, SeqDef
<1> HIDE DEF next
<1>11. pool'[k] = next /\ run'[k] = begun
  BY <1>1, <1>2 DEF WorkersTyped
<1>12. \A j \in Kinds : j # k => run'[j] = run[j] /\ pool'[j] = pool[j]
  BY <1>1, <1>2 DEF WorkersTyped
<1>13. WorkersTyped'
  <2>1. begun \in WorkerRun
    <3>1. [p \in 0 .. paths |-> 0] \in TalliesTell
      <4>1. [p \in 0 .. paths |-> 0] \in [0 .. paths -> Nat] /\ paths \in PathCounts
        BY <1>2 DEF WorkersTyped
      <4> QED BY <4>1 DEF TalliesTell
    <3> QED BY <1>2, <1>3, <3>1 DEF WorkerRun, Pcs
  <2> HIDE DEF begun
  <2>2. pool' \in [Kinds -> Seq(Worker)]
    BY <1>1, <1>2, <1>10 DEF WorkersTyped
  <2>3. run' \in [Kinds -> WorkerRun]
    BY <1>1, <1>2, <2>1 DEF WorkersTyped
  <2> QED BY <1>1, <1>2, <2>2, <2>3 DEF WorkersTyped
<1>14. Shards(k)' = Shards(k)
  BY <1>1, ShardsStay
<1>15. Waiting(k)'
  BY <1>11 DEF Waiting
<1>16. OneCallEach(k)'
  <2> SUFFICES ASSUME NEW i \in DOMAIN pool'[k], pool'[k][i].queue # <<>>
               PROVE  i \in DOMAIN Shards(k) /\ pool'[k][i].queue = <<call(i)>>
    BY <1>1, <1>14, <1>15 DEF OneCallEach, call
  <2>1. i \in 1 .. top /\ next[i].queue # <<>>
    BY <1>10, <1>11
  <2>2. i <= n /\ next[i].queue = <<call(i)>>
    BY <1>9, <2>1
  <2> QED BY <1>3, <1>6, <1>11, <2>1, <2>2
<1>17. Owed(k)' = 1 .. n
  <2>1. \A i \in 1 .. n : i \in DOMAIN next /\ next[i].queue # <<>>
    <3> SUFFICES ASSUME NEW i \in 1 .. n PROVE i \in DOMAIN next /\ next[i].queue # <<>>
      OBVIOUS
    <3>1. i \in 1 .. top /\ i <= n
      BY <1>3, <1>6
    <3>2. next[i].queue = <<call(i)>>
      BY <1>9, <3>1
    <3>3. <<call(i)>> # <<>>
      OBVIOUS
    <3> QED BY <1>10, <3>1, <3>2, <3>3
  <2> QED BY <1>3, <1>11, <1>14, <2>1 DEF Owed
<1>18. WaitsForOwed(k)'
  <2>1. Cardinality(1 .. n) = n
    BY <1>3, FS_Interval
  <2>2. Tallied(k)' = [p \in 0 .. paths |-> 0]
    BY <1>1, <1>3, <1>14, <1>17 DEF Tallied
  <2>3. run'[k].signal = signal /\ run'[k].missing = n /\ run'[k].tally = [p \in 0 .. paths |-> 0]
    BY <1>11
  <2> QED BY <1>1, <1>17, <2>1, <2>2, <2>3 DEF WaitsForOwed
<1>19. Counted(k)'
  BY <1>11 DEF Counted
<1> QED BY <1>1, <1>12, <1>13, <1>16, <1>18, <1>19, Untouched DEF WorkersInv
LEMMA WasmKeeps ==
  ASSUME WorkersInv, NEW k \in Kinds, NEW i \in 1 .. MaxWorkers, initializeWasm(k, i)
  PROVE  WorkersInv'
<1>1. /\ i \in DOMAIN pool[k] /\ pool' = [pool EXCEPT ![k][i].ready = TRUE]
      /\ UNCHANGED <<cores, paths, signal, run>>
  BY DEF initializeWasm
<1>2. WorkersTyped
  BY DEF WorkersInv
<1>3. /\ pool[k] \in Seq(Worker) /\ DOMAIN pool[k] = 1 .. Len(pool[k])
      /\ pool[k][i] \in Worker
  BY <1>1, <1>2, ElementOfSeq DEF WorkersTyped
<1> DEFINE it == [pool[k][i] EXCEPT !.ready = TRUE]
           its == [pool[k] EXCEPT ![i] = it]
<1>4. it \in Worker /\ it.queue = pool[k][i].queue
  BY <1>3 DEF Worker
<1>5. pool' = [pool EXCEPT ![k] = its]
  BY <1>1
<1> HIDE DEF it
<1>6. /\ its \in Seq(Worker) /\ DOMAIN its = DOMAIN pool[k]
      /\ \A j \in DOMAIN pool[k] : its[j].queue = pool[k][j].queue
  BY <1>1, <1>3, <1>4
<1> HIDE DEF its
<1>7. pool'[k] = its /\ \A j \in Kinds : j # k => pool'[j] = pool[j]
  BY <1>2, <1>5 DEF WorkersTyped
<1>8. WorkersTyped'
  BY <1>1, <1>2, <1>5, <1>6 DEF WorkersTyped
<1> QED BY <1>1, <1>6, <1>7, <1>8, QueuesStay, Untouched DEF WorkersInv

LEMMA FailKeeps ==
  ASSUME WorkersInv, NEW k \in Kinds, NEW i \in 1 .. MaxWorkers, Fail(k, i)
  PROVE  WorkersInv'
<1>1. /\ pool' = [pool EXCEPT ![k] = <<>>] /\ run' = [run EXCEPT ![k].pc = "failed"]
      /\ UNCHANGED <<cores, paths, signal>>
  BY DEF Fail, Cancelled
<1>2. WorkersTyped
  BY DEF WorkersInv
<1>3. pool'[k] = <<>> /\ run'[k].pc = "failed"
  BY <1>1, <1>2 DEF WorkersTyped
<1>4. \A j \in Kinds : j # k => pool'[j] = pool[j] /\ run'[j] = run[j]
  BY <1>1, <1>2 DEF WorkersTyped
<1>5. WorkersTyped'
  <2>1. pool' \in [Kinds -> Seq(Worker)]
    BY <1>1, <1>2 DEF WorkersTyped
  <2> QED BY <1>1, <1>2, <2>1 DEF WorkersTyped, WorkerRun, Pcs
<1> QED BY <1>1, <1>3, <1>4, <1>5, CancelledIsSound, Untouched DEF WorkersInv

LEMMA AbortKeeps ==
  ASSUME WorkersInv, Abort
  PROVE  WorkersInv'
<1>1. /\ signal' = signal + 1
      /\ run' = [k \in Kinds |-> IF Waiting(k) THEN [run[k] EXCEPT !.pc = "aborted"] ELSE run[k]]
      /\ pool' = [k \in Kinds |-> IF Waiting(k) THEN <<>> ELSE pool[k]]
      /\ UNCHANGED <<cores, paths>>
  BY DEF Abort, Cancelled
<1>2. WorkersTyped
  BY DEF WorkersInv
<1>3. WorkersTyped'
  <2>1. pool' \in [Kinds -> Seq(Worker)]
    <3>1. <<>> \in Seq(Worker)
      OBVIOUS
    <3> QED BY <1>1, <1>2, <3>1 DEF WorkersTyped
  <2>2. run' \in [Kinds -> WorkerRun]
    BY <1>1, <1>2 DEF WorkersTyped, WorkerRun, Pcs
  <2>3. signal' \in Nat \ {0} /\ cores' \in Cores /\ paths' \in PathCounts
    BY <1>1, <1>2 DEF WorkersTyped
  <2> QED BY <1>1, <2>1, <2>2, <2>3 DEF WorkersTyped
<1>4. ASSUME NEW k \in Kinds PROVE OneCallEach(k)' /\ WaitsForOwed(k)' /\ Counted(k)'
  <2>1. CASE Waiting(k)
    <3>1. pool'[k] = <<>> /\ run'[k].pc = "aborted"
      BY <1>1, <1>2, <2>1 DEF WorkersTyped, WorkerRun
    <3> QED BY <3>1, CancelledIsSound
  <2>2. CASE ~Waiting(k)
    <3>1. pool'[k] = pool[k] /\ run'[k] = run[k]
      BY <1>1, <2>2
    <3>2. \A i \in DOMAIN pool[k] : pool[k][i].queue = <<>>
      BY <2>2 DEF WorkersInv, OneCallEach
    <3>3. ~Waiting(k)'
      BY <2>2, <3>1 DEF Waiting
    <3>4. Counted(k)
      BY DEF WorkersInv
    <3> QED BY <1>1, <3>1, <3>2, <3>3, <3>4 DEF OneCallEach, WaitsForOwed, Counted
  <2> QED BY <2>1, <2>2
<1> QED BY <1>3, <1>4 DEF WorkersInv

(* An answer is owed once: it takes its shard from those owed and counts it.  *)
LEMMA AnswerKeeps ==
  ASSUME WorkersInv, NEW k \in Kinds, NEW i \in 1 .. MaxWorkers, Answer(k, i)
  PROVE  WorkersInv'
<1> DEFINE shard == Shards(k)[i]
           rest == Tail(pool[k][i].queue)
           it == [pool[k][i] EXCEPT !.queue = rest]
           its == [pool[k] EXCEPT ![i] = it]
           last == run[k].missing = 1
           tally == [p \in 0 .. paths |-> run[k].tally[p] + IF Covers(shard, p) THEN 1 ELSE 0]
           counted == CountedIn(run[k], shard)
<1>1. /\ i \in DOMAIN pool[k] /\ pool[k][i].queue # <<>>
      /\ UNCHANGED <<cores, paths, signal>>
  BY DEF Answer
<1>2. WorkersTyped /\ OneCallEach(k) /\ WaitsForOwed(k)
  BY DEF WorkersInv
<1>3. /\ Waiting(k) /\ i \in DOMAIN Shards(k)
      /\ pool[k][i].queue = <<[signal |-> signal, shard |-> shard]>>
      /\ run[k].signal = signal /\ run[k].missing = Cardinality(Owed(k))
      /\ run[k].tally = Tallied(k)
  BY <1>1, <1>2 DEF OneCallEach, WaitsForOwed
<1>4. Head(pool[k][i].queue) = [signal |-> signal, shard |-> shard] /\ rest = <<>>
  BY <1>3
<1>5. DOMAIN run[k].tally = 0 .. paths
  BY <1>3 DEF Tallied
<1>6. pool' = [pool EXCEPT ![k] = its] /\ run' = [run EXCEPT ![k] = counted]
  <2>1. pool' = [pool EXCEPT ![k][i].queue = Tail(@)]
    BY DEF Answer
  <2>2. run' = [run EXCEPT ![k] = counted]
    <3>1. Waiting(k) /\ run[k].signal = Head(pool[k][i].queue).signal
      BY <1>3, <1>4
    <3>2. run' = [run EXCEPT ![k] = CountedIn(@, Head(pool[k][i].queue).shard)]
      BY <3>1 DEF Answer
    <3>3. Head(pool[k][i].queue).shard = shard
      BY <1>4
    <3> HIDE DEF shard
    <3> QED BY <3>2, <3>3
  <2> QED BY <2>1, <2>2
<1>7. pool[k] \in Seq(Worker) /\ pool[k][i] \in Worker
  BY <1>1, <1>2, ElementOfSeq DEF WorkersTyped
<1>8. it \in Worker /\ it.queue = <<>>
  <2>1. <<>> \in Seq([signal : Nat, shard : Shard])
    OBVIOUS
  <2> HIDE DEF rest
  <2>2. PICK u : u = [pool[k][i] EXCEPT !.queue = rest]
    OBVIOUS
  <2>3. u \in Worker /\ u.queue = <<>>
    BY <1>4, <1>7, <2>1, <2>2, WorkerUpdated
  <2> QED BY <2>2, <2>3
<1> HIDE DEF it
<1>9. /\ its \in Seq(Worker) /\ DOMAIN its = DOMAIN pool[k]
      /\ \A j \in DOMAIN pool[k] : its[j] = IF j = i THEN it ELSE pool[k][j]
  BY <1>1, <1>7, <1>8
<1> HIDE DEF its
<1>10. pool'[k] = its /\ run'[k] = counted
  BY <1>2, <1>6 DEF WorkersTyped
<1>11. \A j \in Kinds : j # k => pool'[j] = pool[j] /\ run'[j] = run[j]
  BY <1>2, <1>6 DEF WorkersTyped
<1>12. paths \in Nat \ {0} /\ cores \in Cores /\ paths \in PathCounts
  BY <1>2, CountOfWorkers DEF WorkersTyped
<1>13. /\ counted.signal = signal /\ counted.missing = run[k].missing - 1
       /\ counted.tally = tally /\ counted \in WorkerRun
       /\ counted.pc = IF last THEN "answered" ELSE "waiting"
  <2>1. run[k] \in WorkerRun
    BY <1>2 DEF WorkersTyped
  <2>2. run[k].pc = "waiting"
    BY <1>3 DEF Waiting
  <2>3. run[k].tally \in [0 .. paths -> Nat]
    BY <1>3 DEF Tallied
  <2> QED BY <1>3, <1>12, <2>1, <2>2, <2>3, CountedInIs
<1> HIDE DEF counted
<1>14. Shards(k)' = Shards(k)
  BY <1>1, ShardsStay
<1>15. Owed(k)' = Owed(k) \ {i} /\ i \in Owed(k)
  BY <1>1, <1>3, <1>8, <1>9, <1>10, <1>14 DEF Owed
<1>16. /\ IsFiniteSet(Owed(k)) /\ Cardinality(Owed(k)) \in Nat
       /\ Cardinality(Owed(k)') = Cardinality(Owed(k)) - 1
       /\ Cardinality(Owed(k)) = 1 => Owed(k)' = {}
  <2>1. IsFiniteSet(1 .. Len(Shards(k))) /\ Owed(k) \subseteq 1 .. Len(Shards(k))
    <3>1. Len(Shards(k)) \in Nat /\ DOMAIN Shards(k) = 1 .. Len(Shards(k))
      BY <1>12, ShardsAreTyped
    <3> QED BY <3>1, FS_Interval DEF Owed
  <2>2. IsFiniteSet(Owed(k))
    BY <2>1, FS_Subset
  <2>3. IsFiniteSet(Owed(k)') /\ Cardinality(Owed(k)') = Cardinality(Owed(k)) - 1
    BY <1>15, <2>2, FS_RemoveElement
  <2>4. Cardinality(Owed(k)) \in Nat
    BY <2>2, FS_CardinalityType
  <2>5. Cardinality(Owed(k)') = 0 => Owed(k)' = {}
    BY <2>3, FS_EmptySet
  <2> QED BY <2>2, <2>3, <2>4, <2>5
<1>17. tally = Tallied(k)'
  <2>1. Tallied(k)' = [p \in 0 .. paths |->
          IF \E j \in DOMAIN Shards(k) \ (Owed(k) \ {i}) : Covers(Shards(k)[j], p) THEN 1 ELSE 0]
    BY <1>1, <1>14, <1>15 DEF Tallied, Covers
  <2>2. ASSUME NEW p \in 0 .. paths
        PROVE  tally[p] = IF \E j \in DOMAIN Shards(k) \ (Owed(k) \ {i}) : Covers(Shards(k)[j], p)
                          THEN 1 ELSE 0
    <3>1. run[k].tally[p] = IF \E j \in DOMAIN Shards(k) \ Owed(k) : Covers(Shards(k)[j], p)
                            THEN 1 ELSE 0
      BY <1>3 DEF Tallied
    <3>2. \A j \in DOMAIN Shards(k) : Covers(shard, p) /\ Covers(Shards(k)[j], p) => j = i
      BY <1>3, <1>12, ShardsPartition
    <3>3. CASE Covers(shard, p)
      <4>1. ~ \E j \in DOMAIN Shards(k) \ Owed(k) : Covers(Shards(k)[j], p)
        BY <1>15, <3>2, <3>3
      <4>2. \E j \in DOMAIN Shards(k) \ (Owed(k) \ {i}) : Covers(Shards(k)[j], p)
        BY <1>3, <3>3
      <4> QED BY <3>1, <3>3, <4>1, <4>2
    <3>4. CASE ~Covers(shard, p)
      <4>1. (\E j \in DOMAIN Shards(k) \ Owed(k) : Covers(Shards(k)[j], p))
              <=> \E j \in DOMAIN Shards(k) \ (Owed(k) \ {i}) : Covers(Shards(k)[j], p)
        BY <1>15, <3>4
      <4> QED BY <3>1, <3>4, <4>1
    <3> QED BY <3>3, <3>4
  <2> QED BY <2>1, <2>2
<1> HIDE DEF tally
<1>18. WorkersTyped'
  BY <1>1, <1>2, <1>6, <1>9, <1>13 DEF WorkersTyped
<1>19. OneCallEach(k)'
  <2> SUFFICES ASSUME NEW j \in DOMAIN pool'[k], pool'[k][j].queue # <<>>
               PROVE  /\ Waiting(k)' /\ j \in DOMAIN Shards(k)
                      /\ pool'[k][j].queue = <<[signal |-> signal, shard |-> Shards(k)[j]]>>
    BY <1>1, <1>14 DEF OneCallEach
  <2>1. j # i /\ pool'[k][j] = pool[k][j] /\ j \in DOMAIN pool[k]
    BY <1>8, <1>9, <1>10
  <2>2. j \in DOMAIN Shards(k) /\ pool[k][j].queue = <<[signal |-> signal, shard |-> Shards(k)[j]]>>
    BY <1>2, <2>1 DEF OneCallEach
  <2>3. j \in Owed(k)'
    BY <1>15, <2>1, <2>2 DEF Owed
  <2>4. ~last
    BY <1>3, <1>16, <2>3
  <2> QED BY <1>10, <1>13, <2>1, <2>2, <2>4 DEF Waiting
<1>20. WaitsForOwed(k)'
  BY <1>1, <1>3, <1>10, <1>13, <1>16, <1>17 DEF WaitsForOwed
<1>21. Counted(k)'
  <2> SUFFICES ASSUME run'[k].pc = "answered", NEW p \in 0 .. paths
               PROVE  tally[p] = IF p < paths THEN 1 ELSE 0
    BY <1>1, <1>10, <1>13, <1>17 DEF Counted, Tallied
  <2>1. last
    BY <1>10, <1>13
  <2>2. Owed(k)' = {}
    BY <1>3, <1>16, <2>1
  <2>3. tally[p] = IF \E j \in DOMAIN Shards(k) : Covers(Shards(k)[j], p) THEN 1 ELSE 0
    BY <1>1, <1>14, <1>17, <2>2 DEF Tallied, Covers
  <2>4. (\E j \in DOMAIN Shards(k) : Covers(Shards(k)[j], p)) <=> p < paths
    BY <1>12, ShardsPartition
  <2> QED BY <2>3, <2>4
<1> QED BY <1>1, <1>11, <1>18, <1>19, <1>20, <1>21, Untouched DEF WorkersInv

LEMMA WorkersInvStarts == WorkersInit => WorkersInv
<1> SUFFICES ASSUME WorkersInit PROVE WorkersInv
  OBVIOUS
<1>1. WorkersTyped
  <2>1. pool \in [Kinds -> Seq(Worker)]
    BY DEF WorkersInit
  <2>2. run \in [Kinds -> WorkerRun]
    BY DEF WorkersInit, NoRun, WorkerRun, Pcs, TalliesTell
  <2> QED BY <2>1, <2>2 DEF WorkersInit, WorkersTyped
<1>2. \A k \in Kinds : DOMAIN pool[k] = {} /\ run[k].pc = "none"
  BY DEF WorkersInit, NoRun
<1> QED BY <1>1, <1>2 DEF WorkersInv, OneCallEach, WaitsForOwed, Counted, Waiting

LEMMA WorkersStepKeeps == WorkersInv /\ [WorkersNext]_workerVars => WorkersInv'
<1> SUFFICES ASSUME WorkersInv, [WorkersNext]_workerVars PROVE WorkersInv'
  OBVIOUS
<1>1. CASE \E k \in Kinds : Begin(k)
  BY <1>1, BeginKeeps
<1>2. CASE \E k \in Kinds, i \in 1 .. MaxWorkers : WorkerStep(k, i) \/ Fail(k, i)
  BY <1>2, WasmKeeps, AnswerKeeps, FailKeeps DEF WorkerStep
<1>3. CASE Abort
  BY <1>3, AbortKeeps
<1>4. CASE UNCHANGED workerVars
  <2>1. WorkersTyped'
    BY <1>4 DEF workerVars, WorkersInv, WorkersTyped
  <2>2. UNCHANGED <<cores, paths, signal, run, pool>>
    BY <1>4 DEF workerVars
  <2> QED BY <2>1, <2>2, Untouched DEF WorkersInv
<1> QED BY <1>1, <1>2, <1>3, <1>4 DEF WorkersNext

(* Every path of an answered run is counted exactly once and none beyond     *)
(* them, and no Worker computes for a run nobody waits for, for any number   *)
(* of cores, paths, refreshes and failures (mc.ts sweepPathShards,           *)
(* runMonteCarloSummaries, cancelSweepWorkers).                              *)
THEOREM PathsAreCounted == WorkersSpec => []EveryPathOnce
<1>1. WorkersInv => EveryPathOnce
  <2> SUFFICES ASSUME WorkersInv PROVE EveryPathOnce
    OBVIOUS
  <2>1. CountedOnce
    BY DEF WorkersInv, Counted, CountedOnce
  <2>2. NoWorkForNobody
    <3> SUFFICES ASSUME NEW k \in Kinds, NEW i \in DOMAIN pool[k],
                        NEW n \in DOMAIN pool[k][i].queue
                 PROVE  /\ Waiting(k) /\ run[k].signal = signal
                        /\ pool[k][i].queue[n].signal = run[k].signal
      BY DEF NoWorkForNobody
    <3>1. pool[k][i].queue # <<>>
      OBVIOUS
    <3>2. Waiting(k) /\ pool[k][i].queue = <<[signal |-> signal, shard |-> Shards(k)[i]]>>
      BY <3>1 DEF WorkersInv, OneCallEach
    <3>3. run[k].signal = signal
      BY <3>2 DEF WorkersInv, WaitsForOwed
    <3> QED BY <3>2, <3>3
  <2> QED BY <2>1, <2>2 DEF EveryPathOnce
<1> QED BY <1>1, WorkersInvStarts, WorkersStepKeeps, PTL DEF WorkersSpec

-----------------------------------------------------------------------------
(* Signing up *)

CallSound(call) ==
  /\ call.uid \in 1 .. created /\ call.generation <= provider.generation
  /\ call.ok => call.at = "replied" /\ call.uid \in rows
  /\ call.by = "form" /\ call.at # "done" => form = "syncing" /\ call.uid = formUser
  /\ call.by = "provider" /\ call.at # "done" /\ call.generation = provider.generation =>
       call.uid = notified

CallsSound ==
  /\ \A i \in Calls : CallSound(calls[i])
  /\ \A i, j \in Calls : calls[i].by = "form" /\ calls[i].at # "done"
                           /\ calls[j].by = "form" /\ calls[j].at # "done" => i = j

FormSound ==
  /\ form = "creating" => created < MaxSignups
  /\ form \in {"naming", "syncing", "deleting", "done"} => formUser # Nobody /\ live = formUser
  /\ authUser \in {Nobody, live}

(* What the form and the provider may still ask the route.                   *)
Announced == IF authUser # Nobody /\ authUser # notified THEN 1 ELSE 0
StillToAsk ==
  CASE form = "creating" /\ live = Nobody -> 3
    [] form = "naming" -> 2
    [] form = "syncing" -> 1
    [] OTHER -> 0
CallsFit == Len(calls) + Announced + StillToAsk <= MaxCalls

SignupInv == SignupSafe /\ CallsSound /\ FormSound /\ CallsFit
LEMMA OneRow ==
  ASSUME NEW u, NEW table, table = {u}
  PROVE  Cardinality(table) <= 1
<1>1. Cardinality({u}) = 1
  BY FS_Singleton
<1> QED BY <1>1

LEMMA Lengths ==
  ASSUME NEW S, NEW s \in Seq(S), NEW i \in DOMAIN s, NEW c \in S, NEW t, t = [s EXCEPT ![i] = c]
  PROVE  /\ t \in Seq(S) /\ Len(t) = Len(s) /\ DOMAIN t = DOMAIN s
         /\ \A j \in DOMAIN s : t[j] = IF j = i THEN c ELSE s[j]
OBVIOUS

(* A step of the route on one call, that may write its row, spend an attempt *)
(* or lose a message.                                                        *)
LEMMA RouteKeeps ==
  ASSUME SignupInv, NEW i \in Calls, NEW c \in Call, calls[i].at # "done",
         calls' = [calls EXCEPT ![i] = c],
         c.uid = calls[i].uid, c.generation = calls[i].generation, c.by = calls[i].by,
         c.ok => c.at = "replied" /\ c.uid \in rows',
         rows' = rows \/ (rows \subseteq {c.uid} /\ rows' = {c.uid}),
         used' \in 0 .. InviteLimit, faults' \in 0 .. MaxFaults,
         UNCHANGED <<form, formUser, stash, firebaseVars, notified, provider>>
  PROVE  SignupInv'
<1> USE DEF firebaseVars
<1>1. /\ SignupTypeOK /\ SettledIsCurrent /\ DoneIsMember
      /\ CallsSound /\ FormSound /\ CallsFit
  BY DEF SignupInv, SignupSafe
<1>2. calls \in Seq(Call) /\ Len(calls) <= MaxCalls
  BY <1>1 DEF SignupTypeOK
<1>3. /\ calls' \in Seq(Call) /\ Len(calls') = Len(calls) /\ Calls' = Calls
      /\ \A j \in Calls : calls'[j] = IF j = i THEN c ELSE calls[j]
  BY <1>2, Lengths DEF Calls
<1>4. rows \subseteq rows'
  OBVIOUS
<1>5. CallSound(calls[i]) /\ c.uid \in 1 .. created
  BY <1>1 DEF CallsSound, CallSound
<1>6. SignupTypeOK'
  <2>1. rows' \subseteq 1 .. created /\ Cardinality(rows') <= 1
    BY <1>1, <1>5, OneRow DEF SignupTypeOK
  <2> QED BY <1>1, <1>2, <1>3, <2>1 DEF SignupTypeOK
<1>7. SettledIsCurrent' /\ DoneIsMember'
  BY <1>1, <1>4 DEF SettledIsCurrent, DoneIsMember
<1>8. CallsSound'
  <2>1. ASSUME NEW j \in Calls PROVE CallSound(calls[j])'
    <3>1. CASE j = i
      <4>1. calls'[j] = c
        BY <1>3, <3>1
      <4> QED BY <1>5, <4>1 DEF CallSound
    <3>2. CASE j # i
      <4>1. calls'[j] = calls[j] /\ CallSound(calls[j])
        BY <1>1, <1>3, <3>2 DEF CallsSound
      <4> QED BY <1>4, <4>1 DEF CallSound
    <3> QED BY <3>1, <3>2
  <2>2. \A j \in Calls : calls'[j].by = "form" /\ calls'[j].at # "done" =>
                           calls[j].by = "form" /\ calls[j].at # "done"
    BY <1>3
  <2> QED BY <1>1, <1>3, <2>1, <2>2 DEF CallsSound
<1>9. FormSound'
  BY <1>1 DEF FormSound
<1>10. CallsFit'
  BY <1>1, <1>3 DEF CallsFit, Announced, StillToAsk
<1> QED BY <1>6, <1>7, <1>8, <1>9, <1>10 DEF SignupInv, SignupSafe

(* A reply, or the end of a call whose page is gone.                         *)
Reply(call, ok) ==
  IF call.by = "unloaded page" THEN Finished(call) ELSE [call EXCEPT !.at = "replied", !.ok = ok]

LEMMA ReplyIs ==
  ASSUME NEW call \in Call, NEW ok \in BOOLEAN
  PROVE  /\ Reply(call, ok) \in Call
         /\ Reply(call, ok).uid = call.uid /\ Reply(call, ok).by = call.by
         /\ Reply(call, ok).generation = call.generation
         /\ Reply(call, ok).ok => ok /\ Reply(call, ok).at = "replied"
<1>1. CASE call.by = "unloaded page"
  <2>1. PICK c : c = Finished(call)
    OBVIOUS
  <2>2. c \in Call /\ c.uid = call.uid /\ c.by = call.by /\ c.generation = call.generation /\ ~c.ok
    BY <2>1 DEF Call, Finished
  <2> QED BY <1>1, <2>1, <2>2 DEF Reply
<1>2. CASE call.by # "unloaded page"
  <2>1. PICK c : c = [call EXCEPT !.at = "replied", !.ok = ok]
    OBVIOUS
  <2>2. /\ c \in Call /\ c.uid = call.uid /\ c.by = call.by /\ c.generation = call.generation
        /\ c.ok = ok /\ c.at = "replied"
    BY <2>1 DEF Call
  <2> QED BY <1>2, <2>1, <2>2 DEF Reply
<1> QED BY <1>1, <1>2

LEMMA MovedIs ==
  ASSUME NEW call \in Call, NEW place \in {"update", "quota", "insert"}, NEW c,
         c = [call EXCEPT !.at = place]
  PROVE  /\ c \in Call /\ c.uid = call.uid /\ c.by = call.by /\ c.generation = call.generation
         /\ c.ok = call.ok
BY DEF Call

LEMMA SentIs ==
  ASSUME NEW call \in Call, NEW code \in {"none", "right", "wrong"}, NEW c,
         c = [call EXCEPT !.at = "update", !.code = code]
  PROVE  /\ c \in Call /\ c.uid = call.uid /\ c.by = call.by /\ c.generation = call.generation
         /\ c.ok = call.ok
BY DEF Call

LEMMA RouteStepKeeps ==
  ASSUME SignupInv, NEW i \in Calls, Serves(i) \/ Lost(i)
  PROVE  SignupInv'
<1>1. SignupTypeOK /\ CallSound(calls[i])
  BY DEF SignupInv, SignupSafe, CallsSound
<1>2. /\ calls[i] \in Call /\ stash \in {"none", "right", "wrong"}
      /\ used \in 0 .. InviteLimit /\ faults \in 0 .. MaxFaults
  BY <1>1, ElementOfSeq DEF SignupTypeOK, Calls
<1>3. calls[i].at # "replied" => ~calls[i].ok
  BY <1>1 DEF CallSound
<1>4. InviteLimit \in Nat /\ MaxFaults \in Nat
  BY SignupAssumption
<1>5. CASE Send(i)
  <2>1. PICK c : c = [calls[i] EXCEPT !.at = "update", !.code = stash]
    OBVIOUS
  <2>2. /\ calls[i].at = "token" /\ calls' = [calls EXCEPT ![i] = c]
        /\ UNCHANGED <<form, formUser, stash, firebaseVars, notified, provider, serverVars, faults>>
    BY <1>5, <2>1 DEF Send
  <2>3. /\ c \in Call /\ c.uid = calls[i].uid /\ c.by = calls[i].by
        /\ c.generation = calls[i].generation /\ ~c.ok
    <3>1. ~calls[i].ok
      BY <1>3, <2>2
    <3>2. c \in Call /\ c.uid = calls[i].uid /\ c.by = calls[i].by
      BY <1>2, <2>1, SentIs
    <3>3. c.generation = calls[i].generation /\ c.ok = calls[i].ok
      BY <1>2, <2>1, SentIs
    <3> QED BY <3>1, <3>2, <3>3
  <2> QED BY <1>2, <2>2, <2>3, RouteKeeps DEF serverVars
<1>6. ASSUME NEW ok \in BOOLEAN, calls[i].at # "done", Replies(i, ok), ok => calls[i].uid \in rows',
             rows' = rows \/ (rows \subseteq {calls[i].uid} /\ rows' = {calls[i].uid}),
             used' \in 0 .. InviteLimit, faults' \in 0 .. MaxFaults,
             UNCHANGED <<form, formUser, stash, firebaseVars, notified, provider>>
      PROVE  SignupInv'
  <2>1. PICK c : c = Reply(calls[i], ok)
    OBVIOUS
  <2>2. calls' = [calls EXCEPT ![i] = c]
    BY <1>6, <2>1 DEF Replies, Reply
  <2>3. /\ c \in Call /\ c.uid = calls[i].uid /\ c.by = calls[i].by
        /\ c.generation = calls[i].generation
        /\ c.ok => ok /\ c.at = "replied"
    BY <1>2, <2>1, ReplyIs
  <2>4. c.ok => c.at = "replied" /\ c.uid \in rows'
    BY <1>6, <2>3
  <2>5. rows' = rows \/ (rows \subseteq {c.uid} /\ rows' = {c.uid})
    BY <1>6, <2>3
  <2> QED BY <1>6, <2>2, <2>3, <2>4, <2>5, RouteKeeps
<1>7. ASSUME NEW place \in {"quota", "insert"}, calls[i].at \in {"update", "quota"},
             Passes(i, place), rows' = rows,
             used' \in 0 .. InviteLimit, RouteUnchanged
      PROVE  SignupInv'
  <2>1. PICK c : c = [calls[i] EXCEPT !.at = place]
    OBVIOUS
  <2>2. calls' = [calls EXCEPT ![i] = c]
    BY <1>7, <2>1 DEF Passes
  <2>3. /\ c \in Call /\ c.uid = calls[i].uid /\ c.by = calls[i].by
        /\ c.generation = calls[i].generation /\ ~c.ok
    BY <1>2, <1>3, <1>7, <2>1, MovedIs
  <2> QED BY <1>2, <1>7, <2>2, <2>3, RouteKeeps DEF RouteUnchanged
<1>8. CASE Update(i)
  <2>1. calls[i].at = "update" /\ RouteUnchanged /\ UNCHANGED <<rows, used>>
    BY <1>8 DEF Update, serverVars
  <2>2. CASE calls[i].uid \in rows
    BY <1>2, <1>6, <1>8, <2>1, <2>2 DEF Update, RouteUnchanged
  <2>3. CASE calls[i].uid \notin rows
    BY <1>2, <1>7, <1>8, <2>1, <2>3 DEF Update
  <2> QED BY <2>2, <2>3
<1>9. CASE ConsumeInvite(i)
  <2>1. calls[i].at = "quota" /\ RouteUnchanged /\ rows' = rows
    BY <1>9 DEF ConsumeInvite
  <2>2. CASE used = InviteLimit /\ Replies(i, FALSE) /\ UNCHANGED used
    BY <1>2, <1>6, <2>1, <2>2 DEF RouteUnchanged
  <2>3. CASE /\ used < InviteLimit /\ used' = used + 1
             /\ IF calls[i].code = "right" THEN Passes(i, "insert") ELSE Replies(i, FALSE)
    <3>1. used' \in 0 .. InviteLimit
      BY <1>2, <1>4, <2>3
    <3> QED BY <1>2, <1>6, <1>7, <2>1, <2>3, <3>1 DEF RouteUnchanged
  <2> QED BY <1>9, <2>2, <2>3 DEF ConsumeInvite
<1>10. CASE Insert(i)
  <2>1. calls[i].at = "insert" /\ RouteUnchanged /\ used' = used
    BY <1>10 DEF Insert
  <2>2. CASE rows \subseteq {calls[i].uid} /\ rows' = {calls[i].uid} /\ Replies(i, TRUE)
    BY <1>2, <1>6, <2>1, <2>2 DEF RouteUnchanged
  <2>3. CASE UNCHANGED rows /\ Replies(i, FALSE)
    BY <1>2, <1>6, <2>1, <2>3 DEF RouteUnchanged
  <2> QED BY <1>10, <2>2, <2>3 DEF Insert
<1>11. CASE Lost(i)
  <2>1. faults < MaxFaults /\ faults' = faults + 1 /\ Replies(i, FALSE) /\ calls[i].at # "done"
    BY <1>11 DEF Lost, Fault
  <2>2. UNCHANGED <<form, formUser, stash, firebaseVars, notified, provider, rows, used>>
    BY <1>11 DEF Lost, serverVars
  <2>3. faults' \in 0 .. MaxFaults
    BY <1>2, <1>4, <2>1
  <2> QED BY <1>2, <1>6, <2>1, <2>2, <2>3
<1> QED BY <1>5, <1>8, <1>9, <1>10, <1>11 DEF Serves
LEMMA Facts ==
  ASSUME SignupInv
  PROVE  /\ SignupTypeOK /\ SettledIsCurrent /\ DoneIsMember
         /\ CallsSound /\ FormSound /\ CallsFit
         /\ {InviteLimit, MaxSignups, MaxCalls, MaxFaults} \subseteq Nat
         /\ created \in 0 .. MaxSignups /\ {live, authUser, notified} \subseteq 0 .. created
         /\ calls \in Seq(Call) /\ Len(calls) \in Nat /\ Calls = 1 .. Len(calls)
         /\ \A i \in Calls : calls[i] \in Call /\ CallSound(calls[i])
<1>1. SignupTypeOK /\ CallsSound
  BY DEF SignupInv, SignupSafe
<1>2. calls \in Seq(Call) /\ Len(calls) \in Nat /\ Calls = 1 .. Len(calls)
  BY <1>1 DEF SignupTypeOK, Calls
<1>3. \A i \in Calls : calls[i] \in Call
  BY <1>2, ElementOfSeq
<1> QED BY <1>1, <1>2, <1>3, SignupAssumption DEF SignupInv, SignupSafe, SignupTypeOK, CallsSound

(* Steps that leave the calls alone: no call of the form is awaited.         *)
LEMMA FormIsAlone ==
  ASSUME SignupInv, form # "syncing", UNCHANGED <<calls, provider, notified, rows>>,
         created' \in Nat, created <= created'
  PROVE  CallsSound'
<1>1. /\ CallsSound /\ created \in Nat /\ Calls = 1 .. Len(calls)
      /\ \A i \in Calls : calls[i] \in Call /\ CallSound(calls[i])
  BY Facts
<1>2. \A i \in Calls : ~(calls[i].by = "form" /\ calls[i].at # "done")
  BY <1>1 DEF CallSound
<1>3. ASSUME NEW i \in Calls PROVE CallSound(calls[i])'
  <2>1. calls'[i] = calls[i] /\ calls[i].uid \in 1 .. created'
    BY <1>1 DEF CallSound
  <2> QED BY <1>1, <1>2, <2>1 DEF CallSound
<1>4. Calls' = Calls
  BY DEF Calls
<1> QED BY <1>2, <1>3, <1>4 DEF CallsSound

LEMMA SubmitKeeps ==
  ASSUME SignupInv, NEW code \in {"right", "wrong"}, Submit(code)
  PROVE  SignupInv'
<1>1. /\ form \in {"idle", "failed"} /\ created < MaxSignups /\ Len(calls) + 3 <= MaxCalls
      /\ form' = "creating" /\ stash' = code
      /\ UNCHANGED <<formUser, created, live, authUser, notified, provider, calls, rows, used, faults>>
  BY DEF Submit, firebaseVars, serverVars
<1>2. /\ SignupTypeOK /\ SettledIsCurrent /\ FormSound /\ CallsFit
      /\ Len(calls) \in Nat /\ MaxCalls \in Nat /\ created \in Nat
  BY Facts
<1>3. SignupTypeOK'
  BY <1>1, <1>2 DEF SignupTypeOK
<1>4. SettledIsCurrent' /\ DoneIsMember'
  BY <1>1, <1>2 DEF SettledIsCurrent, DoneIsMember
<1>5. CallsSound'
  BY <1>1, <1>2, FormIsAlone
<1>6. FormSound'
  BY <1>1, <1>2 DEF FormSound
<1>7. CallsFit'
  <2>1. /\ Announced' = 0 \/ Announced' = 1
        /\ StillToAsk' = 0 \/ StillToAsk' = 3
    BY <1>1 DEF Announced, StillToAsk
  <2>2. Announced' + StillToAsk' <= 3
    <3>1. CASE live = Nobody
      <4>1. authUser' = Nobody
        BY <1>1, <1>2, <3>1 DEF FormSound
      <4>2. Announced' = 0
        BY <4>1 DEF Announced
      <4> QED BY <2>1, <4>2
    <3>2. CASE live # Nobody
      <4>1. StillToAsk' = 0
        BY <1>1, <3>2 DEF StillToAsk
      <4> QED BY <2>1, <4>1
    <3> QED BY <3>1, <3>2
  <2>3. Len(calls') = Len(calls) /\ Len(calls) + 3 <= MaxCalls
    BY <1>1
  <2> QED BY <1>2, <2>1, <2>2, <2>3 DEF CallsFit
<1> QED BY <1>3, <1>4, <1>5, <1>6, <1>7 DEF SignupInv, SignupSafe

LEMMA CreateKeeps ==
  ASSUME SignupInv, CreateUser
  PROVE  SignupInv'
<1>1. /\ form = "creating" /\ live = Nobody
      /\ created' = created + 1 /\ live' = created + 1 /\ authUser' = created + 1
      /\ formUser' = created + 1 /\ form' = "naming"
      /\ UNCHANGED <<stash, notified, provider, calls, rows, used, faults>>
  BY DEF CreateUser, serverVars
<1>2. /\ SignupTypeOK /\ SettledIsCurrent /\ FormSound /\ CallsFit
      /\ Len(calls) \in Nat /\ MaxCalls \in Nat /\ MaxSignups \in Nat /\ created \in 0 .. MaxSignups
      /\ authUser \in 0 .. created /\ notified \in 0 .. created
  BY Facts
<1>3. created < MaxSignups
  BY <1>1, <1>2 DEF FormSound
<1>4. SignupTypeOK'
  <2>1. provider \in [generation : Nat, user : 0 .. created + 1, cloudReady : BOOLEAN, loading : BOOLEAN]
    <3>1. 0 .. created \subseteq 0 .. created + 1
      BY <1>2
    <3> QED BY <1>2, <3>1 DEF SignupTypeOK
  <2>2. rows \subseteq 1 .. created + 1 /\ created + 1 \in 0 .. MaxSignups /\ created + 1 \in Uids
    BY <1>2, <1>3 DEF SignupTypeOK, Uids
  <2>3. {live', authUser', notified'} \subseteq 0 .. created + 1
    BY <1>1, <1>2
  <2> QED BY <1>1, <1>2, <2>1, <2>2, <2>3 DEF SignupTypeOK
<1>5. SettledIsCurrent' /\ DoneIsMember'
  BY <1>1, <1>2 DEF SettledIsCurrent, DoneIsMember
<1>6. CallsSound'
  BY <1>1, <1>2, FormIsAlone
<1>7. FormSound'
  BY <1>1, <1>2 DEF FormSound, Nobody
<1>8. CallsFit'
  <2>1. StillToAsk = 3 /\ Announced = 0
    BY <1>1, <1>2 DEF StillToAsk, Announced, FormSound
  <2>2. StillToAsk' = 2 /\ Announced' \in {0, 1}
    BY <1>1 DEF StillToAsk, Announced
  <2> QED BY <1>1, <1>2, <2>1, <2>2 DEF CallsFit
<1> QED BY <1>4, <1>5, <1>6, <1>7, <1>8 DEF SignupInv, SignupSafe

LEMMA RefusedKeeps ==
  ASSUME SignupInv, CreateRefused
  PROVE  SignupInv'
<1>1. /\ form = "creating" /\ form' = "failed"
      /\ UNCHANGED <<formUser, stash, created, live, authUser, notified, provider, calls, rows, used>>
  BY DEF CreateRefused, firebaseVars, serverVars
<1>2. /\ SignupTypeOK /\ SettledIsCurrent /\ FormSound /\ CallsFit
      /\ Len(calls) \in Nat /\ MaxCalls \in Nat /\ MaxFaults \in Nat /\ created \in Nat
  BY Facts
<1>3. faults' \in 0 .. MaxFaults
  BY <1>2 DEF CreateRefused, Fault, SignupTypeOK
<1>4. SignupTypeOK'
  BY <1>1, <1>2, <1>3 DEF SignupTypeOK
<1>5. SettledIsCurrent' /\ DoneIsMember'
  BY <1>1, <1>2 DEF SettledIsCurrent, DoneIsMember
<1>6. CallsSound'
  BY <1>1, <1>2, FormIsAlone
<1>7. FormSound'
  BY <1>1, <1>2 DEF FormSound
<1>8. CallsFit'
  <2>1. Announced' = Announced /\ Announced \in {0, 1}
    BY <1>1 DEF Announced
  <2>2. StillToAsk' = 0 /\ StillToAsk \in {0, 3}
    BY <1>1 DEF StillToAsk
  <2> QED BY <1>1, <1>2, <2>1, <2>2 DEF CallsFit
<1> QED BY <1>4, <1>5, <1>6, <1>7, <1>8 DEF SignupInv, SignupSafe

(* A new call takes its place after the others.                              *)
LEMMA AskedIs ==
  ASSUME SignupInv, NEW by \in {"form", "provider"}, NEW uid \in 1 .. created, NEW g \in Nat,
         Asks(by, uid, g)
  PROVE  LET c == [by |-> by, uid |-> uid, generation |-> g, code |-> "none",
                   at |-> "token", ok |-> FALSE]
         IN  /\ calls' \in Seq(Call) /\ Len(calls') = Len(calls) + 1
             /\ Calls' = Calls \cup {Len(calls) + 1} /\ calls'[Len(calls) + 1] = c
             /\ \A i \in Calls : calls'[i] = calls[i] /\ i # Len(calls) + 1
<1>1. /\ calls \in Seq(Call) /\ Len(calls) \in Nat /\ Calls = 1 .. Len(calls)
      /\ created \in 0 .. MaxSignups /\ MaxSignups \in Nat
  BY Facts
<1>2. PICK c : c = [by |-> by, uid |-> uid, generation |-> g, code |-> "none",
                    at |-> "token", ok |-> FALSE]
  OBVIOUS
<1>3. uid \in Uids
  BY <1>1 DEF Uids
<1>4. c \in Call
  BY <1>2, <1>3 DEF Call
<1>5. calls' = Append(calls, c)
  BY <1>2 DEF Asks
<1>6. /\ calls' \in Seq(Call) /\ Len(calls') = Len(calls) + 1
      /\ \A i \in 1 .. Len(calls) : calls'[i] = calls[i]
      /\ calls'[Len(calls) + 1] = c
  BY <1>1, <1>4, <1>5
<1>7. Calls' = 1 .. Len(calls) + 1
  BY <1>6 DEF Calls
<1> QED BY <1>1, <1>2, <1>6, <1>7

LEMMA ProfileKeeps ==
  ASSUME SignupInv, UpdateProfile
  PROVE  SignupInv'
<1>1. /\ form = "naming"
      /\ UNCHANGED <<formUser, stash, created, live, authUser, notified, provider, rows, used>>
  BY DEF UpdateProfile, firebaseVars, serverVars
<1>2. /\ SignupTypeOK /\ SettledIsCurrent /\ CallsSound /\ FormSound /\ CallsFit
      /\ Len(calls) \in Nat /\ MaxCalls \in Nat /\ MaxFaults \in Nat /\ created \in Nat
      /\ live \in 0 .. created
      /\ \A i \in Calls : calls[i] \in Call /\ CallSound(calls[i])
  BY Facts
<1>3. formUser \in 1 .. created /\ live = formUser /\ formUser # Nobody
  BY <1>1, <1>2 DEF FormSound, Nobody
<1>4. CASE form' = "syncing" /\ Asks("form", formUser, 0) /\ UNCHANGED faults
  <2>1. PICK c : c = [by |-> "form", uid |-> formUser, generation |-> 0, code |-> "none",
                      at |-> "token", ok |-> FALSE]
    OBVIOUS
  <2>2. /\ calls' \in Seq(Call) /\ Len(calls') = Len(calls) + 1
        /\ Calls' = Calls \cup {Len(calls) + 1} /\ calls'[Len(calls) + 1] = c
        /\ \A i \in Calls : calls'[i] = calls[i] /\ i # Len(calls) + 1
    BY <1>3, <1>4, <2>1, AskedIs
  <2>3. CallsFit'
    <3>1. StillToAsk = 2 /\ StillToAsk' = 1 /\ Announced' = Announced /\ Announced \in {0, 1}
      BY <1>1, <1>4 DEF StillToAsk, Announced
    <3> QED BY <1>2, <2>2, <3>1 DEF CallsFit
  <2>4. SignupTypeOK'
    <3>1. Len(calls') <= MaxCalls
      BY <1>2, <2>2, <2>3 DEF CallsFit, Announced, StillToAsk
    <3> QED BY <1>1, <1>2, <1>4, <2>2, <3>1 DEF SignupTypeOK
  <2>5. SettledIsCurrent' /\ DoneIsMember'
    BY <1>1, <1>2, <1>4 DEF SettledIsCurrent, DoneIsMember
  <2>6. \A i \in Calls : ~(calls[i].by = "form" /\ calls[i].at # "done")
    BY <1>1, <1>2 DEF CallSound
  <2>7. provider.generation \in Nat
    BY <1>2 DEF SignupTypeOK
  <2>8. CallsSound'
    <3>1. ASSUME NEW i \in Calls' PROVE CallSound(calls[i])'
      <4>1. CASE i \in Calls
        <5>1. calls'[i] = calls[i] /\ CallSound(calls[i])
          BY <1>2, <2>2, <4>1
        <5> QED BY <1>1, <2>6, <4>1, <5>1 DEF CallSound
      <4>2. CASE i = Len(calls) + 1
        <5>1. calls'[i] = c
          BY <2>2, <4>2
        <5> QED BY <1>1, <1>3, <1>4, <2>1, <2>7, <5>1 DEF CallSound
      <4> QED BY <2>2, <4>1, <4>2
    <3> QED BY <2>2, <2>6, <3>1 DEF CallsSound
  <2>9. FormSound'
    BY <1>1, <1>2, <1>4 DEF FormSound
  <2> QED BY <2>3, <2>4, <2>5, <2>8, <2>9 DEF SignupInv, SignupSafe
<1>5. CASE form' = "failed" /\ Fault /\ UNCHANGED calls
  <2>1. SignupTypeOK'
    BY <1>1, <1>2, <1>5 DEF SignupTypeOK, Fault
  <2>2. SettledIsCurrent' /\ DoneIsMember'
    BY <1>1, <1>2, <1>5 DEF SettledIsCurrent, DoneIsMember
  <2>3. CallsSound'
    BY <1>1, <1>2, <1>5, FormIsAlone
  <2>4. FormSound'
    BY <1>1, <1>2, <1>5 DEF FormSound
  <2>5. CallsFit'
    BY <1>1, <1>2, <1>5 DEF CallsFit, Announced, StillToAsk
  <2> QED BY <2>1, <2>2, <2>3, <2>4, <2>5 DEF SignupInv, SignupSafe
<1> QED BY <1>4, <1>5 DEF UpdateProfile

LEMMA DeleteKeeps ==
  ASSUME SignupInv, DeleteUser
  PROVE  SignupInv'
<1>1. /\ form = "deleting" /\ form' = "failed"
      /\ UNCHANGED <<formUser, stash, created, notified, provider, calls, rows, used>>
      /\ \/ live' = Nobody /\ authUser' = Nobody
         \/ UNCHANGED <<live, authUser>>
  BY DEF DeleteUser, serverVars
<1>2. /\ SignupTypeOK /\ SettledIsCurrent /\ FormSound /\ CallsFit
      /\ Len(calls) \in Nat /\ MaxCalls \in Nat /\ MaxFaults \in Nat /\ created \in Nat
      /\ live \in 0 .. created /\ authUser \in 0 .. created
  BY Facts
<1>3. faults' \in 0 .. MaxFaults
  BY <1>2 DEF DeleteUser, Fault, SignupTypeOK
<1>4. SignupTypeOK'
  <2>1. {live', authUser'} \subseteq 0 .. created
    BY <1>1, <1>2 DEF Nobody
  <2> QED BY <1>1, <1>2, <1>3, <2>1 DEF SignupTypeOK
<1>5. SettledIsCurrent' /\ DoneIsMember'
  BY <1>1, <1>2 DEF SettledIsCurrent, DoneIsMember
<1>6. CallsSound'
  BY <1>1, <1>2, FormIsAlone
<1>7. FormSound'
  BY <1>1, <1>2 DEF FormSound
<1>8. CallsFit'
  BY <1>1, <1>2 DEF CallsFit, Announced, StillToAsk
<1> QED BY <1>4, <1>5, <1>6, <1>7, <1>8 DEF SignupInv, SignupSafe
(* A call whose caller goes on, whatever else the step does.                 *)
LEMMA FinishedIs ==
  ASSUME SignupInv, NEW i \in Calls, Done(i)
  PROVE  /\ calls' \in Seq(Call) /\ Len(calls') = Len(calls) /\ Calls' = Calls
         /\ \A j \in Calls : j # i => calls'[j] = calls[j]
         /\ calls'[i] \in Call /\ calls'[i].at = "done" /\ ~calls'[i].ok
         /\ calls'[i].uid = calls[i].uid /\ calls'[i].generation = calls[i].generation
<1>1. calls \in Seq(Call) /\ calls[i] \in Call
  BY Facts
<1>2. PICK c : c = Finished(calls[i])
  OBVIOUS
<1>3. /\ c \in Call /\ c.uid = calls[i].uid /\ c.generation = calls[i].generation
      /\ ~c.ok /\ c.at = "done"
  BY <1>1, <1>2 DEF Call, Finished
<1>4. calls' = [calls EXCEPT ![i] = c]
  BY <1>2 DEF Done
<1>5. /\ calls' \in Seq(Call) /\ Len(calls') = Len(calls) /\ Calls' = Calls
      /\ \A j \in Calls : calls'[j] = IF j = i THEN c ELSE calls[j]
  BY <1>1, <1>3, <1>4, Lengths DEF Calls
<1> QED BY <1>3, <1>5

LEMMA SyncFailedKeeps ==
  ASSUME SignupInv, NEW i \in Calls, SyncFailed(i)
  PROVE  SignupInv'
<1>1. /\ calls[i].by = "form" /\ calls[i].at = "replied" /\ form' = "deleting" /\ Done(i)
      /\ UNCHANGED <<formUser, stash, created, live, authUser, notified, provider, rows, used, faults>>
  BY DEF SyncFailed, firebaseVars, serverVars
<1>2. /\ SignupTypeOK /\ SettledIsCurrent /\ CallsSound /\ FormSound /\ CallsFit
      /\ Len(calls) \in Nat /\ MaxCalls \in Nat
      /\ \A j \in Calls : calls[j] \in Call /\ CallSound(calls[j])
  BY Facts
<1>3. form = "syncing"
  BY <1>1, <1>2 DEF CallSound
<1>4. /\ calls' \in Seq(Call) /\ Len(calls') = Len(calls) /\ Calls' = Calls
      /\ \A j \in Calls : j # i => calls'[j] = calls[j]
      /\ calls'[i] \in Call /\ calls'[i].at = "done" /\ ~calls'[i].ok
      /\ calls'[i].uid = calls[i].uid /\ calls'[i].generation = calls[i].generation
  BY <1>1, FinishedIs
<1>5. SignupTypeOK'
  BY <1>1, <1>2, <1>4 DEF SignupTypeOK
<1>6. SettledIsCurrent' /\ DoneIsMember'
  BY <1>1, <1>2 DEF SettledIsCurrent, DoneIsMember
<1>7. \A j \in Calls : ~(calls'[j].by = "form" /\ calls'[j].at # "done")
  <2> SUFFICES ASSUME NEW j \in Calls, calls'[j].by = "form", calls'[j].at # "done" PROVE FALSE
    OBVIOUS
  <2>1. j # i
    BY <1>4
  <2>2. calls'[j] = calls[j]
    BY <1>4, <2>1
  <2> QED BY <1>1, <1>2, <2>1, <2>2 DEF CallsSound
<1>8. CallsSound'
  <2>1. ASSUME NEW j \in Calls PROVE CallSound(calls[j])'
    <3>1. CASE j = i
      BY <1>1, <1>2, <1>4, <3>1 DEF CallSound
    <3>2. CASE j # i
      <4>1. calls'[j] = calls[j] /\ CallSound(calls[j])
        BY <1>2, <1>4, <3>2
      <4> QED BY <1>1, <1>7, <4>1 DEF CallSound
    <3> QED BY <3>1, <3>2
  <2> QED BY <1>4, <1>7, <2>1 DEF CallsSound
<1>9. FormSound'
  BY <1>1, <1>2, <1>3 DEF FormSound
<1>10. CallsFit'
  <2>1. Announced' = Announced /\ Announced \in {0, 1} /\ StillToAsk' = 0 /\ StillToAsk = 1
    BY <1>1, <1>3 DEF Announced, StillToAsk
  <2> QED BY <1>2, <1>4, <2>1 DEF CallsFit
<1> QED BY <1>5, <1>6, <1>8, <1>9, <1>10 DEF SignupInv, SignupSafe

LEMMA UnloadedIs ==
  ASSUME NEW call \in Call
  PROVE  /\ Unloaded(call) \in Call /\ Unloaded(call).uid = call.uid
         /\ Unloaded(call).generation = call.generation
         /\ Unloaded(call).at # "done" => Unloaded(call).by = "unloaded page"
         /\ Unloaded(call).ok => call.ok /\ call.at # "replied"
<1>1. CASE call.at \in {"token", "replied", "done"}
  <2>1. PICK c : c = Finished(call)
    OBVIOUS
  <2>2. c \in Call /\ c.uid = call.uid /\ c.generation = call.generation /\ ~c.ok /\ c.at = "done"
    BY <2>1 DEF Call, Finished
  <2> QED BY <1>1, <2>1, <2>2 DEF Unloaded
<1>2. CASE call.at \notin {"token", "replied", "done"}
  <2>1. PICK c : c = [call EXCEPT !.by = "unloaded page"]
    OBVIOUS
  <2>2. /\ c \in Call /\ c.uid = call.uid /\ c.generation = call.generation
        /\ c.ok = call.ok /\ c.by = "unloaded page"
    BY <2>1 DEF Call
  <2> QED BY <1>2, <2>1, <2>2 DEF Unloaded
<1> QED BY <1>1, <1>2

LEMMA SyncSucceededKeeps ==
  ASSUME SignupInv, NEW i \in Calls, SyncSucceeded(i)
  PROVE  SignupInv'
<1>1. /\ calls[i].by = "form" /\ calls[i].at = "replied" /\ calls[i].ok /\ form' = "done"
      /\ stash' = "none" /\ calls' = [j \in Calls |-> Unloaded(calls[j])]
      /\ notified' = Nobody /\ provider' = FreshProvider(provider.generation + 1)
      /\ UNCHANGED <<formUser, created, live, authUser, rows, used, faults>>
  BY DEF SyncSucceeded, firebaseVars, serverVars
<1>2. /\ SignupTypeOK /\ CallsSound /\ FormSound /\ CallsFit
      /\ calls \in Seq(Call) /\ Len(calls) \in Nat /\ Calls = 1 .. Len(calls) /\ MaxCalls \in Nat
      /\ \A j \in Calls : calls[j] \in Call /\ CallSound(calls[j])
      /\ created \in Nat /\ authUser \in 0 .. created /\ live \in 0 .. created
  BY Facts
<1>3. form = "syncing" /\ formUser \in rows /\ live = formUser
  BY <1>1, <1>2 DEF CallSound, FormSound
<1>4. provider.generation \in Nat
  BY <1>2 DEF SignupTypeOK
<1>5. \A j \in Calls :
        /\ calls'[j] \in Call /\ calls'[j].uid = calls[j].uid
        /\ calls'[j].generation = calls[j].generation /\ ~calls'[j].ok
        /\ calls'[j].at # "done" => calls'[j].by = "unloaded page"
  <2> TAKE j \in Calls
  <2>1. calls'[j] = Unloaded(calls[j]) /\ calls[j] \in Call /\ CallSound(calls[j])
    BY <1>1, <1>2
  <2> QED BY <2>1, UnloadedIs DEF CallSound
<1>6. calls' \in Seq(Call) /\ Len(calls') = Len(calls) /\ Calls' = Calls
  <2>1. DOMAIN calls' = 1 .. Len(calls) /\ calls' \in [1 .. Len(calls) -> Call]
    <3>1. DOMAIN calls' = 1 .. Len(calls) /\ calls' = [j \in 1 .. Len(calls) |-> calls'[j]]
      BY <1>1, <1>2
    <3> QED BY <1>2, <1>5, <3>1
  <2>2. calls' \in Seq(Call)
    BY <1>2, <2>1, SeqDef
  <2> QED BY <1>2, <2>1, <2>2 DEF Calls
<1>7. CallsFit'
  <2>1. StillToAsk = 1 /\ StillToAsk' = 0 /\ Announced \in {0, 1} /\ Announced' \in {0, 1}
    BY <1>1, <1>3 DEF Announced, StillToAsk
  <2> QED BY <1>2, <1>6, <2>1 DEF CallsFit
<1>8. /\ provider'.generation = provider.generation + 1 /\ provider'.loading
      /\ provider' \in [generation : Nat, user : 0 .. created, cloudReady : BOOLEAN, loading : BOOLEAN]
  BY <1>1, <1>2, <1>4 DEF FreshProvider, Nobody
<1>9. SignupTypeOK'
  <2>1. {live', authUser', notified'} \subseteq 0 .. created
    BY <1>1, <1>2 DEF Nobody
  <2> QED BY <1>1, <1>2, <1>6, <1>8, <2>1 DEF SignupTypeOK
<1>10. SettledIsCurrent' /\ DoneIsMember'
  BY <1>1, <1>3, <1>8 DEF SettledIsCurrent, DoneIsMember
<1>11. CallsSound'
  <2>1. ASSUME NEW j \in Calls PROVE CallSound(calls[j])'
    <3>1. calls[j] \in Call /\ CallSound(calls[j])
      BY <1>2
    <3>2. calls[j].generation <= provider.generation + 1
      <4>1. calls[j].generation \in Nat /\ calls[j].generation <= provider.generation
        BY <3>1 DEF CallSound, Call
      <4> QED BY <1>4, <4>1
    <3> QED BY <1>1, <1>5, <1>8, <3>1, <3>2 DEF CallSound
  <2>2. \A j \in Calls : ~(calls'[j].by = "form" /\ calls'[j].at # "done")
    BY <1>5
  <2> QED BY <1>6, <2>1, <2>2 DEF CallsSound
<1>12. FormSound'
  BY <1>1, <1>2, <1>3 DEF FormSound
<1> QED BY <1>7, <1>9, <1>10, <1>11, <1>12 DEF SignupInv, SignupSafe

(* Every new report ends the generation of the calls before it.              *)
LEMMA AuthKeeps ==
  ASSUME SignupInv, AuthStateChanged
  PROVE  SignupInv'
<1> DEFINE g == provider.generation + 1
<1>1. /\ notified' = authUser
      /\ UNCHANGED <<form, formUser, stash, created, live, authUser, rows, used, faults>>
  BY DEF AuthStateChanged, firebaseVars, serverVars
<1>2. /\ SignupTypeOK /\ CallsSound /\ FormSound /\ CallsFit /\ DoneIsMember
      /\ calls \in Seq(Call) /\ Len(calls) \in Nat /\ Calls = 1 .. Len(calls) /\ MaxCalls \in Nat
      /\ \A j \in Calls : calls[j] \in Call /\ CallSound(calls[j])
      /\ created \in Nat /\ authUser \in 0 .. created /\ live \in 0 .. created
  BY Facts
<1>3. provider.generation \in Nat /\ g \in Nat
  BY <1>2 DEF SignupTypeOK
<1>4. \A j \in Calls : calls[j].generation < g
  <2> TAKE j \in Calls
  <2>1. calls[j].generation \in Nat /\ calls[j].generation <= provider.generation
    BY <1>2 DEF CallSound, Call
  <2> QED BY <1>3, <2>1
<1>5. StillToAsk' = StillToAsk /\ Announced' = 0 /\ StillToAsk \in {0, 1, 2, 3}
  BY <1>1 DEF StillToAsk, Announced
<1>6. DoneIsMember' /\ FormSound'
  BY <1>1, <1>2 DEF DoneIsMember, FormSound
<1>7. {live', authUser', notified'} \subseteq 0 .. created
  BY <1>1, <1>2
<1>8. ASSUME NEW j \in Calls, calls'[j] = calls[j], provider'.generation = g
      PROVE  CallSound(calls[j])'
  <2>1. calls[j] \in Call /\ CallSound(calls[j]) /\ calls[j].generation < g
    BY <1>2, <1>4
  <2>2. calls[j].generation <= g /\ calls[j].generation # g
    <3>1. calls[j].generation \in Nat
      BY <2>1 DEF Call
    <3> QED BY <1>3, <2>1, <3>1
  <2> QED BY <1>1, <1>8, <2>1, <2>2 DEF CallSound
<1>9. CASE authUser = Nobody
  <2>1. /\ provider' = [generation |-> g, user |-> Nobody, cloudReady |-> FALSE, loading |-> FALSE]
        /\ UNCHANGED calls
    BY <1>9 DEF AuthStateChanged
  <2>2. SignupTypeOK'
    <3>1. provider' \in [generation : Nat, user : 0 .. created, cloudReady : BOOLEAN, loading : BOOLEAN]
      BY <1>2, <1>3, <2>1 DEF Nobody
    <3> QED BY <1>1, <1>2, <1>7, <2>1, <3>1 DEF SignupTypeOK
  <2>3. SettledIsCurrent'
    BY <1>1, <1>9, <2>1 DEF SettledIsCurrent
  <2>4. CallsSound'
    BY <1>2, <1>8, <2>1 DEF CallsSound, Calls
  <2>5. CallsFit'
    <3>1. Announced = 0
      BY <1>9 DEF Announced
    <3> QED BY <1>2, <1>5, <2>1, <3>1 DEF CallsFit
  <2> QED BY <1>6, <2>2, <2>3, <2>4, <2>5 DEF SignupInv, SignupSafe
<1>10. CASE authUser # Nobody
  <2>1. PICK p : p = [provider EXCEPT !.generation = @ + 1, !.loading = TRUE, !.cloudReady = FALSE]
    OBVIOUS
  <2>2. provider' = p /\ Asks("provider", authUser, g) /\ authUser # notified
    BY <1>10, <2>1 DEF AuthStateChanged
  <2>3. /\ p.generation = g /\ p.loading
        /\ p \in [generation : Nat, user : 0 .. created, cloudReady : BOOLEAN, loading : BOOLEAN]
    BY <1>2, <1>3, <2>1 DEF SignupTypeOK
  <2>4. authUser \in 1 .. created
    BY <1>2, <1>10 DEF Nobody
  <2>5. PICK c : c = [by |-> "provider", uid |-> authUser, generation |-> g, code |-> "none",
                      at |-> "token", ok |-> FALSE]
    OBVIOUS
  <2>6. /\ calls' \in Seq(Call) /\ Len(calls') = Len(calls) + 1
        /\ Calls' = Calls \cup {Len(calls) + 1} /\ calls'[Len(calls) + 1] = c
        /\ \A i \in Calls : calls'[i] = calls[i] /\ i # Len(calls) + 1
    <3> HIDE DEF g
    <3> QED BY <1>3, <2>2, <2>4, <2>5, AskedIs
  <2>7. CallsFit'
    <3>1. Announced = 1
      BY <1>10, <2>2 DEF Announced
    <3> QED BY <1>2, <1>5, <2>6, <3>1 DEF CallsFit
  <2>8. SignupTypeOK'
    <3>1. Len(calls') <= MaxCalls
      BY <1>2, <1>5, <2>6, <2>7 DEF CallsFit
    <3> QED BY <1>1, <1>2, <1>7, <2>2, <2>3, <2>6, <3>1 DEF SignupTypeOK
  <2>9. SettledIsCurrent'
    BY <2>2, <2>3 DEF SettledIsCurrent
  <2>10. CallsSound'
    <3>1. ASSUME NEW j \in Calls' PROVE CallSound(calls[j])'
      <4>1. CASE j \in Calls
        BY <1>8, <2>2, <2>3, <2>6, <4>1
      <4>2. CASE j = Len(calls) + 1
        <5>1. calls'[j] = c
          BY <2>6, <4>2
        <5> QED BY <1>1, <1>3, <2>2, <2>3, <2>4, <2>5, <5>1 DEF CallSound
      <4> QED BY <2>6, <4>1, <4>2
    <3>2. \A j \in Calls' : calls'[j].by = "form" => j \in Calls /\ calls'[j] = calls[j]
      BY <2>5, <2>6
    <3> QED BY <1>2, <3>1, <3>2 DEF CallsSound
  <2> QED BY <1>6, <2>7, <2>8, <2>9, <2>10 DEF SignupInv, SignupSafe
<1> QED BY <1>9, <1>10

LEMMA ResumeKeeps ==
  ASSUME SignupInv, NEW i \in Calls, ProviderResumes(i)
  PROVE  SignupInv'
<1>1. /\ calls[i].by = "provider" /\ calls[i].at = "replied" /\ Done(i)
      /\ UNCHANGED <<form, formUser, stash, created, live, authUser, notified, rows, used, faults>>
  BY DEF ProviderResumes, firebaseVars, serverVars
<1>2. /\ SignupTypeOK /\ SettledIsCurrent /\ CallsSound /\ FormSound /\ CallsFit /\ DoneIsMember
      /\ Len(calls) \in Nat /\ MaxCalls \in Nat /\ created \in Nat
      /\ \A j \in Calls : calls[j] \in Call /\ CallSound(calls[j])
  BY Facts
<1>3. /\ calls' \in Seq(Call) /\ Len(calls') = Len(calls) /\ Calls' = Calls
      /\ \A j \in Calls : j # i => calls'[j] = calls[j]
      /\ calls'[i] \in Call /\ calls'[i].at = "done" /\ ~calls'[i].ok
      /\ calls'[i].uid = calls[i].uid /\ calls'[i].generation = calls[i].generation
  BY <1>1, FinishedIs
<1>4. /\ provider' \in [generation : Nat, user : 0 .. created, cloudReady : BOOLEAN, loading : BOOLEAN]
      /\ provider'.generation = provider.generation /\ SettledIsCurrent'
  <2>1. CASE ~Current(calls[i])
    <3>1. provider' = provider
      BY <2>1 DEF ProviderResumes
    <3> QED BY <1>1, <1>2, <3>1 DEF SignupTypeOK, SettledIsCurrent
  <2>2. CASE Current(calls[i])
    <3>1. PICK p : p = [provider EXCEPT !.user = calls[i].uid, !.cloudReady = calls[i].ok,
                                        !.loading = FALSE]
      OBVIOUS
    <3>2. provider' = p
      BY <2>2, <3>1 DEF ProviderResumes
    <3>3. calls[i] \in Call /\ calls[i].uid \in 0 .. created
      BY <1>2 DEF CallSound
    <3>4. /\ p \in [generation : Nat, user : 0 .. created, cloudReady : BOOLEAN, loading : BOOLEAN]
          /\ p.generation = provider.generation /\ p.user = calls[i].uid /\ p.cloudReady = calls[i].ok
      BY <1>2, <3>1, <3>3 DEF SignupTypeOK, Call
    <3>5. calls[i].uid = notified /\ (calls[i].ok => calls[i].uid \in rows)
      BY <1>1, <1>2, <2>2 DEF CallSound, Current
    <3> QED BY <1>1, <3>2, <3>4, <3>5 DEF SettledIsCurrent
  <2> QED BY <2>1, <2>2
<1>5. SignupTypeOK'
  BY <1>1, <1>2, <1>3, <1>4 DEF SignupTypeOK
<1>6. DoneIsMember' /\ FormSound'
  BY <1>1, <1>2 DEF DoneIsMember, FormSound
<1>7. CallsFit'
  BY <1>1, <1>2, <1>3 DEF CallsFit, Announced, StillToAsk
<1>8. CallsSound'
  <2>1. ASSUME NEW j \in Calls PROVE CallSound(calls[j])'
    <3>1. CASE j = i
      BY <1>1, <1>2, <1>3, <1>4, <3>1 DEF CallSound
    <3>2. CASE j # i
      <4>1. calls'[j] = calls[j] /\ CallSound(calls[j])
        BY <1>2, <1>3, <3>2
      <4> QED BY <1>1, <1>4, <4>1 DEF CallSound
    <3> QED BY <3>1, <3>2
  <2>2. \A j \in Calls : calls'[j].at # "done" => calls'[j] = calls[j]
    BY <1>3
  <2> QED BY <1>2, <1>3, <2>1, <2>2 DEF CallsSound
<1> QED BY <1>4, <1>5, <1>6, <1>7, <1>8 DEF SignupInv, SignupSafe

(* Steps that only change who is signed in, or the quota.                    *)
LEMMA SignedInKeeps ==
  ASSUME SignupInv, UNCHANGED <<form, formUser, stash, created, live, notified, provider, calls, rows, faults>>,
         used' \in 0 .. InviteLimit, authUser' \in {Nobody, live},
         authUser' \in {authUser, Nobody} \/ (form \in {"failed", "done"} /\ Len(calls) < MaxCalls)
  PROVE  SignupInv'
<1>1. /\ SignupTypeOK /\ SettledIsCurrent /\ CallsSound /\ FormSound /\ CallsFit /\ DoneIsMember
      /\ Len(calls) \in Nat /\ MaxCalls \in Nat /\ created \in Nat /\ live \in 0 .. created
      /\ \A j \in Calls : CallSound(calls[j])
  BY Facts
<1>2. SignupTypeOK'
  <2>1. {live', authUser', notified'} \subseteq 0 .. created
    BY <1>1 DEF SignupTypeOK, Nobody
  <2> QED BY <1>1, <2>1 DEF SignupTypeOK
<1>3. SettledIsCurrent' /\ DoneIsMember' /\ FormSound'
  BY <1>1 DEF SettledIsCurrent, DoneIsMember, FormSound
<1>4. CallsSound'
  BY <1>1 DEF CallsSound, CallSound, Calls
<1>5. CallsFit'
  <2>1. StillToAsk' = StillToAsk /\ StillToAsk \in {0, 1, 2, 3}
    BY DEF StillToAsk
  <2>2. Announced \in {0, 1} /\ Announced' \in {0, 1}
    BY DEF Announced
  <2>3. CASE authUser' \in {authUser, Nobody}
    <3>1. Announced' <= Announced
      BY <2>2, <2>3 DEF Announced
    <3> QED BY <1>1, <2>1, <2>2, <3>1 DEF CallsFit
  <2>4. CASE form \in {"failed", "done"} /\ Len(calls) < MaxCalls
    <3>1. StillToAsk = 0
      BY <2>4 DEF StillToAsk
    <3> QED BY <1>1, <2>1, <2>2, <2>4, <3>1 DEF CallsFit
  <2> QED BY <2>3, <2>4
<1> QED BY <1>2, <1>3, <1>4, <1>5 DEF SignupInv, SignupSafe

LEMMA SignupInvStarts == SignupInit => SignupInv
<1> SUFFICES ASSUME SignupInit PROVE SignupInv
  OBVIOUS
<1> USE DEF SignupInit
<1>1. {InviteLimit, MaxSignups, MaxCalls, MaxFaults} \subseteq Nat
  BY SignupAssumption
<1>2. PICK p : p = FreshProvider(0)
  OBVIOUS
<1>3. PICK q : q = [p EXCEPT !.loading = FALSE]
  OBVIOUS
<1>4. q \in [generation : Nat, user : {0}, cloudReady : BOOLEAN, loading : BOOLEAN] /\ q.user = 0 /\ ~q.cloudReady
  BY <1>2, <1>3 DEF FreshProvider, Nobody
<1>5. provider = q
  BY <1>2, <1>3
<1>6. Cardinality(rows) = 0
  BY FS_EmptySet
<1>7. calls \in Seq(Call) /\ Len(calls) = 0 /\ Calls = {}
  BY DEF Calls
<1>8. SignupTypeOK
  <2>1. provider \in [generation : Nat, user : 0 .. created, cloudReady : BOOLEAN, loading : BOOLEAN]
    <3>1. 0 .. created = {0}
      OBVIOUS
    <3> QED BY <1>4, <1>5, <3>1
  <2>2. 0 \in 0 .. MaxSignups /\ 0 \in 0 .. MaxFaults /\ Len(calls) <= MaxCalls
    BY <1>1, <1>7
  <2>3. Cardinality(rows) <= 1
    BY <1>6
  <2> QED BY <1>7, <2>1, <2>2, <2>3 DEF SignupTypeOK, Nobody
<1>9. SettledIsCurrent /\ DoneIsMember
  BY <1>4, <1>5 DEF SettledIsCurrent, DoneIsMember, Nobody
<1>10. CallsSound /\ FormSound
  BY <1>7 DEF CallsSound, FormSound
<1>11. CallsFit
  <2>1. Announced = 0 /\ StillToAsk = 0
    BY DEF Announced, StillToAsk
  <2> QED BY <1>1, <1>7, <2>1 DEF CallsFit
<1> QED BY <1>8, <1>9, <1>10, <1>11 DEF SignupInv, SignupSafe

LEMMA SignupStepKeeps == SignupInv /\ [SignupNext]_signupVars => SignupInv'
<1> SUFFICES ASSUME SignupInv, [SignupNext]_signupVars PROVE SignupInv'
  OBVIOUS
<1>1. SignupTypeOK /\ FormSound /\ {InviteLimit, MaxSignups, MaxCalls, MaxFaults} \subseteq Nat
  BY Facts
<1>2. used \in 0 .. InviteLimit /\ authUser \in {Nobody, live}
  BY <1>1 DEF SignupTypeOK, FormSound
<1>3. CASE \E code \in {"right", "wrong"} : Submit(code)
  BY <1>3, SubmitKeeps
<1>4. CASE FormSteps
  BY <1>4, CreateKeeps, RefusedKeeps, ProfileKeeps, DeleteKeeps, SyncFailedKeeps, SyncSucceededKeeps
     DEF FormSteps
<1>5. CASE AuthStateChanged
  BY <1>5, AuthKeeps
<1>6. CASE \E i \in Calls : Proceeds(i) \/ Lost(i)
  BY <1>6, RouteStepKeeps, ResumeKeeps DEF Proceeds
<1>7. CASE WindowOver
  BY <1>1, <1>2, <1>7, SignedInKeeps DEF WindowOver, firebaseVars
<1>8. CASE SignOut
  BY <1>1, <1>2, <1>8, SignedInKeeps DEF SignOut, serverVars
<1>9. CASE SignIn
  BY <1>1, <1>2, <1>9, SignedInKeeps DEF SignIn, serverVars
<1>10. CASE UNCHANGED signupVars
  BY <1>1, <1>2, <1>10, SignedInKeeps DEF signupVars, firebaseVars, serverVars
<1> QED BY <1>3, <1>4, <1>5, <1>6, <1>7, <1>8, <1>9, <1>10 DEF SignupNext

(* Once the provider is not loading it shows the user Firebase last reported,*)
(* ready for the cloud only if that user has a row, and a sign-up that ends  *)
(* well leaves a credential and its row, whatever calls are answered late or *)
(* lost (auth-context.tsx, signup/page.tsx handleSubmit, data-routes.ts      *)
(* sync-user); the calls of the route stay within their bound.               *)
THEOREM SignupIsSafe == SignupSpec => []SignupSafe
<1>1. SignupInv => SignupSafe
  BY DEF SignupInv
<1> QED BY <1>1, SignupInvStarts, SignupStepKeeps, PTL DEF SignupSpec


-----------------------------------------------------------------------------
(* The pipeline's types *)

(* A run starts at the server only when cloud computing is enabled. *)
LEMMA NewRunType ==
  ASSUME TypeOK, NEW gen \in Nat PROVE NewRun(gen) \in Run
BY DEF TypeOK, NewRun, Run, cloudComputeEnabled

LEMMA InvalidateType ==
  ASSUME TypeOK, invalidateResults
  PROVE  /\ controller' \in Nat /\ timers' \in Nat
         /\ mainGen' \in Nat /\ sweepGen' \in Nat
         /\ mainRuns' \subseteq Run /\ sweepRuns' \subseteq Run
         /\ result' \in Outcome \cup {NoOutcome} /\ resultPlan' \in Plan \cup {None}
         /\ error' \in BOOLEAN /\ curves' \in Outcome \cup {NoOutcome}
         /\ isSimulatingMain' \in BOOLEAN /\ isSimulatingSensitivities' \in BOOLEAN
         /\ simulationPending' \in BOOLEAN /\ sensitivityPending' \in BOOLEAN
<1>1. /\ controller' \in Nat /\ timers' \in Nat
      /\ mainGen' \in Nat /\ sweepGen' \in Nat
  BY DEF TypeOK, invalidateResults, scheduleSimulations
<1>2. /\ mainRuns' \subseteq Run /\ sweepRuns' \subseteq Run
      /\ result' \in Outcome \cup {NoOutcome} /\ resultPlan' \in Plan \cup {None}
      /\ curves' \in Outcome \cup {NoOutcome}
  BY DEF TypeOK, invalidateResults
<1>3. /\ error' \in BOOLEAN
      /\ isSimulatingMain' \in BOOLEAN /\ isSimulatingSensitivities' \in BOOLEAN
      /\ simulationPending' \in BOOLEAN /\ sensitivityPending' \in BOOLEAN
  BY DEF invalidateResults, ResetSweep
<1> QED BY <1>1, <1>2, <1>3

LEMMA RunStepType ==
  ASSUME NEW r \in Run, NEW at \in NextOf(r)
  PROVE  [r EXCEPT !.at = at] \in Run
BY DEF NextOf, Run

LEMMA OutcomeType ==
  ASSUME NEW r \in Run
  PROVE  [plan |-> r.plan, cloud |-> r.cloud] \in Outcome
BY DEF Run, Outcome

LEMMA NextPlanType ==
  ASSUME TypeOK, NEW valid \in BOOLEAN, NextPlan(valid) PROVE plan' \in Plan
BY DEF TypeOK, NextPlan, Plan

LEMMA TypeStep == TypeOK /\ [Next]_vars => TypeOK'
<1> SUFFICES ASSUME TypeOK, [Next]_vars PROVE TypeOK'
  OBVIOUS
<1>1. CASE updatePlan
  BY <1>1, InvalidateType, NextPlanType DEF updatePlan, TypeOK
<1>2. ASSUME NEW valid \in BOOLEAN, AccountsReplaced(valid) PROVE TypeOK'
  BY <1>2, InvalidateType, NextPlanType DEF AccountsReplaced, TypeOK
<1>3. CASE setUseServerSideCalculations
  BY <1>3, InvalidateType DEF setUseServerSideCalculations, TypeOK
<1>4. ASSUME NEW ready \in BOOLEAN, BootstrapStarts(ready) PROVE TypeOK'
  <2>1. account' = ready /\ bootstrapping' = TRUE /\ planPage' = FALSE
    BY <1>4 DEF BootstrapStarts
  <2>2. bootstraps' \in Nat
    BY <1>4 DEF BootstrapStarts, TypeOK
  <2>3. UNCHANGED <<plan, useServer, timers, controller, mainVars, sweepVars>>
    BY <1>4 DEF BootstrapStarts
  <2> QED BY <2>1, <2>2, <2>3 DEF TypeOK, mainVars, sweepVars
<1>5. CASE BootstrapEnds
  BY <1>5, InvalidateType, NextPlanType DEF BootstrapEnds, TypeOK
<1>6. CASE Navigate
  BY <1>6 DEF Navigate, TypeOK, mainVars, sweepVars
<1>7. CASE TimerFires
  <2>1. mainGen + 1 \in Nat /\ timers' \in Nat
    BY <1>7 DEF TimerFires, TypeOK
  <2>2. mainGen' \in Nat /\ mainRuns' \subseteq Run
    BY <1>7, <2>1, NewRunType DEF TimerFires, runMainSimulation, TypeOK
  <2>3. /\ error' \in BOOLEAN /\ isSimulatingMain' \in BOOLEAN
        /\ simulationPending' \in BOOLEAN
    BY <1>7 DEF TimerFires, runMainSimulation, TypeOK
  <2>4. UNCHANGED <<storeVars, controller, sweepVars, result, resultPlan>>
    BY <1>7 DEF TimerFires, runMainSimulation
  <2> QED BY <2>1, <2>2, <2>3, <2>4 DEF TypeOK, storeVars, sweepVars
<1>8. CASE runSensitivityAnalyses
  BY <1>8, NewRunType DEF runSensitivityAnalyses, TypeOK, storeVars, mainVars
<1>9. ASSUME NEW r \in mainRuns, MainRunSteps(r) PROVE TypeOK'
  <2>1. r \in Run
    BY DEF TypeOK
  <2>2. mainRuns' \subseteq Run
    BY <1>9, <2>1, RunStepType DEF MainRunSteps, Replace, TypeOK
  <2> QED BY <1>9, <2>2 DEF MainRunSteps, TypeOK, storeVars, sweepVars
<1>10. ASSUME NEW r \in mainRuns, MainReply(r) PROVE TypeOK'
  <2>1. r \in Run /\ r.plan \in Plan
    BY DEF TypeOK, Run
  <2> QED BY <1>10, <2>1, OutcomeType DEF MainReply, MainFailed, TypeOK, storeVars, sweepVars
<1>11. ASSUME NEW r \in sweepRuns, SweepRunSteps(r) PROVE TypeOK'
  <2>1. r \in Run
    BY DEF TypeOK
  <2>2. sweepRuns' \subseteq Run
    BY <1>11, <2>1, RunStepType DEF SweepRunSteps, Replace, TypeOK
  <2> QED BY <1>11, <2>2 DEF SweepRunSteps, TypeOK, storeVars, mainVars
<1>12. ASSUME NEW r \in sweepRuns, SweepReply(r) PROVE TypeOK'
  <2>1. r \in Run
    BY DEF TypeOK
  <2> QED BY <1>12, <2>1, OutcomeType DEF SweepReply, TypeOK, storeVars, mainVars
<1>13. CASE UNCHANGED vars
  BY <1>13 DEF vars, storeVars, mainVars, sweepVars, TypeOK
<1> QED BY <1>1, <1>2, <1>3, <1>4, <1>5, <1>6, <1>7, <1>8, <1>9, <1>10, <1>11,
           <1>12, <1>13 DEF Next

(* Every variable of the pipeline keeps its type, and a session without a    *)
(* registered account never waits for the server.                           *)
THEOREM PipelineTypeCorrect == Spec => []TypeOK
<1>1. Init => TypeOK
  <2> SUFFICES ASSUME Init PROVE TypeOK
    OBVIOUS
  <2>1. plan \in Plan
    BY DEF Init, Plan
  <2>2. result = NoOutcome /\ resultPlan = None /\ curves = NoOutcome
    BY DEF Init
  <2> QED BY <2>1, <2>2 DEF Init, TypeOK
<1> QED BY <1>1, TypeStep, PTL DEF Spec

-----------------------------------------------------------------------------
(* Fresh results *)

(* What makes a reply with the current generation the reply of the plan on   *)
(* screen: a run of the current generation was started for that plan and    *)
(* engine after the only armed timeout fired.                               *)
RunsCurrent(runs, gen) ==
  /\ \A r \in runs : r.gen <= gen
  /\ \A r \in runs : r.gen = gen =>
       /\ r.plan = plan
       /\ bootstrapping \/ r.cloud = cloudComputeEnabled

PipelineInv ==
  /\ RunsCurrent(mainRuns, mainGen) /\ RunsCurrent(sweepRuns, sweepGen)
  /\ timers \in {0, 1}
  /\ timers = 1 => simulationPending /\ \A r \in mainRuns : r.gen # mainGen
  /\ \A r \in mainRuns : r.gen = mainGen => simulationPending
  /\ \A r1, r2 \in mainRuns : r1.gen = r2.gen => r1 = r2
  /\ HeadlineFresh /\ CurvesFresh

LEMMA InvalidateKeeps ==
  ASSUME TypeOK, PipelineInv, invalidateResults PROVE PipelineInv'
<1>1. /\ \A r \in mainRuns : r.gen \in Nat /\ r.gen <= mainGen
      /\ \A r \in sweepRuns : r.gen \in Nat /\ r.gen <= sweepGen
      /\ mainGen \in Nat /\ sweepGen \in Nat
  BY DEF TypeOK, Run, PipelineInv, RunsCurrent
<1>2. /\ \A r \in mainRuns : r.gen <= mainGen + 1 /\ r.gen # mainGen + 1
      /\ \A r \in sweepRuns : r.gen <= sweepGen + 1 /\ r.gen # sweepGen + 1
  BY <1>1
<1>3. RunsCurrent(mainRuns, mainGen)' /\ RunsCurrent(sweepRuns, sweepGen)'
  BY <1>2 DEF invalidateResults, RunsCurrent
<1>4. HeadlineFresh' /\ CurvesFresh'
  BY DEF invalidateResults, ResetSweep, HeadlineFresh, CurvesFresh
<1> QED BY <1>2, <1>3, <1>4 DEF PipelineInv, invalidateResults, scheduleSimulations

(* Nothing but what the user looks at, or the session behind "Loading",       *)
(* changes.                                                                 *)
LEMMA StoreFrameKeeps ==
  ASSUME PipelineInv,
         UNCHANGED <<plan, useServer, timers, mainVars, sweepVars>>,
         UNCHANGED <<account, bootstrapping>> \/ bootstrapping'
  PROVE  PipelineInv'
BY DEF PipelineInv, RunsCurrent, HeadlineFresh, CurvesFresh, cloudComputeEnabled,
       mainVars, sweepVars

LEMMA TimerKeeps ==
  ASSUME TypeOK, PipelineInv, TimerFires PROVE PipelineInv'
<1>1. /\ timers = 1 /\ timers' = 0
      /\ UNCHANGED <<plan, useServer, account, bootstrapping, curves, sensitivityPending,
                     sweepRuns, sweepGen>>
  BY DEF TimerFires, PipelineInv, TypeOK, storeVars, sweepVars
<1>2. RunsCurrent(sweepRuns, sweepGen)' /\ CurvesFresh'
  BY <1>1 DEF PipelineInv, RunsCurrent, CurvesFresh, cloudComputeEnabled
<1>3. CASE plan.valid /\ runMainSimulation
  <2> DEFINE r0 == NewRun(mainGen + 1)
  <2>1. /\ r0.gen = mainGen + 1 /\ r0.plan = plan /\ r0.cloud = cloudComputeEnabled
    BY DEF NewRun
  <2>2. \A r \in mainRuns : r.gen \in Nat /\ r.gen <= mainGen
    BY DEF TypeOK, Run, PipelineInv, RunsCurrent
  <2>3. /\ mainRuns' = mainRuns \cup {r0} /\ mainGen' = mainGen + 1
        /\ simulationPending' /\ mainGen \in Nat
    BY <1>3 DEF runMainSimulation, TypeOK
  <2> HIDE DEF r0
  <2>4. RunsCurrent(mainRuns, mainGen)'
    BY <1>1, <2>1, <2>2, <2>3 DEF RunsCurrent, cloudComputeEnabled
  <2>5. \A r1, r2 \in mainRuns' : r1.gen = r2.gen => r1 = r2
    BY <2>1, <2>2, <2>3 DEF PipelineInv
  <2>6. HeadlineFresh'
    BY <2>3 DEF HeadlineFresh
  <2> QED BY <1>1, <1>2, <2>3, <2>4, <2>5, <2>6 DEF PipelineInv
<1>4. CASE ~plan.valid
  <2>1. error' /\ UNCHANGED <<mainGen, mainRuns>>
    BY <1>4 DEF TimerFires, runMainSimulation
  <2>2. HeadlineFresh'
    BY <2>1 DEF HeadlineFresh
  <2>3. RunsCurrent(mainRuns, mainGen)'
    BY <1>1, <2>1 DEF PipelineInv, RunsCurrent, cloudComputeEnabled
  <2> QED BY <1>1, <1>2, <2>1, <2>2, <2>3 DEF PipelineInv
<1> QED BY <1>3, <1>4 DEF TimerFires

LEMMA MainRunStepsKeeps ==
  ASSUME TypeOK, PipelineInv, NEW r \in mainRuns, MainRunSteps(r) PROVE PipelineInv'
<1>1. UNCHANGED <<plan, useServer, account, bootstrapping, timers, mainGen, result,
                  resultPlan, error, simulationPending, sweepVars>>
  BY DEF MainRunSteps, storeVars
<1>2. PICK at : mainRuns' = Replace(mainRuns, r, [r EXCEPT !.at = at])
  BY DEF MainRunSteps
<1> DEFINE n == [r EXCEPT !.at = at]
<1>3. r \in Run
  BY DEF TypeOK
<1>4. n.gen = r.gen /\ n.plan = r.plan /\ n.cloud = r.cloud
  BY <1>3 DEF Run
<1>5. mainRuns' = (mainRuns \ {r}) \cup {n}
  BY <1>2 DEF Replace
<1> HIDE DEF n
<1>6. RunsCurrent(mainRuns, mainGen)'
  BY <1>1, <1>4, <1>5 DEF PipelineInv, RunsCurrent, cloudComputeEnabled
<1>7. /\ timers' = 1 => \A x \in mainRuns' : x.gen # mainGen'
      /\ \A x \in mainRuns' : x.gen = mainGen' => simulationPending'
      /\ \A x, y \in mainRuns' : x.gen = y.gen => x = y
  BY <1>1, <1>4, <1>5 DEF PipelineInv
<1>8. HeadlineFresh' /\ CurvesFresh' /\ RunsCurrent(sweepRuns, sweepGen)'
  BY <1>1 DEF PipelineInv, HeadlineFresh, CurvesFresh, RunsCurrent, cloudComputeEnabled,
              sweepVars
<1> QED BY <1>1, <1>6, <1>7, <1>8 DEF PipelineInv

LEMMA MainReplyKeeps ==
  ASSUME TypeOK, PipelineInv, NEW r \in mainRuns, MainReply(r) PROVE PipelineInv'
<1>1. /\ UNCHANGED <<plan, useServer, account, bootstrapping, timers, mainGen, sweepVars>>
      /\ mainRuns' = mainRuns \ {r}
  BY DEF MainReply, storeVars
<1>2. RunsCurrent(mainRuns, mainGen)' /\ RunsCurrent(sweepRuns, sweepGen)' /\ CurvesFresh'
  BY <1>1 DEF PipelineInv, CurvesFresh, RunsCurrent, cloudComputeEnabled, sweepVars
<1>3. HeadlineFresh'
  <2>1. CASE IsCurrentMain(r) /\ r.at = "answered"
    <3>1. /\ result' = [plan |-> r.plan, cloud |-> r.cloud] /\ resultPlan' = r.plan
      BY <2>1 DEF MainReply
    <3>2. r.plan = plan /\ (bootstrapping \/ r.cloud = cloudComputeEnabled)
      BY <2>1 DEF IsCurrentMain, PipelineInv, RunsCurrent
    <3> QED BY <1>1, <3>1, <3>2 DEF HeadlineFresh, cloudComputeEnabled
  <2>2. CASE MainFailed
    BY <2>2 DEF MainFailed, HeadlineFresh
  <2>3. CASE UNCHANGED <<result, resultPlan, error, isSimulatingMain, simulationPending>>
    BY <1>1, <2>3 DEF PipelineInv, HeadlineFresh, cloudComputeEnabled
  <2> QED BY <2>1, <2>2, <2>3 DEF MainReply
<1>4. timers = 1 => simulationPending'
  <2>1. CASE IsCurrentMain(r)
    BY <2>1 DEF IsCurrentMain, PipelineInv
  <2>2. CASE ~IsCurrentMain(r)
    <3>1. UNCHANGED simulationPending
      BY <2>2 DEF MainReply
    <3> QED BY <3>1 DEF PipelineInv
  <2> QED BY <2>1, <2>2
<1>5. \A x \in mainRuns' : x.gen = mainGen => simulationPending'
  <2>1. CASE IsCurrentMain(r)
    BY <1>1, <2>1 DEF IsCurrentMain, PipelineInv
  <2>2. CASE ~IsCurrentMain(r)
    <3>1. UNCHANGED simulationPending
      BY <2>2 DEF MainReply
    <3> QED BY <1>1, <3>1 DEF PipelineInv
  <2> QED BY <2>1, <2>2
<1> QED BY <1>1, <1>2, <1>3, <1>4, <1>5 DEF PipelineInv

LEMMA StartSweepKeeps ==
  ASSUME TypeOK, PipelineInv, runSensitivityAnalyses PROVE PipelineInv'
<1> DEFINE r0 == NewRun(sweepGen + 1)
<1>1. /\ UNCHANGED <<plan, useServer, account, bootstrapping, timers, mainVars>>
      /\ sweepRuns' = sweepRuns \cup {r0} /\ sweepGen' = sweepGen + 1
      /\ sensitivityPending'
  BY DEF runSensitivityAnalyses, storeVars
<1>2. r0.gen = sweepGen + 1 /\ r0.plan = plan /\ r0.cloud = cloudComputeEnabled
  BY DEF NewRun
<1>3. sweepGen \in Nat /\ \A r \in sweepRuns : r.gen \in Nat /\ r.gen <= sweepGen
  BY DEF TypeOK, Run, PipelineInv, RunsCurrent
<1> HIDE DEF r0
<1>4. RunsCurrent(sweepRuns, sweepGen)'
  BY <1>1, <1>2, <1>3 DEF RunsCurrent, cloudComputeEnabled
<1>5. CurvesFresh'
  BY <1>1 DEF CurvesFresh
<1>6. HeadlineFresh' /\ RunsCurrent(mainRuns, mainGen)'
  BY <1>1 DEF PipelineInv, HeadlineFresh, RunsCurrent, cloudComputeEnabled, mainVars
<1> QED BY <1>1, <1>4, <1>5, <1>6 DEF PipelineInv, mainVars

LEMMA SweepRunStepsKeeps ==
  ASSUME TypeOK, PipelineInv, NEW r \in sweepRuns, SweepRunSteps(r) PROVE PipelineInv'
<1>1. UNCHANGED <<plan, useServer, account, bootstrapping, timers, mainVars, sweepGen,
                  curves, sensitivityPending>>
  BY DEF SweepRunSteps, storeVars
<1>2. PICK at : sweepRuns' = Replace(sweepRuns, r, [r EXCEPT !.at = at])
  BY DEF SweepRunSteps
<1> DEFINE n == [r EXCEPT !.at = at]
<1>3. r \in Run
  BY DEF TypeOK
<1>4. n.gen = r.gen /\ n.plan = r.plan /\ n.cloud = r.cloud
  BY <1>3 DEF Run
<1>5. sweepRuns' = (sweepRuns \ {r}) \cup {n}
  BY <1>2 DEF Replace
<1> HIDE DEF n
<1>6. RunsCurrent(sweepRuns, sweepGen)'
  BY <1>1, <1>4, <1>5 DEF PipelineInv, RunsCurrent, cloudComputeEnabled
<1>7. HeadlineFresh' /\ CurvesFresh' /\ RunsCurrent(mainRuns, mainGen)'
  BY <1>1 DEF PipelineInv, HeadlineFresh, CurvesFresh, RunsCurrent, cloudComputeEnabled,
              mainVars
<1> QED BY <1>1, <1>6, <1>7 DEF PipelineInv, mainVars

LEMMA SweepReplyKeeps ==
  ASSUME TypeOK, PipelineInv, NEW r \in sweepRuns, SweepReply(r) PROVE PipelineInv'
<1>1. /\ UNCHANGED <<plan, useServer, account, bootstrapping, timers, mainVars, sweepGen>>
      /\ sweepRuns' = sweepRuns \ {r}
  BY DEF SweepReply, storeVars
<1>2. /\ RunsCurrent(mainRuns, mainGen)' /\ RunsCurrent(sweepRuns, sweepGen)'
      /\ HeadlineFresh'
  BY <1>1 DEF PipelineInv, HeadlineFresh, RunsCurrent, cloudComputeEnabled, mainVars
<1>3. CurvesFresh'
  <2>1. CASE IsCurrentSweep(r)
    <3>1. r.plan = plan /\ (bootstrapping \/ r.cloud = cloudComputeEnabled)
      BY <2>1 DEF IsCurrentSweep, PipelineInv, RunsCurrent
    <3>2. \/ curves' = [plan |-> r.plan, cloud |-> r.cloud]
          \/ curves' = NoOutcome
          \/ UNCHANGED <<curves, sensitivityPending>>
      BY DEF SweepReply
    <3> QED BY <1>1, <3>1, <3>2 DEF PipelineInv, CurvesFresh, cloudComputeEnabled
  <2>2. CASE ~IsCurrentSweep(r)
    <3>1. UNCHANGED <<curves, sensitivityPending>>
      BY <2>2 DEF SweepReply
    <3> QED BY <1>1, <3>1 DEF PipelineInv, CurvesFresh, cloudComputeEnabled
  <2> QED BY <2>1, <2>2
<1> QED BY <1>1, <1>2, <1>3 DEF PipelineInv, mainVars

LEMMA PipelineStep == TypeOK /\ PipelineInv /\ [Next]_vars => PipelineInv'
<1> SUFFICES ASSUME TypeOK, PipelineInv, [Next]_vars PROVE PipelineInv'
  OBVIOUS
<1>1. CASE updatePlan \/ setUseServerSideCalculations \/ BootstrapEnds
           \/ \E valid \in BOOLEAN : AccountsReplaced(valid)
  <2>1. invalidateResults
    BY <1>1 DEF updatePlan, setUseServerSideCalculations, BootstrapEnds, AccountsReplaced
  <2> QED BY <2>1, InvalidateKeeps
<1>2. ASSUME NEW ready \in BOOLEAN, BootstrapStarts(ready) PROVE PipelineInv'
  BY <1>2, StoreFrameKeeps DEF BootstrapStarts
<1>3. CASE Navigate
  BY <1>3, StoreFrameKeeps DEF Navigate
<1>4. CASE TimerFires
  BY <1>4, TimerKeeps
<1>5. CASE runSensitivityAnalyses
  BY <1>5, StartSweepKeeps
<1>6. ASSUME NEW r \in mainRuns, MainRunSteps(r) \/ MainReply(r) PROVE PipelineInv'
  BY <1>6, MainRunStepsKeeps, MainReplyKeeps
<1>7. ASSUME NEW r \in sweepRuns, SweepRunSteps(r) \/ SweepReply(r) PROVE PipelineInv'
  BY <1>7, SweepRunStepsKeeps, SweepReplyKeeps
<1>8. CASE UNCHANGED vars
  BY <1>8, StoreFrameKeeps DEF vars, storeVars
<1> QED BY <1>1, <1>2, <1>3, <1>4, <1>5, <1>6, <1>7, <1>8 DEF Next

LEMMA PipelineSafe == Spec => []PipelineInv
<1>1. Init => PipelineInv
  BY DEF Init, PipelineInv, RunsCurrent, HeadlineFresh, CurvesFresh
<1> QED BY <1>1, PipelineStep, PipelineTypeCorrect, PTL DEF Spec

(* Whatever is edited, switched or re-bootstrapped while runs are under way,  *)
(* a headline not marked pending or failed is that of the plan and engine on *)
(* screen: the generation counters of usePlan.ts suffice.                   *)
THEOREM HeadlineIsFresh == Spec => []HeadlineFresh
<1>1. PipelineInv => HeadlineFresh
  BY DEF PipelineInv
<1> QED BY <1>1, PipelineSafe, PTL

(* The same for the sensitivity curves. *)
THEOREM CurvesAreFresh == Spec => []CurvesFresh
<1>1. PipelineInv => CurvesFresh
  BY DEF PipelineInv
<1> QED BY <1>1, PipelineSafe, PTL

-----------------------------------------------------------------------------
(* One live run *)

(* A signal is given to one headline, by the timeout that its invalidation    *)
(* armed, and to one batch, while the page is marked busy with it.           *)
LiveInv ==
  /\ OneLiveRun /\ timers \in {0, 1}
  /\ \A r \in mainRuns \cup sweepRuns : r.signal <= controller
  /\ timers = 1 => \A r \in mainRuns : r.signal # controller
  /\ \A r \in sweepRuns : r.gen <= sweepGen
  /\ \A r \in sweepRuns : r.gen = sweepGen => r.signal = controller
  /\ \A r \in sweepRuns : r.signal = controller => isSimulatingSensitivities

LEMMA InvalidateKeepsLive == ASSUME TypeOK, LiveInv, invalidateResults PROVE LiveInv'
<1>1. /\ \A r \in mainRuns \cup sweepRuns : r.signal \in Nat /\ r.signal <= controller
      /\ \A r \in sweepRuns : r.gen \in Nat /\ r.gen <= sweepGen
      /\ controller \in Nat /\ sweepGen \in Nat
  BY DEF TypeOK, Run, LiveInv
<1>2. /\ \A r \in mainRuns \cup sweepRuns : r.signal <= controller + 1 /\ r.signal # controller + 1
      /\ \A r \in sweepRuns : r.gen <= sweepGen + 1 /\ r.gen # sweepGen + 1
  BY <1>1
<1>3. /\ UNCHANGED <<mainRuns, sweepRuns>> /\ timers' = 1
      /\ controller' = controller + 1 /\ sweepGen' = sweepGen + 1
  BY DEF invalidateResults, scheduleSimulations
<1> QED BY <1>2, <1>3 DEF LiveInv, OneLiveRun

LEMMA TimerKeepsLive == ASSUME TypeOK, LiveInv, TimerFires PROVE LiveInv'
<1>1. /\ timers = 1 /\ timers' = 0
      /\ UNCHANGED <<controller, sweepRuns, sweepGen, isSimulatingSensitivities>>
  BY DEF TimerFires, LiveInv, sweepVars
<1>2. CASE runMainSimulation
  <2> DEFINE r0 == NewRun(mainGen + 1)
  <2>1. r0.signal = controller /\ controller \in Nat
    BY DEF NewRun, TypeOK
  <2>2. mainRuns' = mainRuns \cup {r0}
    BY <1>2 DEF runMainSimulation
  <2> HIDE DEF r0
  <2> QED BY <1>1, <2>1, <2>2 DEF LiveInv, OneLiveRun
<1>3. CASE UNCHANGED mainRuns
  BY <1>1, <1>3 DEF LiveInv, OneLiveRun
<1> QED BY <1>2, <1>3 DEF TimerFires

LEMMA StartSweepKeepsLive == ASSUME TypeOK, LiveInv, runSensitivityAnalyses PROVE LiveInv'
<1> DEFINE r0 == NewRun(sweepGen + 1)
<1>1. /\ UNCHANGED <<timers, controller, mainRuns>> /\ ~isSimulatingSensitivities
      /\ sweepRuns' = sweepRuns \cup {r0} /\ sweepGen' = sweepGen + 1
      /\ isSimulatingSensitivities' = TRUE
  BY DEF runSensitivityAnalyses, sensitivityAnalysisReady, mainVars
<1>2. r0.gen = sweepGen + 1 /\ r0.signal = controller /\ controller \in Nat /\ sweepGen \in Nat
  BY DEF NewRun, TypeOK
<1>3. \A r \in sweepRuns : r.gen \in Nat /\ r.gen <= sweepGen /\ r.signal # controller
  BY <1>1 DEF TypeOK, Run, LiveInv
<1> HIDE DEF r0
<1>4. \A r \in sweepRuns' : r.gen <= sweepGen' /\ (r.gen = sweepGen' => r.signal = controller)
  BY <1>1, <1>2, <1>3
<1> QED BY <1>1, <1>2, <1>3, <1>4 DEF LiveInv, OneLiveRun

LEMMA MainRunKeepsLive ==
  ASSUME TypeOK, LiveInv, NEW r \in mainRuns, MainRunSteps(r) \/ MainReply(r) PROVE LiveInv'
<1>1. UNCHANGED <<timers, controller, sweepVars>>
  BY DEF MainRunSteps, MainReply
<1>2. CASE MainRunSteps(r)
  <2>1. PICK at : mainRuns' = Replace(mainRuns, r, [r EXCEPT !.at = at])
    BY <1>2 DEF MainRunSteps
  <2> DEFINE n == [r EXCEPT !.at = at]
  <2>2. n.signal = r.signal /\ mainRuns' = (mainRuns \ {r}) \cup {n}
    BY <2>1 DEF TypeOK, Run, Replace
  <2> HIDE DEF n
  <2> QED BY <1>1, <2>2 DEF LiveInv, OneLiveRun, sweepVars
<1>3. CASE MainReply(r)
  <2>1. mainRuns' = mainRuns \ {r}
    BY <1>3 DEF MainReply
  <2> QED BY <1>1, <2>1 DEF LiveInv, OneLiveRun, sweepVars
<1> QED BY <1>2, <1>3

LEMMA SweepRunKeepsLive ==
  ASSUME TypeOK, LiveInv, NEW r \in sweepRuns, SweepRunSteps(r) \/ SweepReply(r) PROVE LiveInv'
<1>1. UNCHANGED <<timers, controller, mainRuns, sweepGen>>
  BY DEF SweepRunSteps, SweepReply, mainVars
<1>2. CASE SweepRunSteps(r)
  <2>1. PICK at : sweepRuns' = Replace(sweepRuns, r, [r EXCEPT !.at = at])
    BY <1>2 DEF SweepRunSteps
  <2> DEFINE n == [r EXCEPT !.at = at]
  <2>2. n.signal = r.signal /\ n.gen = r.gen /\ sweepRuns' = (sweepRuns \ {r}) \cup {n}
    BY <2>1 DEF TypeOK, Run, Replace
  <2>3. UNCHANGED isSimulatingSensitivities
    BY <1>2 DEF SweepRunSteps
  <2> HIDE DEF n
  <2> QED BY <1>1, <2>2, <2>3 DEF LiveInv, OneLiveRun
<1>3. CASE SweepReply(r)
  <2>1. sweepRuns' = sweepRuns \ {r}
    BY <1>3 DEF SweepReply
  <2>2. \A x \in sweepRuns' : x.signal = controller => isSimulatingSensitivities'
    <3>1. CASE IsCurrentSweep(r)
      BY <2>1, <3>1 DEF IsCurrentSweep, LiveInv, OneLiveRun
    <3>2. CASE ~IsCurrentSweep(r)
      BY <1>3, <2>1, <3>2 DEF SweepReply, LiveInv
    <3> QED BY <3>1, <3>2
  <2> QED BY <1>1, <2>1, <2>2 DEF LiveInv, OneLiveRun
<1> QED BY <1>2, <1>3

LEMMA LiveStep == TypeOK /\ LiveInv /\ [Next]_vars => LiveInv'
<1> SUFFICES ASSUME TypeOK, LiveInv, [Next]_vars PROVE LiveInv'
  OBVIOUS
<1>1. CASE updatePlan \/ setUseServerSideCalculations \/ BootstrapEnds
           \/ \E valid \in BOOLEAN : AccountsReplaced(valid)
  <2>1. invalidateResults
    BY <1>1 DEF updatePlan, setUseServerSideCalculations, BootstrapEnds, AccountsReplaced
  <2> QED BY <2>1, InvalidateKeepsLive
<1>2. CASE UNCHANGED <<timers, controller, mainVars, sweepVars>>
  BY <1>2 DEF LiveInv, OneLiveRun, mainVars, sweepVars
<1>3. CASE TimerFires
  BY <1>3, TimerKeepsLive
<1>4. CASE runSensitivityAnalyses
  BY <1>4, StartSweepKeepsLive
<1>5. ASSUME NEW r \in mainRuns, MainRunSteps(r) \/ MainReply(r) PROVE LiveInv'
  BY <1>5, MainRunKeepsLive
<1>6. ASSUME NEW r \in sweepRuns, SweepRunSteps(r) \/ SweepReply(r) PROVE LiveInv'
  BY <1>6, SweepRunKeepsLive
<1> QED BY <1>1, <1>2, <1>3, <1>4, <1>5, <1>6 DEF Next, BootstrapStarts, Navigate, vars

(* However fast the plan changes, the headline shown is right and at most one *)
(* headline and one batch are computed for it: what lets engine/mc.ts keep   *)
(* one Worker for the first and one pool for the second.                    *)
THEOREM HeadlineIsSafe == Spec => []HeadlineSafe
<1>1. Init => LiveInv
  BY DEF Init, LiveInv, OneLiveRun
<1>2. LiveInv => OneLiveRun
  BY DEF LiveInv
<1>3. Spec => []OneLiveRun
  BY <1>1, <1>2, LiveStep, PipelineTypeCorrect, PTL DEF Spec
<1> QED BY <1>3, HeadlineIsFresh, PTL DEF HeadlineSafe

-----------------------------------------------------------------------------
(* Refinement *)

LEMMA InvalidateImplements ==
  ASSUME TypeOK, invalidateResults, plan' \in Plan
  PROVE  H!Invalidate
<1>1. simulationPending' /\ UNCHANGED result
  BY DEF invalidateResults
<1> QED BY <1>1 DEF H!Invalidate, Shown, Status

LEMMA StepImplements == TypeOK /\ PipelineInv /\ [Next]_vars => [H!Next]_H!vars
<1> SUFFICES ASSUME TypeOK, PipelineInv, [Next]_vars PROVE [H!Next]_H!vars
  OBVIOUS
<1>1. CASE updatePlan \/ setUseServerSideCalculations \/ BootstrapEnds
           \/ \E valid \in BOOLEAN : AccountsReplaced(valid)
  <2>1. invalidateResults /\ plan' \in Plan
    BY <1>1, NextPlanType DEF updatePlan, setUseServerSideCalculations, BootstrapEnds,
                              AccountsReplaced, TypeOK
  <2> QED BY <2>1, InvalidateImplements DEF H!Next
<1>2. CASE UNCHANGED <<plan, mainVars>>
  BY <1>2 DEF mainVars, H!vars, Shown, Status
<1>3. CASE TimerFires
  <2>1. simulationPending /\ UNCHANGED <<plan, result>>
    BY <1>3 DEF TimerFires, runMainSimulation, PipelineInv, TypeOK, storeVars
  <2>2. simulationPending' \/ (~simulationPending' /\ error')
    BY <1>3 DEF TimerFires, runMainSimulation
  <2> QED BY <2>1, <2>2 DEF H!Next, H!Fail, H!vars, Shown, Status
<1>4. ASSUME NEW r \in mainRuns, MainRunSteps(r) PROVE [H!Next]_H!vars
  BY <1>4 DEF MainRunSteps, storeVars, H!vars, Shown, Status
<1>5. ASSUME NEW r \in mainRuns, MainReply(r) PROVE [H!Next]_H!vars
  <2>1. UNCHANGED plan
    BY <1>5 DEF MainReply, storeVars
  <2>2. CASE IsCurrentMain(r) /\ r.at = "answered"
    <3>1. r.plan = plan /\ simulationPending
      BY <2>2 DEF IsCurrentMain, PipelineInv, RunsCurrent
    <3>2. result'.plan = plan /\ ~error' /\ ~simulationPending'
      BY <1>5, <2>2, <3>1 DEF MainReply
    <3>3. result' # NoOutcome
      BY <3>2 DEF TypeOK, Plan, NoOutcome, None
    <3> QED BY <2>1, <3>1, <3>2, <3>3 DEF H!Next, H!Publish, Shown, Status
  <2>3. CASE IsCurrentMain(r) /\ MainFailed
    <3>1. simulationPending
      BY <2>3 DEF IsCurrentMain, PipelineInv
    <3>2. result' = NoOutcome /\ error' /\ ~simulationPending'
      BY <2>3 DEF MainFailed
    <3> QED BY <2>1, <3>1, <3>2 DEF H!Next, H!Fail, Shown, Status
  <2>4. CASE UNCHANGED <<result, resultPlan, error, isSimulatingMain, simulationPending>>
    BY <2>1, <2>4 DEF H!vars, Shown, Status
  <2> QED BY <1>5, <2>2, <2>3, <2>4 DEF MainReply
<1> QED BY <1>1, <1>2, <1>3, <1>4, <1>5
        DEF Next, BootstrapStarts, Navigate, runSensitivityAnalyses, SweepRunSteps,
            SweepReply, vars, storeVars

(* The pipeline implements Headline: every behaviour of the store, its timer, *)
(* its runs and their late replies is a behaviour of the simple promise.    *)
THEOREM PipelineImplementsHeadline == Spec => Promise
<1>1. Init => H!Init
  BY DEF Init, H!Init, Plan, Shown, Status
<1> QED BY <1>1, StepImplements, PipelineSafe, PipelineTypeCorrect, PTL
        DEF Spec, Promise, H!Spec
==============================================================================
