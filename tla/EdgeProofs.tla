----------------------------- MODULE EdgeProofs -----------------------------
(* The promises of the edge, for any requests, identities, budgets and times: *)
(* a removed row is trusted no longer than the TTL and one lookup, nobody who *)
(* keeps his row is called a stranger, and what the requests of an identity   *)
(* are granted is what its budgets hold and what the Rust service sees; a     *)
(* call leaves with a usable token of its own key; and the public reaches no  *)
(* simulation of the origin and is charged to no address but its own.         *)
EXTENDS EdgeSimulation, IdToken, EdgeProxy, TotalsProofs

(* A row that is there was there just now, and an entry of the cache runs out *)
(* a TTL and a lookup after its row was last there at the latest.            *)
Trust ==
  /\ users \subseteq Uids /\ lastUser \in [Uids -> {Never} \cup 0..Horizon]
  /\ cache \in [Uids -> 0..Horizon + MembershipTtl]
  /\ \A u \in Uids : lastUser[u] <= now /\ (u \in users => lastUser[u] = now)
  /\ \A u \in Uids : cache[u] = 0 \/ cache[u] <= lastUser[u] + MembershipTtl + MaxLookup

(* An answer not yet cached is of a row that was there no more than a lookup  *)
(* ago, and a request knows whether its row was missing since it began.      *)
Sound(r, handler) ==
  /\ handler \in Handler
  /\ handler.at = "ended" <=> handler.status # "none"
  /\ handler.at = "put" =>
       handler.asked <= lastUser[Who[r]] /\ now <= handler.asked + MaxLookup
  /\ handler.at \notin {"idle", "ended"} /\ Who[r] \notin users => handler.absent
  /\ handler.status = "stranger" => handler.absent
  /\ ~handler.stale

EdgeInv ==
  /\ QuotaTypeOK /\ Trust
  /\ DOMAIN req = Requests /\ req = [r \in Requests |-> req[r]]
  /\ \A r \in Requests : Sound(r, req[r])

LEMMA AskedInt == ASSUME NEW handler \in Handler PROVE handler.asked \in Int
<1>1. handler.asked \in -1..Horizon
  BY DEF Handler
<1>2. \A t \in -1..Horizon : t \in Int
  OBVIOUS
<1> QED BY <1>1, <1>2

LEMMA InvIsTimely == EdgeInv => MembershipTimely
<1> SUFFICES ASSUME EdgeInv PROVE MembershipTimely
  OBVIOUS
<1>1. \A r \in Requests : Sound(r, req[r])
  BY DEF EdgeInv
<1>2. req \in [Requests -> Handler]
  BY <1>1 DEF EdgeInv, Sound
<1>3. TypeOK
  BY <1>1, <1>2 DEF TypeOK, EdgeInv, Trust, Sound
<1>4. RevocationBounded /\ NoMemberLockedOut
  BY <1>1 DEF RevocationBounded, NoMemberLockedOut, Sound
<1> QED BY <1>3, <1>4 DEF MembershipTimely

-----------------------------------------------------------------------------
(* The steps of the budget's object keep its types. *)

LEMMA WindowTyped ==
  ASSUME QuotaTypeOK, NEW k \in Keys
  PROVE  Window(k) \in Row
BY BudgetAssumption DEF QuotaTypeOK, Window, Row, Times

LEMMA DecisionTyped ==
  ASSUME QuotaTypeOK, NEW k \in Keys, NEW cost \in Nat, NEW success \in BOOLEAN,
         Decide(Window(k), k, cost, success)
  PROVE  decision' \in Decision
<1>1. Window(k).used \in Nat /\ Window(k).reset \in Nat /\ Limit[k] \in Nat
  BY WindowTyped, BudgetAssumption DEF Row
<1>2. Limit[k] - Window(k).used - (IF success THEN cost ELSE 0) \in Int
  BY <1>1
<1> QED BY <1>1, <1>2 DEF Decide, Decision

LEMMA RefuseTyped ==
  ASSUME QuotaTypeOK, NEW k \in Keys, NEW cost \in Nat, Refuse(k, cost), UNCHANGED now
  PROVE  QuotaTypeOK'
BY DecisionTyped DEF Refuse, QuotaTypeOK

LEMMA GrantTyped ==
  ASSUME QuotaTypeOK, NEW k \in Keys, NEW cost \in Nat, Grant(k, cost), UNCHANGED now
  PROVE  QuotaTypeOK'
<1>1. Window(k) \in Row
  BY WindowTyped
<1>2. /\ stored' = [stored EXCEPT ![k] = [Window(k) EXCEPT !.used = @ + cost]]
      /\ alarmAt' = Window(k).reset
      /\ spent' = [spent EXCEPT ![k][now] = @ + cost]
      /\ Decide(Window(k), k, cost, TRUE)
  BY DEF Grant
<1>3. [Window(k) EXCEPT !.used = @ + cost] \in Row
  BY <1>1 DEF Row
<1>4. stored' \in [Keys -> Row]
  BY <1>2, <1>3 DEF QuotaTypeOK
<1>5. alarmAt' \in Nat
  BY <1>1, <1>2 DEF Row
<1>6. spent' \in [Keys -> [Times -> Nat]]
  BY <1>2 DEF QuotaTypeOK
<1>7. decision' \in Decision
  BY <1>2, DecisionTyped
<1> QED BY <1>4, <1>5, <1>6, <1>7 DEF QuotaTypeOK

LEMMA IdleTyped == ASSUME QuotaTypeOK, QuotaIdle, UNCHANGED now PROVE QuotaTypeOK'
BY DEF QuotaTypeOK, QuotaIdle

LEMMA AlarmTyped == ASSUME QuotaTypeOK, alarm PROVE QuotaTypeOK'
<1>1. stored' \in [Keys -> Row]
  BY DEF alarm, Sweep, QuotaTypeOK, None, Row
<1> QED BY <1>1 DEF alarm, QuotaTypeOK

LEMMA KeysOf ==
  ASSUME NEW r \in Requests
  PROVE  /\ RequestKey(Who[r]) \in Keys /\ PathKey(Who[r]) \in Keys
         /\ PathCost(r) \in Nat /\ Who[r] \in Uids
<1>1. Who[r] \in Uids /\ Paths[r] \in Nat
  BY EdgeAssumption
<1> QED BY <1>1, EdgeAssumption DEF PathCost

-----------------------------------------------------------------------------
(* A handler goes on without the clock and the rows moving. *)

LEMMA HandlerKeeps ==
  ASSUME EdgeInv, NEW r \in Requests, NEW handler, Goes(r, handler), Sound(r, handler),
         QuotaTypeOK', Trust', UNCHANGED <<now, users, lastUser>>
  PROVE  EdgeInv'
<1>1. DOMAIN req' = Requests /\ req' = [q \in Requests |-> req'[q]]
  BY DEF EdgeInv, Goes
<1>2. \A q \in Requests : req'[q] = IF q = r THEN handler ELSE req[q]
  BY DEF EdgeInv, Goes
<1>3. \A q \in Requests : Sound(q, req'[q])
  BY <1>2 DEF EdgeInv
<1>4. (\A q \in Requests : Sound(q, req[q]))'
  BY <1>3 DEF Sound
<1> QED BY <1>1, <1>4 DEF EdgeInv

(* Of a handler that is served it only matters where it is. *)
LEMMA SoundAt ==
  ASSUME EdgeInv, NEW r \in Requests, req[r].at \notin {"idle", "ended"},
         NEW place \in {"match", "lookup", "body", "path quota", "token", "rust"}
  PROVE  Sound(r, [req[r] EXCEPT !.at = place])
<1>1. Sound(r, req[r])
  BY DEF EdgeInv
<1> QED BY <1>1 DEF Sound, Handler

LEMMA SoundEnd ==
  ASSUME EdgeInv, NEW r \in Requests, NEW status \in {"done", "refused", "failed"}
  PROVE  Sound(r, Ended(r, status))
<1>1. Sound(r, req[r]) /\ req[r].status = "stranger" => req[r].absent
  BY DEF EdgeInv, Sound
<1> QED BY <1>1 DEF EdgeInv, Sound, Handler, Ended, Statuses

LEMMA TrustStays ==
  ASSUME EdgeInv, UNCHANGED <<now, memberVars>> PROVE Trust'
BY DEF EdgeInv, Trust, memberVars

LEMMA EndKeeps ==
  ASSUME EdgeInv, NEW r \in Requests, NEW status \in {"done", "refused", "failed"},
         Ends(r, status), QuotaTypeOK', UNCHANGED <<now, memberVars>>
  PROVE  EdgeInv'
BY SoundEnd, TrustStays, HandlerKeeps DEF Ends, memberVars

LEMMA ToKeeps ==
  ASSUME EdgeInv, NEW r \in Requests, req[r].at \notin {"idle", "ended"},
         NEW place \in {"match", "lookup", "body", "path quota", "token", "rust"},
         To(r, place), QuotaTypeOK', UNCHANGED <<now, memberVars>>
  PROVE  EdgeInv'
BY SoundAt, TrustStays, HandlerKeeps DEF To, memberVars

LEMMA BeginKeeps == ASSUME EdgeInv, NEW r \in Requests, Begin(r) PROVE EdgeInv'
<1>1. QuotaTypeOK' /\ UNCHANGED <<now, memberVars>> /\ req[r].at = "idle"
  BY IdleTyped DEF Begin, EdgeInv
<1>2. CASE Ends(r, "refused")
  BY <1>1, <1>2, EndKeeps
<1>3. CASE Goes(r, [req[r] EXCEPT !.at = "request quota", !.absent = Who[r] \notin users])
  <2> DEFINE handler == [req[r] EXCEPT !.at = "request quota", !.absent = Who[r] \notin users]
  <2>1. Sound(r, req[r])
    BY DEF EdgeInv
  <2>2. req[r] \in Handler /\ req[r].status = "none" /\ ~req[r].stale
    BY <1>1, <2>1 DEF Sound, Statuses
  <2>3. handler \in Handler /\ handler.at = "request quota" /\ handler.status = "none"
        /\ ~handler.stale /\ handler.absent = (Who[r] \notin users)
    BY <2>2 DEF Handler
  <2>4. Sound(r, handler)
    BY <2>3 DEF Sound
  <2> QED BY <1>1, <1>3, <2>4, TrustStays, HandlerKeeps DEF memberVars
<1> QED BY <1>2, <1>3 DEF Begin

LEMMA ChargeKeeps ==
  ASSUME EdgeInv, NEW r \in Requests, ChargeRequest(r) \/ ChargePaths(r) PROVE EdgeInv'
<1>1. UNCHANGED <<now, memberVars>> /\ req[r].at \notin {"idle", "ended"} /\ QuotaTypeOK
  BY DEF ChargeRequest, ChargePaths, EdgeInv
<1>2. CASE Ends(r, "refused")
           /\ (Refuse(RequestKey(Who[r]), 1) \/ Refuse(PathKey(Who[r]), PathCost(r)))
  <2>1. QuotaTypeOK'
    BY <1>1, <1>2, KeysOf, RefuseTyped
  <2> QED BY <1>1, <1>2, <2>1, EndKeeps
<1>3. CASE To(r, "match") /\ Grant(RequestKey(Who[r]), 1)
  <2>1. QuotaTypeOK'
    BY <1>1, <1>3, KeysOf, GrantTyped
  <2> QED BY <1>1, <1>3, <2>1, ToKeeps
<1>4. CASE /\ Goes(r, [req[r] EXCEPT !.at = "token", !.charged = now])
           /\ Grant(PathKey(Who[r]), PathCost(r))
  <2> DEFINE handler == [req[r] EXCEPT !.at = "token", !.charged = now]
  <2>1. QuotaTypeOK'
    BY <1>1, <1>4, KeysOf, GrantTyped
  <2>2. Sound(r, req[r]) /\ now \in -1..Horizon
    BY BudgetAssumption DEF EdgeInv, QuotaTypeOK, Times
  <2>3. Sound(r, handler)
    BY <1>1, <2>2 DEF Sound, Handler
  <2> QED BY <1>1, <1>4, <2>1, <2>3, TrustStays, HandlerKeeps DEF memberVars
<1> QED BY <1>2, <1>3, <1>4 DEF ChargeRequest, ChargePaths

LEMMA QuotaFailsKeeps ==
  ASSUME EdgeInv, NEW r \in Requests, QuotaFails(r) \/ PathReplyLost(r) PROVE EdgeInv'
<1>1. UNCHANGED <<now, memberVars>> /\ QuotaTypeOK
  BY DEF QuotaFails, PathReplyLost, EdgeInv
<1>2. QuotaTypeOK'
  BY <1>1, KeysOf, IdleTyped, GrantTyped DEF QuotaFails, PathReplyLost
<1>3. CASE Fails(r)
  BY <1>1, <1>2, <1>3, EndKeeps DEF Fails
<1>4. CASE Goes(r, [Ended(r, "failed") EXCEPT !.charged = now])
  <2>1. Sound(r, Ended(r, "failed")) /\ now \in -1..Horizon
    BY SoundEnd, BudgetAssumption DEF EdgeInv, QuotaTypeOK, Times
  <2>2. Ended(r, "failed").at = "ended"
    BY DEF EdgeInv, Sound, Handler, Ended
  <2>3. Sound(r, [Ended(r, "failed") EXCEPT !.charged = now])
    BY <2>1, <2>2 DEF Sound, Handler
  <2> QED BY <1>1, <1>2, <1>4, <2>3, TrustStays, HandlerKeeps DEF memberVars
<1> QED BY <1>3, <1>4 DEF QuotaFails, PathReplyLost

(* Whoever is taken for a member had his row a TTL and a lookup ago at most.  *)
LEMMA SoundMember ==
  ASSUME EdgeInv, NEW r \in Requests, Admitted(r), req[r].at \notin {"idle", "ended"},
         now - lastUser[Who[r]] < MembershipTtl + MaxLookup
  PROVE  \E handler : Goes(r, handler) /\ Sound(r, handler)
<1> DEFINE handler == [req[r] EXCEPT !.at = "body", !.asked = -1, !.member = TRUE,
                                     !.stale = FALSE]
<1>1. Sound(r, req[r])
  BY DEF EdgeInv
<1>2. now \in Int /\ lastUser[Who[r]] \in Int /\ MembershipTtl + MaxLookup \in Int
  BY KeysOf, BudgetAssumption, EdgeAssumption DEF EdgeInv, Trust, Never, QuotaTypeOK, Times
<1>3. (now - lastUser[Who[r]] >= MembershipTtl + MaxLookup) = FALSE
  BY <1>2
<1>4. Goes(r, handler)
  BY <1>3 DEF Admitted
<1>5. -1 \in -1..Horizon
  BY BudgetAssumption
<1>6. /\ handler \in Handler /\ handler.at = "body" /\ ~handler.stale
      /\ handler.status = req[r].status /\ handler.absent = req[r].absent
  BY <1>1, <1>5 DEF Sound, Handler
<1>7. Sound(r, handler)
  BY <1>1, <1>6 DEF Sound
<1> QED BY <1>4, <1>7

LEMMA MatchKeeps == ASSUME EdgeInv, NEW r \in Requests, Match(r) PROVE EdgeInv'
<1>1. UNCHANGED <<now, memberVars>> /\ QuotaTypeOK' /\ req[r].at = "match"
  BY IdleTyped DEF Match, EdgeInv
<1>2. CASE Cached(Who[r]) /\ Admitted(r)
  <2>1. /\ now \in Nat /\ cache[Who[r]] \in Nat /\ lastUser[Who[r]] \in Int
        /\ now < cache[Who[r]]
        /\ cache[Who[r]] = 0 \/ cache[Who[r]] <= lastUser[Who[r]] + MembershipTtl + MaxLookup
    BY <1>2, KeysOf, BudgetAssumption, EdgeAssumption
       DEF EdgeInv, Trust, Never, QuotaTypeOK, Times, Cached
  <2>2. now - lastUser[Who[r]] < MembershipTtl + MaxLookup
    BY <2>1, EdgeAssumption
  <2>3. PICK handler : Goes(r, handler) /\ Sound(r, handler)
    BY <1>1, <1>2, <2>2, SoundMember
  <2> QED BY <1>1, <2>3, TrustStays, HandlerKeeps DEF memberVars
<1>3. CASE Goes(r, [req[r] EXCEPT !.at = "lookup"])
  BY <1>1, <1>3, ToKeeps DEF To
<1> QED BY <1>2, <1>3 DEF Match

LEMMA LookUpKeeps == ASSUME EdgeInv, NEW r \in Requests, LookUp(r) PROVE EdgeInv'
<1>1. UNCHANGED <<now, memberVars>> /\ QuotaTypeOK' /\ req[r].at = "lookup"
  BY IdleTyped DEF LookUp, EdgeInv
<1>2. Sound(r, req[r])
  BY DEF EdgeInv
<1>3. CASE /\ Who[r] \in users
           /\ Goes(r, [[req[r] EXCEPT !.at = "put", !.asked = now] EXCEPT !.queried = TRUE])
  <2>1. now \in Nat /\ now \in -1..Horizon /\ lastUser[Who[r]] = now /\ MaxLookup \in Nat
    BY <1>3, BudgetAssumption, EdgeAssumption DEF EdgeInv, Trust, QuotaTypeOK, Times
  <2> DEFINE handler == [[req[r] EXCEPT !.at = "put", !.asked = now] EXCEPT !.queried = TRUE]
  <2>2. /\ handler \in Handler /\ handler.at = "put" /\ handler.asked = now
        /\ handler.status = req[r].status /\ handler.stale = req[r].stale
        /\ handler.absent = req[r].absent
    BY <1>2, <2>1 DEF Sound, Handler
  <2>3. now <= lastUser[Who[r]] /\ now <= now + MaxLookup
    BY <2>1
  <2>4. Sound(r, handler)
    BY <1>1, <1>2, <1>3, <2>2, <2>3 DEF Sound
  <2> QED BY <1>1, <1>3, <2>4, TrustStays, HandlerKeeps DEF memberVars
<1>4. CASE Who[r] \notin users /\ Goes(r, [Ended(r, "stranger") EXCEPT !.queried = TRUE])
  <2>1. Sound(r, [Ended(r, "stranger") EXCEPT !.queried = TRUE])
    BY <1>1, <1>2, <1>4 DEF Sound, Handler, Ended, Statuses
  <2> QED BY <1>1, <1>4, <2>1, TrustStays, HandlerKeeps DEF memberVars
<1>5. CASE Goes(r, [Ended(r, "failed") EXCEPT !.queried = TRUE])
  <2>1. Sound(r, [Ended(r, "failed") EXCEPT !.queried = TRUE])
    BY <1>1, <1>2 DEF Sound, Handler, Ended, Statuses
  <2> QED BY <1>1, <1>5, <2>1, TrustStays, HandlerKeeps DEF memberVars
<1> QED BY <1>3, <1>4, <1>5 DEF LookUp

LEMMA PutKeeps ==
  ASSUME MembershipTtl > 0, EdgeInv, NEW r \in Requests, Put(r) PROVE EdgeInv'
<1>1. UNCHANGED <<now, users, lastUser>> /\ QuotaTypeOK' /\ req[r].at = "put" /\ Admitted(r)
  BY IdleTyped DEF Put, EdgeInv
<1>2. /\ now \in 0..Horizon /\ lastUser[Who[r]] \in Int /\ req[r].asked \in Int
      /\ MembershipTtl \in Nat /\ MaxLookup \in Nat /\ Horizon \in Nat
      /\ req[r].asked <= lastUser[Who[r]] /\ now <= req[r].asked + MaxLookup
  <2>1. MembershipTtl \in Nat /\ MaxLookup \in Nat /\ Horizon \in Nat /\ Who[r] \in Uids
    BY KeysOf, BudgetAssumption, EdgeAssumption
  <2>2. now \in 0..Horizon /\ lastUser[Who[r]] \in Int
    BY <2>1 DEF EdgeInv, Trust, Never, QuotaTypeOK, Times
  <2>3. Sound(r, req[r])
    BY DEF EdgeInv
  <2>4. req[r].asked \in Int
    BY <2>3, AskedInt DEF Sound
  <2>5. req[r].asked <= lastUser[Who[r]] /\ now <= req[r].asked + MaxLookup
    BY <1>1, <2>3 DEF Sound
  <2> QED BY <2>1, <2>2, <2>4, <2>5
<1>3. now <= lastUser[Who[r]] + MaxLookup
  BY <1>2
<1>4. now - lastUser[Who[r]] < MembershipTtl + MaxLookup
  BY <1>2, <1>3
<1>5. PICK handler : Goes(r, handler) /\ Sound(r, handler)
  BY <1>1, <1>4, SoundMember
<1>6. now + MembershipTtl \in 0..Horizon + MembershipTtl
      /\ now + MembershipTtl <= lastUser[Who[r]] + MembershipTtl + MaxLookup
  BY <1>2, <1>3
<1>7. Trust'
  <2>1. CASE UNCHANGED cache
    BY <1>1, <2>1 DEF EdgeInv, Trust
  <2>2. CASE cache' = [cache EXCEPT ![Who[r]] = now + MembershipTtl]
    BY <1>1, <1>6, <2>2, KeysOf DEF EdgeInv, Trust
  <2> QED BY <2>1, <2>2 DEF Put
<1> QED BY <1>1, <1>5, <1>7, HandlerKeeps

LEMMA ServedKeeps ==
  ASSUME EdgeInv, NEW r \in Requests,
         Validate(r) \/ Fetch(r) \/ RustAnswers(r) \/ RustAborted(r)
  PROVE  EdgeInv'
<1>1. UNCHANGED <<now, memberVars>> /\ QuotaTypeOK' /\ req[r].at \notin {"idle", "ended"}
  BY IdleTyped DEF Validate, Fetch, RustAnswers, RustAborted, EdgeInv
<1>2. CASE Ends(r, "done") \/ Ends(r, "refused") \/ Fails(r)
  BY <1>1, <1>2, EndKeeps DEF Fails
<1>3. CASE To(r, "path quota")
  BY <1>1, <1>3, ToKeeps
<1>4. CASE Goes(r, [req[r] EXCEPT !.at = "rust", !.sent = TRUE])
  <2>1. Sound(r, req[r])
    BY DEF EdgeInv
  <2>2. Sound(r, [req[r] EXCEPT !.at = "rust", !.sent = TRUE])
    BY <1>1, <2>1 DEF Sound, Handler
  <2> QED BY <1>1, <1>4, <2>2, TrustStays, HandlerKeeps DEF memberVars
<1> QED BY <1>2, <1>3, <1>4 DEF Validate, Fetch, RustAnswers, RustAborted

-----------------------------------------------------------------------------
(* The surroundings. *)

LEMMA LeavesKeeps == ASSUME EdgeInv, NEW r \in Requests, CallerLeaves(r) PROVE EdgeInv'
<1>1. UNCHANGED <<now, memberVars>> /\ QuotaTypeOK' /\ Sound(r, req[r])
  BY IdleTyped DEF CallerLeaves, EdgeInv
<1>2. Goes(r, [req[r] EXCEPT !.aborted = TRUE])
  BY DEF CallerLeaves, Goes
<1>3. Sound(r, [req[r] EXCEPT !.aborted = TRUE])
  BY <1>1 DEF Sound, Handler
<1> QED BY <1>1, <1>2, <1>3, TrustStays, HandlerKeeps DEF memberVars

(* Of the moving clock and rows a handler needs only this. *)
LEMMA SoundStays ==
  ASSUME EdgeInv, NEW r \in Requests, req'[r] = req[r],
         lastUser[Who[r]] <= lastUser'[Who[r]], lastUser'[Who[r]] \in Int,
         req[r].at = "put" => now' <= req[r].asked + MaxLookup,
         users \subseteq users'
  PROVE  Sound(r, req[r])'
<1>1. Sound(r, req[r]) /\ lastUser[Who[r]] \in Int
  BY KeysOf, BudgetAssumption, EdgeAssumption DEF EdgeInv, Trust, Never
<1>2. req[r].asked \in Int
  BY <1>1, AskedInt DEF Sound
<1>3. req[r].at = "put" => req[r].asked <= lastUser'[Who[r]]
  BY <1>1, <1>2 DEF Sound
<1> QED BY <1>1, <1>3 DEF Sound

LEMMA RegisterKeeps == ASSUME EdgeInv, NEW u \in Uids, Register(u) PROVE EdgeInv'
<1>1. /\ UNCHANGED <<now, cache, req>> /\ QuotaTypeOK' /\ u \notin users
      /\ users' = users \cup {u} /\ lastUser' = [lastUser EXCEPT ![u] = now]
  BY IdleTyped DEF Register, EdgeInv
<1>2. now \in 0..Horizon /\ Horizon \in Nat /\ MembershipTtl \in Nat /\ MaxLookup \in Nat
  BY BudgetAssumption, EdgeAssumption DEF EdgeInv, QuotaTypeOK, Times
<1>3. \A v \in Uids : lastUser[v] \in Int /\ lastUser[v] <= lastUser'[v] /\ lastUser'[v] \in Int
  BY <1>1, <1>2 DEF EdgeInv, Trust, Never
<1>4. Trust'
  <2>1. /\ users' \subseteq Uids /\ lastUser' \in [Uids -> {Never} \cup 0..Horizon]
        /\ cache' \in [Uids -> 0..Horizon + MembershipTtl]
    BY <1>1, <1>2 DEF EdgeInv, Trust
  <2>2. \A v \in Uids : lastUser'[v] <= now' /\ (v \in users' => lastUser'[v] = now')
    BY <1>1, <1>2 DEF EdgeInv, Trust
  <2>3. ASSUME NEW v \in Uids, cache[v] # 0
        PROVE  cache[v] <= lastUser'[v] + MembershipTtl + MaxLookup
    <3>1. cache[v] <= lastUser[v] + MembershipTtl + MaxLookup /\ cache[v] \in Int
      BY <2>3, <1>2 DEF EdgeInv, Trust
    <3> QED BY <3>1, <1>2, <1>3
  <2> QED BY <1>1, <2>1, <2>2, <2>3 DEF Trust
<1>5. \A q \in Requests : req[q].at = "put" => now' <= req[q].asked + MaxLookup
  BY <1>1 DEF EdgeInv, Sound
<1>6. \A q \in Requests : Sound(q, req[q])'
  BY <1>1, <1>3, <1>5, KeysOf, SoundStays
<1> QED BY <1>1, <1>4, <1>6 DEF EdgeInv

LEMMA RemoveKeeps == ASSUME EdgeInv, NEW u \in Uids, Remove(u) PROVE EdgeInv'
<1>1. /\ UNCHANGED <<now, cache, lastUser>> /\ QuotaTypeOK' /\ users' = users \ {u}
      /\ req' = [r \in Requests |->
                   IF Who[r] = u THEN [req[r] EXCEPT !.absent = TRUE] ELSE req[r]]
  BY IdleTyped DEF Remove, EdgeInv
<1>2. Trust'
  BY <1>1 DEF EdgeInv, Trust
<1>3. ASSUME NEW q \in Requests PROVE Sound(q, req[q])'
  <2>1. Sound(q, req[q])
    BY DEF EdgeInv
  <2>2. CASE Who[q] = u
    <3>1. req'[q] = [req[q] EXCEPT !.absent = TRUE]
      BY <1>1, <2>2
    <3>2. /\ req'[q] \in Handler /\ req'[q].absent /\ req'[q].at = req[q].at
          /\ req'[q].asked = req[q].asked /\ req'[q].status = req[q].status
          /\ req'[q].stale = req[q].stale
      BY <2>1, <3>1 DEF Sound, Handler
    <3> QED BY <1>1, <2>1, <3>2 DEF Sound
  <2>3. CASE Who[q] # u
    BY <1>1, <2>1, <2>3 DEF Sound
  <2> QED BY <2>2, <2>3
<1> QED BY <1>1, <1>2, <1>3 DEF EdgeInv

LEMMA AlarmKeeps == ASSUME EdgeInv, Alarm PROVE EdgeInv'
<1>1. QuotaTypeOK' /\ UNCHANGED <<now, users, lastUser, cache, req>>
  BY AlarmTyped DEF Alarm, alarm, memberVars, EdgeInv
<1> QED BY <1>1 DEF EdgeInv, Trust, Sound

LEMMA TickKeeps == ASSUME EdgeInv, Tick PROVE EdgeInv'
<1>1. /\ UNCHANGED <<users, cache, req>> /\ QuotaIdle /\ now < Horizon /\ now' = now + 1
      /\ lastUser' = [u \in Uids |-> IF u \in users THEN now + 1 ELSE lastUser[u]]
      /\ \A r \in Requests : req[r].at = "put" => now < req[r].asked + MaxLookup
  BY DEF Tick
<1>2. now \in 0..Horizon /\ Horizon \in Nat /\ MembershipTtl \in Nat /\ MaxLookup \in Nat
  BY BudgetAssumption, EdgeAssumption DEF EdgeInv, QuotaTypeOK, Times
<1>3. QuotaTypeOK'
  BY <1>1, <1>2 DEF EdgeInv, QuotaTypeOK, QuotaIdle, Times
<1>4. \A v \in Uids : /\ lastUser[v] \in Int /\ lastUser'[v] \in Int
                      /\ lastUser[v] <= lastUser'[v] /\ lastUser'[v] <= now'
  BY <1>1, <1>2 DEF EdgeInv, Trust, Never
<1>5. Trust'
  <2>1. users' \subseteq Uids /\ cache' \in [Uids -> 0..Horizon + MembershipTtl]
    BY <1>1 DEF EdgeInv, Trust
  <2>2. lastUser' \in [Uids -> {Never} \cup 0..Horizon]
    BY <1>1, <1>2 DEF EdgeInv, Trust
  <2>3. \A v \in Uids : v \in users' => lastUser'[v] = now'
    BY <1>1
  <2>4. ASSUME NEW v \in Uids, cache[v] # 0
        PROVE  cache[v] <= lastUser'[v] + MembershipTtl + MaxLookup
    <3>1. cache[v] <= lastUser[v] + MembershipTtl + MaxLookup /\ cache[v] \in Int
      BY <2>4, <1>2 DEF EdgeInv, Trust
    <3> QED BY <3>1, <1>2, <1>4
  <2> QED BY <1>1, <1>4, <2>1, <2>2, <2>3, <2>4 DEF Trust
<1>6. ASSUME NEW q \in Requests, req[q].at = "put" PROVE now' <= req[q].asked + MaxLookup
  <2>1. now < req[q].asked + MaxLookup /\ Sound(q, req[q])
    BY <1>1, <1>6 DEF EdgeInv
  <2>2. req[q].asked \in Int
    BY <2>1, AskedInt DEF Sound
  <2> QED BY <1>1, <1>2, <2>1, <2>2
<1>7. \A q \in Requests : Sound(q, req[q])'
  BY <1>1, <1>4, <1>6, KeysOf, SoundStays
<1> QED BY <1>1, <1>3, <1>5, <1>7 DEF EdgeInv

-----------------------------------------------------------------------------

LEMMA InitSound == ASSUME Init PROVE EdgeInv
<1>1. Horizon \in Nat /\ MembershipTtl \in Nat /\ MaxLookup \in Nat
  BY BudgetAssumption, EdgeAssumption
<1>2. QuotaTypeOK
  BY <1>1 DEF Init, QuotaInit, QuotaTypeOK, Times, None, Row
<1>3. Trust
  BY <1>1 DEF Init, QuotaInit, Trust, Never
<1>4. -1 \in -1..Horizon
  BY <1>1
<1> DEFINE idle == [at |-> "idle", status |-> "none", aborted |-> FALSE, asked |-> -1,
                    queried |-> FALSE, charged |-> -1, sent |-> FALSE, member |-> FALSE,
                    stale |-> FALSE, absent |-> FALSE]
<1>5. \A r \in Requests : req[r] = idle
  BY DEF Init
<1>6. idle \in Handler
  BY <1>4, Zenon DEF Handler, Statuses
<1>7. \A r \in Requests : Sound(r, req[r])
  BY <1>5, <1>6 DEF Sound
<1> QED BY <1>2, <1>3, <1>7 DEF EdgeInv, Init

LEMMA StepSound == ASSUME MembershipTtl > 0, EdgeInv, [Next]_vars PROVE EdgeInv'
<1>1. CASE UNCHANGED vars
  <2>1. UNCHANGED <<now, objectVars, users, lastUser, cache, req>>
    BY <1>1 DEF vars, memberVars
  <2>2. QuotaTypeOK'
    BY <2>1 DEF EdgeInv, QuotaTypeOK, objectVars
  <2> QED BY <2>1, <2>2 DEF EdgeInv, Trust, Sound
<1>2. ASSUME NEW r \in Requests, Handle(r) PROVE EdgeInv'
  BY <1>2, BeginKeeps, ChargeKeeps, QuotaFailsKeeps, MatchKeeps, LookUpKeeps, PutKeeps,
     ServedKeeps DEF Handle
<1>3. ASSUME NEW r \in Requests, RustAnswers(r) \/ RustAborted(r) \/ CallerLeaves(r)
      PROVE  EdgeInv'
  BY <1>3, ServedKeeps, LeavesKeeps
<1>4. ASSUME NEW u \in Unsettled, Register(u) \/ Remove(u) PROVE EdgeInv'
  BY <1>4, EdgeAssumption, RegisterKeeps, RemoveKeeps
<1>5. CASE Alarm \/ Tick
  BY <1>5, AlarmKeeps, TickKeeps
<1> QED BY <1>1, <1>2, <1>3, <1>4, <1>5 DEF Next

(* "Bounded revocation delay on a cached membership answer" and "Only        *)
(* confirmed membership is cached" (application-user.ts:2, 19), for any       *)
(* requests, identities and budgets, and a TTL that is not zero: a request    *)
(* passes as a member's only if its row was there within the TTL and the     *)
(* time of one lookup, and is called a stranger's only if the row was missing*)
(* at some moment of the request.                                            *)
THEOREM MembershipIsTimely ==
  ASSUME MembershipTtl > 0
  PROVE  Spec => []MembershipTimely
<1>1. Init => EdgeInv
  BY InitSound
<1>2. EdgeInv /\ [Next]_vars => EdgeInv'
  BY StepSound
<1> QED BY <1>1, <1>2, InvIsTimely, PTL DEF Spec

-----------------------------------------------------------------------------
(* The budget's object. *)

(* What the row of a key says of its grants, however they split into windows: *)
(* the open one, if any, is the row's, and no window holds too much.          *)
RowTells(opens, k) ==
  /\ \A s \in opens : SpentFrom(k, s) <= Limit[k]
  /\ \A s \in opens : s <= now /\ now < s + windowMs =>
       stored[k].used = SpentFrom(k, s) /\ stored[k].reset = s + windowMs
  /\ (\A s \in opens : ~(s <= now /\ now < s + windowMs)) => stored[k].reset <= now

KeyInv(k) ==
  /\ \A t \in Times : t > now => spent[k][t] = 0
  /\ \E opens \in SUBSET Times : Opening(opens, k)
  /\ \A opens \in SUBSET Times : Opening(opens, k) => RowTells(opens, k)

DecisionSound ==
  decision # <<>> =>
    /\ decision \in Decision
    /\ decision.remaining = Limit[decision.key] - Window(decision.key).used
    /\ ~decision.success => Window(decision.key).used + decision.cost > Limit[decision.key]
    /\ decision.reset > now

LEMMA TimesFinite == IsFiniteSet(Times) /\ \A t \in Times : t \in Nat
<1>1. Horizon \in Nat
  BY BudgetAssumption
<1>2. IsFiniteSet(0..Horizon)
  BY <1>1, FS_Interval
<1> QED BY <1>1, <1>2 DEF Times

LEMMA WindowFinite ==
  ASSUME NEW s PROVE IsFiniteSet(WindowFrom(s)) /\ WindowFrom(s) \subseteq Times
<1>1. WindowFrom(s) \in SUBSET Times
  BY DEF WindowFrom
<1> QED BY <1>1, TimesFinite, FS_Subset

LEMMA OneOpen ==
  ASSUME NEW k, NEW opens \in SUBSET Times, Opening(opens, k), now \in Times,
         NEW s \in opens, NEW t \in opens,
         s <= now, now < s + windowMs, t <= now, now < t + windowMs
  PROVE  s = t
<1>1. s \in Nat /\ t \in Nat /\ now \in Nat /\ windowMs \in Nat
  BY TimesFinite, BudgetAssumption
<1>2. ~(s < t /\ t < s + windowMs) /\ ~(t < s /\ s < t + windowMs)
  BY DEF Opening
<1> QED BY <1>1, <1>2

(* What leaves the row and the grants of a key alone. *)
LEMMA KeyRests ==
  ASSUME NEW k, KeyInv(k), UNCHANGED now, stored'[k] = stored[k], spent'[k] = spent[k]
  PROVE  KeyInv(k)'
<1>1. \A s : SpentFrom(k, s)' = SpentFrom(k, s)
  BY DEF SpentFrom, WindowFrom, Times
<1>2. \A opens : Opening(opens, k)' <=> Opening(opens, k)
  BY DEF Opening, Times
<1>3. \A opens : RowTells(opens, k)' <=> RowTells(opens, k)
  BY <1>1 DEF RowTells
<1> QED BY <1>2, <1>3 DEF KeyInv, Times

LEMMA SpentAfter ==
  ASSUME QuotaTypeOK, NEW k \in Keys, NEW cost \in Nat, UNCHANGED now,
         spent' = [spent EXCEPT ![k][now] = @ + cost], NEW T \in SUBSET Times
  PROVE  /\ Total(spent'[k], T) = Total(spent[k], T) + IF now \in T THEN cost ELSE 0
         /\ Total(spent[k], T) \in Nat
<1>1. IsFiniteSet(T)
  BY TimesFinite, FS_Subset
<1>2. spent[k] \in [Times -> Nat] /\ now \in Times
  BY DEF QuotaTypeOK
<1>3. \A t \in T : spent[k][t] \in Nat
  BY <1>2
<1>4. \A t \in T : spent'[k][t] = IF t = now THEN spent[k][t] + cost ELSE spent[k][t]
  BY <1>2 DEF QuotaTypeOK
<1>5. Total(spent[k], T) \in Nat
  BY <1>1, <1>3, TotalIsNat
<1> DEFINE f == spent[k]
           g == spent'[k]
<1>6. Total(g, T) = Total(f, T) + IF now \in T THEN cost ELSE 0
  <2>1. Adds(f, g, T, now, cost)
    BY <1>1, <1>3, <1>4 DEF Adds
  <2> HIDE DEF f, g
  <2> QED BY <2>1, TotalAdds
<1> QED BY <1>5, <1>6

LEMMA GrantKeepsKey ==
  ASSUME QuotaTypeOK, NEW k \in Keys, NEW cost \in Nat \ {0}, KeyInv(k), Grant(k, cost),
         UNCHANGED now
  PROVE  KeyInv(k)'
<1> DEFINE window == Window(k)
           Now(s) == s <= now /\ now < s + windowMs
<1>1. /\ now \in Times /\ now \in Nat /\ windowMs \in Nat \ {0} /\ Limit[k] \in Nat
      /\ spent \in [Keys -> [Times -> Nat]] /\ stored \in [Keys -> Row]
  BY TimesFinite, BudgetAssumption DEF QuotaTypeOK
<1>2. /\ spent' = [spent EXCEPT ![k][now] = @ + cost]
      /\ stored'[k].used = window.used + cost /\ stored'[k].reset = window.reset
      /\ window.used + cost <= Limit[k] /\ window.used \in Nat
  <2>1. window \in Row
    BY <1>1 DEF Window, Row
  <2>2. stored' = [stored EXCEPT ![k] = [window EXCEPT !.used = @ + cost]]
        /\ ~(window.used + cost > Limit[k]) /\ spent' = [spent EXCEPT ![k][now] = @ + cost]
    BY DEF Grant, Refused
  <2> QED BY <1>1, <2>1, <2>2 DEF Row
<1>3. /\ \A t \in Times : t # now => spent'[k][t] = spent[k][t]
      /\ spent'[k][now] = spent[k][now] + cost /\ \A t \in Times : spent[k][t] \in Nat
  BY <1>1, <1>2
<1>4. \A T \in SUBSET Times :
        /\ Total(spent'[k], T) = Total(spent[k], T) + IF now \in T THEN cost ELSE 0
        /\ Total(spent[k], T) \in Nat
  <2>1. cost \in Nat
    OBVIOUS
  <2> QED BY <2>1, <1>2, SpentAfter
<1>5. \A s : (s \in Times => (now \in WindowFrom(s) <=> Now(s))) /\ WindowFrom(s) \in SUBSET Times
  BY <1>1 DEF WindowFrom
<1>6. \A t \in Times : t > now' => spent'[k][t] = 0
  <2>1. ASSUME NEW t \in Times, t > now PROVE spent'[k][t] = 0
    <3>1. t # now
      BY <1>1, <2>1, TimesFinite
    <3>2. spent[k][t] = 0
      BY <2>1 DEF KeyInv
    <3> QED BY <1>3, <3>1, <3>2
  <2> QED BY <2>1
<1>7. \E opens \in SUBSET Times : Opening(opens, k)'
  <2>1. PICK opens \in SUBSET Times : Opening(opens, k)
    BY DEF KeyInv
  <2>2. CASE \E s \in opens : Now(s)
    <3>1. now \in opens \/ \E s \in opens : s < now /\ now < s + windowMs
      BY <1>1, <2>1, <2>2, TimesFinite
    <3>2. opens = {t \in Times : spent'[k][t] > 0 /\ ~\E s \in opens : s < t /\ t < s + windowMs}
      <4>1. ASSUME NEW t \in Times
            PROVE  t \in opens <=> spent'[k][t] > 0 /\ ~\E s \in opens : s < t /\ t < s + windowMs
        <5>1. CASE t # now
          BY <5>1, <1>3, <2>1 DEF Opening
        <5>2. CASE t = now
          BY <5>2, <3>1, <1>1, <1>3, <2>1 DEF Opening
        <5> QED BY <5>1, <5>2
      <4> QED BY <4>1, <2>1
    <3> QED BY <3>2 DEF Opening
  <2>3. CASE ~\E s \in opens : Now(s)
    <3> DEFINE more == opens \cup {now}
    <3>1. \A s \in opens : s \in Nat /\ s < now /\ s + windowMs <= now
      <4>1. ASSUME NEW s \in opens PROVE s <= now
        <5>1. spent[k][s] > 0 /\ s \in Times
          BY <2>1 DEF Opening
        <5>2. ~(s > now)
          BY <5>1 DEF KeyInv
        <5> QED BY <5>1, <5>2, <1>1, TimesFinite
      <4> QED BY <4>1, <2>3, <1>1, TimesFinite
    <3>2. ASSUME NEW t \in Times
          PROVE  t \in more <=> spent'[k][t] > 0 /\ ~\E s \in more : s < t /\ t < s + windowMs
      <4>1. CASE t > now
        <5>1. spent'[k][t] = 0 /\ t \notin more
          BY <4>1, <1>6, <3>1, <1>1, TimesFinite
        <5> QED BY <5>1
      <4>2. CASE t = now
        BY <4>2, <1>1, <1>3, <3>1
      <4>3. CASE t < now
        <5>1. t \in opens <=> spent[k][t] > 0 /\ ~\E s \in opens : s < t /\ t < s + windowMs
          BY <2>1 DEF Opening
        <5>2. t # now /\ ~(now < t)
          BY <4>3, <1>1, TimesFinite
        <5>3. spent'[k][t] = spent[k][t]
          BY <5>2, <1>3
        <5> QED BY <5>1, <5>2, <5>3
      <4> QED BY <4>1, <4>2, <4>3, <1>1, TimesFinite
    <3>3. more \in SUBSET Times
      BY <1>1
    <3>4. more = {t \in Times : spent'[k][t] > 0 /\ ~\E s \in more : s < t /\ t < s + windowMs}
      BY <3>2, <3>3
    <3> QED BY <3>3, <3>4 DEF Opening
  <2> QED BY <2>2, <2>3
<1>8. ASSUME NEW opens \in SUBSET Times, Opening(opens, k)' PROVE RowTells(opens, k)'
  <2>1. \A t \in Times :
          t \in opens <=> spent'[k][t] > 0 /\ ~\E s \in opens : s < t /\ t < s + windowMs
    BY <1>8 DEF Opening
  <2>2. ASSUME NEW s \in opens PROVE s \in Nat /\ s <= now
    <3>1. s \in Times /\ s \in Nat /\ spent'[k][s] > 0
      BY <2>1, TimesFinite
    <3>2. ~(s > now')
      BY <1>6, <3>1
    <3> QED BY <1>1, <3>1, <3>2
  <2>3. \E s \in opens : Now(s)
    <3>1. spent'[k][now] > 0
      BY <1>1, <1>3
    <3> QED BY <3>1, <2>1, <2>2, <1>1
  <2>4. CASE Opening(opens, k)
    <3>1. RowTells(opens, k)
      BY <2>4 DEF KeyInv
    <3>2. PICK s \in opens : Now(s)
      BY <2>3
    <3>3. stored[k].used = SpentFrom(k, s) /\ stored[k].reset = s + windowMs
      BY <3>1, <3>2 DEF RowTells
    <3>4. window = stored[k] /\ window.reset = s + windowMs /\ window.used = SpentFrom(k, s)
      BY <3>2, <3>3, <1>1, <2>2 DEF Window
    <3>5. \A t \in opens : Now(t) => t = s
      BY <2>4, <3>2, <1>1, OneOpen
    <3>6. \A t \in opens : SpentFrom(k, t)' = SpentFrom(k, t) + IF t = s THEN cost ELSE 0
      <4>1. \A t \in opens : Now(t) <=> t = s
        BY <3>2, <3>5
      <4>2. \A t \in opens : now \in WindowFrom(t) <=> t = s
        BY <4>1, <1>5
      <4> QED BY <4>2, <1>4, <1>5 DEF SpentFrom, WindowFrom
    <3>7. \A t \in opens : SpentFrom(k, t) \in Nat
      BY <1>4, <1>5 DEF SpentFrom
    <3>8. \A t \in opens : SpentFrom(k, t)' <= Limit[k]
      BY <3>1, <3>4, <3>6, <3>7, <1>1, <1>2 DEF RowTells
    <3> QED BY <3>2, <3>4, <3>5, <3>6, <3>8, <1>2, <1>1 DEF RowTells
  <2>5. CASE ~Opening(opens, k)
    <3> DEFINE old == opens \ {now}
    <3>1. now \in opens /\ spent[k][now] = 0
      <4>1. PICK t \in Times :
              ~(t \in opens <=> spent[k][t] > 0 /\ ~\E s \in opens : s < t /\ t < s + windowMs)
        BY <2>5 DEF Opening
      <4>2. t = now
        BY <4>1, <2>1, <1>3
      <4>3. spent[k][now] \in Nat
        BY <1>1, <1>3
      <4>4. spent'[k][now] > 0
        BY <4>3, <1>3
      <4> QED BY <4>1, <4>2, <4>3, <4>4, <2>1
    <3>2. \A s \in old : s < now /\ s + windowMs <= now /\ s \in Nat
      <4>1. ~\E s \in opens : s < now /\ now < s + windowMs
        BY <3>1, <2>1, <1>1
      <4> QED BY <4>1, <2>2, <1>1
    <3>3. old = {t \in Times : spent[k][t] > 0 /\ ~\E s \in old : s < t /\ t < s + windowMs}
      <4>1. ASSUME NEW t \in Times
            PROVE  t \in old <=> spent[k][t] > 0 /\ ~\E s \in old : s < t /\ t < s + windowMs
        <5>1. CASE t > now
          <6>1. spent[k][t] = 0 /\ t \notin old
            BY <5>1, <2>2, <1>1, TimesFinite DEF KeyInv
          <6> QED BY <6>1
        <5>2. CASE t = now
          BY <5>2, <3>1
        <5>3. CASE t < now
          <6>1. t # now /\ ~(now < t)
            BY <5>3, <1>1, TimesFinite
          <6>2. spent'[k][t] = spent[k][t]
            BY <6>1, <1>3
          <6> QED BY <6>1, <6>2, <2>1
        <5> QED BY <5>1, <5>2, <5>3, <1>1, TimesFinite
      <4> QED BY <4>1
    <3>4. RowTells(old, k)
      BY <3>3 DEF KeyInv, Opening
    <3>5. stored[k].reset <= now
      <4>1. \A s \in old : ~Now(s)
        BY <3>2, <1>1
      <4> QED BY <3>4, <4>1 DEF RowTells
    <3>6. window.used = 0 /\ window.reset = now + windowMs
      BY <3>5, <1>1 DEF Window, Row
    <3>7. SpentFrom(k, now) = 0
      <4>1. \A t \in WindowFrom(now) : spent[k][t] = 0
        BY <3>1, <1>1, TimesFinite DEF WindowFrom, KeyInv
      <4>2. Tallies(spent[k], WindowFrom(now)) = {}
        BY <4>1 DEF Tallies
      <4> QED BY <4>2, FS_EmptySet DEF SpentFrom, Total
    <3>8. SpentFrom(k, now)' = cost
      <4>1. now \in WindowFrom(now)
        BY <1>1 DEF WindowFrom
      <4>2. Total(spent'[k], WindowFrom(now)) = 0 + cost
        BY <4>1, <3>7, <1>4, <1>5 DEF SpentFrom
      <4> QED BY <4>2, <1>1 DEF SpentFrom, WindowFrom
    <3>9. \A s \in old : SpentFrom(k, s)' = SpentFrom(k, s)
      <4>1. \A s \in old : now \notin WindowFrom(s)
        BY <3>2, <1>1 DEF WindowFrom
      <4> QED BY <4>1, <1>4, <1>5 DEF SpentFrom, WindowFrom
    <3>10. \A s \in opens : SpentFrom(k, s)' <= Limit[k]
      BY <3>1, <3>4, <3>6, <3>8, <3>9, <1>1, <1>2 DEF RowTells
    <3>11. \A s \in opens : Now(s) => s = now
      BY <3>2, <1>1
    <3> QED BY <3>1, <3>6, <3>8, <3>10, <3>11, <1>1, <1>2 DEF RowTells
  <2> QED BY <2>4, <2>5
<1>9. \A opens \in SUBSET Times : Opening(opens, k)' => RowTells(opens, k)'
  BY <1>8
<1> QED BY <1>6, <1>7, <1>9 DEF KeyInv, Times

LEMMA InitKey == ASSUME QuotaInit, NEW k \in Keys PROVE KeyInv(k)
<1>1. /\ now = 0 /\ stored[k] = None /\ \A t \in Times : spent[k][t] = 0
      /\ {} \in SUBSET Times
  BY DEF QuotaInit
<1>2. Opening({}, k)
  BY <1>1 DEF Opening
<1>3. ASSUME NEW opens \in SUBSET Times, Opening(opens, k) PROVE RowTells(opens, k)
  <2>1. opens = {}
    BY <1>1, <1>3 DEF Opening
  <2> QED BY <1>1, <2>1 DEF RowTells, None
<1> QED BY <1>1, <1>2, <1>3 DEF KeyInv

(* The alarm deletes a row only when its window is over.                      *)
LEMMA AlarmKeepsKey ==
  ASSUME QuotaTypeOK, alarm, NEW k \in Keys, KeyInv(k)
  PROVE  KeyInv(k)'
<1>1. UNCHANGED <<now, spent>> /\ now \in Nat
      /\ stored'[k] = IF stored[k].reset <= now THEN None ELSE stored[k]
  BY TimesFinite DEF alarm, Sweep, QuotaTypeOK
<1>2. CASE stored'[k] = stored[k]
  BY <1>1, <1>2, KeyRests
<1>3. CASE stored[k].reset <= now /\ stored'[k].reset = 0
  <2>1. \A s : SpentFrom(k, s)' = SpentFrom(k, s)
    BY <1>1 DEF SpentFrom, WindowFrom, Times
  <2>2. \A opens : Opening(opens, k)' <=> Opening(opens, k)
    BY <1>1 DEF Opening, Times
  <2>3. ASSUME NEW opens \in SUBSET Times, RowTells(opens, k) PROVE RowTells(opens, k)'
    <3>1. \A s \in opens : ~(s <= now /\ now < s + windowMs)
      BY <1>1, <1>3, <2>3, TimesFinite, BudgetAssumption DEF RowTells
    <3> QED BY <1>1, <1>3, <2>1, <2>3, <3>1 DEF RowTells
  <2> QED BY <1>1, <2>2, <2>3 DEF KeyInv, Times
<1> QED BY <1>1, <1>2, <1>3 DEF None

LEMMA TickKeepsKey ==
  ASSUME QuotaTypeOK, now < Horizon, now' = now + 1, UNCHANGED <<stored, spent>>,
         NEW k \in Keys, KeyInv(k)
  PROVE  KeyInv(k)'
<1>1. now \in Nat /\ windowMs \in Nat /\ stored[k].reset \in Nat
  BY TimesFinite, BudgetAssumption DEF QuotaTypeOK, Row
<1>2. \A s : SpentFrom(k, s)' = SpentFrom(k, s)
  BY DEF SpentFrom, WindowFrom, Times
<1>3. \A opens : Opening(opens, k)' <=> Opening(opens, k)
  BY DEF Opening, Times
<1>4. ASSUME NEW opens \in SUBSET Times, Opening(opens, k), RowTells(opens, k)
      PROVE  RowTells(opens, k)'
  <2>1. \A s \in opens : s <= now /\ s \in Nat
    <3>1. \A s \in opens : s \in Times /\ spent[k][s] > 0
      BY <1>4 DEF Opening
    <3>2. \A t \in Times : t > now => spent[k][t] = 0
      BY DEF KeyInv
    <3> QED BY <1>1, <3>1, <3>2, TimesFinite
  <2>2. \A s \in opens : SpentFrom(k, s)' <= Limit[k]
    BY <1>2, <1>4 DEF RowTells
  <2>3. ASSUME NEW s \in opens, s <= now', now' < s + windowMs
        PROVE  stored'[k].used = SpentFrom(k, s)' /\ stored'[k].reset = s + windowMs
    <3>1. s <= now /\ now < s + windowMs
      BY <1>1, <2>1, <2>3
    <3> QED BY <1>2, <1>4, <3>1 DEF RowTells
  <2>4. ASSUME \A s \in opens : ~(s <= now' /\ now' < s + windowMs)
        PROVE  stored'[k].reset <= now'
    <3>1. CASE \E s \in opens : s <= now /\ now < s + windowMs
      <4>1. PICK s \in opens : s <= now /\ now < s + windowMs
        BY <3>1
      <4>2. stored[k].reset = s + windowMs
        BY <1>4, <4>1 DEF RowTells
      <4> QED BY <1>1, <2>1, <2>4, <4>1, <4>2
    <3>2. CASE \A s \in opens : ~(s <= now /\ now < s + windowMs)
      BY <1>1, <1>4, <3>2 DEF RowTells
    <3> QED BY <3>1, <3>2
  <2> QED BY <2>2, <2>3, <2>4 DEF RowTells
<1>5. \A t \in Times : t > now' => spent'[k][t] = 0
  <2>1. \A t \in Times : t > now => spent[k][t] = 0
    BY DEF KeyInv
  <2> QED BY <1>1, <2>1, TimesFinite
<1> QED BY <1>3, <1>4, <1>5 DEF KeyInv, Times

(* The row says of the grants what a decision needs to know.                  *)
LEMMA RowIsOpen ==
  ASSUME QuotaTypeOK, NEW k \in Keys, KeyInv(k)
  PROVE  /\ OpenAt(k, now) = Window(k).used
         /\ \A s \in Opens(k) : SpentFrom(k, s) <= Limit[k]
<1>1. Opens(k) \in SUBSET Times /\ Opening(Opens(k), k)
  BY DEF KeyInv, Opens
<1>2. RowTells(Opens(k), k)
  BY <1>1 DEF KeyInv
<1>3. now \in Times /\ now \in Nat /\ windowMs \in Nat \ {0} /\ \A s \in Opens(k) : s \in Nat
  BY <1>1, TimesFinite, BudgetAssumption DEF QuotaTypeOK
<1> DEFINE open == {s \in Opens(k) : s <= now /\ now < s + windowMs}
<1>4. CASE open = {}
  <2>1. stored[k].reset <= now
    BY <1>2, <1>4 DEF RowTells
  <2>2. Window(k).used = 0
    BY <2>1, <1>3 DEF Window, QuotaTypeOK, Row
  <2> QED BY <1>2, <1>4, <2>2 DEF OpenAt, RowTells
<1>5. CASE open # {}
  <2>1. PICK s \in open : TRUE
    BY <1>5
  <2>2. \A t \in open : t = s
    BY <1>1, <1>3, <2>1, OneOpen
  <2>3. (CHOOSE t \in open : TRUE) = s
    BY <2>1, <2>2
  <2>4. stored[k].used = SpentFrom(k, s) /\ stored[k].reset = s + windowMs
    BY <1>2, <2>1 DEF RowTells
  <2>5. Window(k).used = SpentFrom(k, s)
    BY <2>1, <2>4, <1>3 DEF Window, QuotaTypeOK, Row
  <2> QED BY <1>2, <1>5, <2>3, <2>5 DEF OpenAt, RowTells
<1> QED BY <1>4, <1>5

LEMMA RefuseDecides ==
  ASSUME QuotaTypeOK, NEW k \in Keys, NEW cost \in Nat, Refuse(k, cost), UNCHANGED now
  PROVE  DecisionSound'
<1>1. decision' \in Decision
  BY DecisionTyped DEF Refuse
<1>2. Window(k).reset > now /\ Window(k).used \in Nat /\ Limit[k] \in Nat
  BY BudgetAssumption, TimesFinite DEF QuotaTypeOK, Window, Row
<1>3. Window(k)' = Window(k)
  BY DEF Window, Refuse
<1>4. /\ decision'.key = k /\ decision'.cost = cost /\ decision'.reset = Window(k).reset
      /\ decision'.remaining = Limit[k] - Window(k).used
  BY <1>2 DEF Refuse, Decide
<1> QED BY <1>1, <1>2, <1>3, <1>4 DEF DecisionSound, Refuse, Refused

LEMMA GrantDecides ==
  ASSUME QuotaTypeOK, NEW k \in Keys, NEW cost \in Nat, Grant(k, cost), UNCHANGED now
  PROVE  DecisionSound'
<1>1. decision' \in Decision
  BY DecisionTyped DEF Grant
<1>2. Window(k).reset > now /\ Window(k) \in Row /\ Limit[k] \in Nat
  BY WindowTyped, BudgetAssumption, TimesFinite DEF QuotaTypeOK, Window, Row
<1>3. stored'[k] = [Window(k) EXCEPT !.used = @ + cost]
  BY DEF Grant, QuotaTypeOK
<1>4. Window(k)'.used = Window(k).used + cost
  BY <1>2, <1>3 DEF Window, Row
<1>5. /\ decision'.key = k /\ decision'.success /\ decision'.reset = Window(k).reset
      /\ decision'.remaining = Limit[k] - Window(k).used - cost
  BY <1>2 DEF Grant, Decide
<1>6. Limit[k] - Window(k).used - cost = Limit[k] - (Window(k).used + cost)
  BY <1>2 DEF Row
<1> QED BY <1>1, <1>2, <1>4, <1>5, <1>6 DEF DecisionSound

LEMMA DecisionIsTrue ==
  ASSUME QuotaTypeOK, \A k \in Keys : KeyInv(k), DecisionSound
  PROVE  BudgetKept /\ DecisionTrue
<1>1. BudgetKept
  BY RowIsOpen DEF BudgetKept
<1>2. DecisionTrue
  <2> SUFFICES ASSUME decision # <<>> PROVE DecisionTrue
    BY DEF DecisionTrue
  <2>1. decision.key \in Keys
    BY DEF DecisionSound, Decision
  <2>2. OpenAt(decision.key, now) = Window(decision.key).used
    BY <2>1, RowIsOpen
  <2> QED BY <2>2 DEF DecisionSound, DecisionTrue
<1> QED BY <1>1, <1>2

-----------------------------------------------------------------------------
(* What the routes have paid. *)

(* A handler pays before it goes on, once, and only a member gets to pay.     *)
Paid(handler) ==
  /\ handler.at \in {"idle", "request quota", "match", "lookup", "put", "body", "path quota"} =>
       handler.charged = -1
  /\ handler.at \in {"token", "rust"} \/ handler.sent => handler.charged >= 0
  /\ handler.at \in {"body", "path quota", "token", "rust"} \/ handler.charged >= 0 =>
       handler.member
  /\ handler.at \in {"idle", "request quota"} => ~handler.queried

(* It has asked the database, or may. *)
Asks(handler) == handler.queried \/ handler.at \in {"match", "lookup"}
Asking(u) == {r \in Requests : Who[r] = u /\ Asks(req[r])}

PathsPaid ==
  \A u \in Uids, times \in SUBSET Times :
    PathsOf(ChargedIn(u, times)) = Total(spent[PathKey(u)], times)
QueriesPaid ==
  \A u \in Uids : Cardinality(Asking(u)) <= Total(spent[RequestKey(u)], Times)

ChargeInv ==
  /\ QuotaTypeOK /\ DecisionSound /\ \A k \in Keys : KeyInv(k)
  /\ req \in [Requests -> Handler] /\ \A r \in Requests : Paid(req[r])
  /\ PathsPaid /\ QueriesPaid

LEMMA KeysApart ==
  ASSUME NEW u \in Uids, NEW v \in Uids
  PROVE  /\ RequestKey(u) \in Keys /\ PathKey(u) \in Keys /\ RequestKey(u) # PathKey(v)
         /\ RequestKey(u) = RequestKey(v) => u = v
         /\ PathKey(u) = PathKey(v) => u = v
BY EdgeAssumption DEF RequestKey, PathKey

LEMMA ChargedFinite ==
  ASSUME NEW u, NEW times
  PROVE  /\ IsFiniteSet(ChargedIn(u, times)) /\ ChargedIn(u, times) \in SUBSET Requests
         /\ \A r \in Requests : Paths[r] \in Nat \ {0}
<1>1. ChargedIn(u, times) \in SUBSET Requests
  BY DEF ChargedIn
<1> QED BY <1>1, EdgeAssumption, FS_Subset

LEMMA AskingFinite ==
  ASSUME NEW u
  PROVE  IsFiniteSet(Asking(u)) /\ Asking(u) \in SUBSET Requests
<1>1. Asking(u) \in SUBSET Requests
  BY DEF Asking
<1> QED BY <1>1, EdgeAssumption, FS_Subset

LEMMA ChargedIsBudgeted == ASSUME ChargeInv PROVE Budgeted
<1>1. BudgetKept /\ DecisionTrue
  BY DecisionIsTrue DEF ChargeInv
<1>2. ASSUME NEW u \in Uids, NEW start \in Opens(PathKey(u))
      PROVE  PathsOf({r \in ChargedIn(u, WindowFrom(start)) : req[r].sent}) <= Limit[PathKey(u)]
  <2> DEFINE paying == ChargedIn(u, WindowFrom(start))
             sent == {r \in paying : req[r].sent}
  <2>1. PathsOf(paying) = SpentFrom(PathKey(u), start)
    BY WindowFinite DEF ChargeInv, PathsPaid, SpentFrom
  <2>2. SpentFrom(PathKey(u), start) <= Limit[PathKey(u)] /\ Limit[PathKey(u)] \in Nat
    BY <1>1, <1>2, KeysApart, BudgetAssumption DEF BudgetKept
  <2>3. IsFiniteSet(paying) /\ \A r \in paying : Paths[r] \in Nat
    BY ChargedFinite
  <2>4. sent \in SUBSET paying /\ IsFiniteSet(sent)
    BY <2>3, FS_Subset
  <2>5. PathsOf(sent) <= PathsOf(paying)
    BY <2>3, <2>4, TotalIsMonotone DEF PathsOf
  <2>6. PathsOf(sent) \in Nat /\ PathsOf(paying) \in Nat
    BY <2>3, <2>4, TotalIsNat DEF PathsOf
  <2> QED BY <2>1, <2>2, <2>5, <2>6
<1>3. ChargesMatch
  <2>1. \A u \in Uids, t \in Times : spent[PathKey(u)][t] = PathsOf(ChargedIn(u, {t}))
    <3> SUFFICES ASSUME NEW u \in Uids, NEW t \in Times
                 PROVE  spent[PathKey(u)][t] = PathsOf(ChargedIn(u, {t}))
      OBVIOUS
    <3>1. PathsOf(ChargedIn(u, {t})) = Total(spent[PathKey(u)], {t})
      BY DEF ChargeInv, PathsPaid
    <3>2. spent[PathKey(u)][t] \in Nat
      BY KeysApart DEF ChargeInv, QuotaTypeOK
    <3>3. Tallies(spent[PathKey(u)], {t}) = {t} \X (1..spent[PathKey(u)][t])
      BY DEF Tallies
    <3>4. Total(spent[PathKey(u)], {t}) = spent[PathKey(u)][t]
      BY <3>2, <3>3, Column DEF Total
    <3> QED BY <3>1, <3>4
  <2>2. \A r \in Requests : /\ req[r].sent => req[r].charged >= 0
                            /\ req[r].charged >= 0 => req[r].member
    BY DEF ChargeInv, Paid
  <2>3. ASSUME NEW u \in Uids
        PROVE  Cardinality({r \in Requests : Who[r] = u /\ req[r].queried})
                 <= Total(spent[RequestKey(u)], Times)
    <3> DEFINE queried == {r \in Requests : Who[r] = u /\ req[r].queried}
    <3>1. queried \in SUBSET Asking(u)
      BY DEF Asking, Asks
    <3>2. Cardinality(queried) <= Cardinality(Asking(u))
      BY <3>1, AskingFinite, FS_Subset
    <3>3. Cardinality(queried) \in Nat /\ Cardinality(Asking(u)) \in Nat
      BY <3>1, AskingFinite, FS_Subset, FS_CardinalityType
    <3>4. Total(spent[RequestKey(u)], Times) \in Nat
      <4>1. RequestKey(u) \in Keys
        BY KeysApart
      <4>2. \A t \in Times : spent[RequestKey(u)][t] \in Nat
        BY <4>1 DEF ChargeInv, QuotaTypeOK
      <4> QED BY <4>2, TimesFinite, TotalIsNat
    <3>5. Cardinality(Asking(u)) <= Total(spent[RequestKey(u)], Times)
      BY DEF ChargeInv, QueriesPaid
    <3> QED BY <3>2, <3>3, <3>4, <3>5
  <2> QED BY <2>1, <2>2, <2>3 DEF ChargesMatch
<1> QED BY <1>1, <1>2, <1>3 DEF Budgeted, ComputeBudgeted

(* Handlers that go on without paying. *)
LEMMA UnpaidKeeps ==
  ASSUME ChargeInv, UNCHANGED <<now, stored, spent>>, QuotaTypeOK', DecisionSound',
         req' \in [Requests -> Handler], \A r \in Requests : Paid(req'[r]),
         \A r \in Requests : req'[r].charged = req[r].charged /\ (Asks(req'[r]) => Asks(req[r]))
  PROVE  ChargeInv'
<1>1. \A k \in Keys : KeyInv(k)'
  BY KeyRests DEF ChargeInv
<1>2. \A u, times : ChargedIn(u, times)' = ChargedIn(u, times)
  BY DEF ChargedIn
<1>3. PathsPaid'
  BY <1>2 DEF ChargeInv, PathsPaid, PathsOf, Times
<1>4. QueriesPaid'
  <2> SUFFICES ASSUME NEW u \in Uids
               PROVE  Cardinality(Asking(u)') <= Total(spent[RequestKey(u)], Times)
    BY DEF QueriesPaid, Times
  <2>1. Asking(u)' \in SUBSET Asking(u)
    BY DEF Asking
  <2>2. Cardinality(Asking(u)') <= Cardinality(Asking(u))
    BY <2>1, AskingFinite, FS_Subset
  <2>3. Cardinality(Asking(u)') \in Nat /\ Cardinality(Asking(u)) \in Nat
    BY <2>1, AskingFinite, FS_Subset, FS_CardinalityType
  <2>4. Total(spent[RequestKey(u)], Times) \in Nat
    <3>1. RequestKey(u) \in Keys
      BY KeysApart
    <3>2. \A t \in Times : spent[RequestKey(u)][t] \in Nat
      BY <3>1 DEF ChargeInv, QuotaTypeOK
    <3> QED BY <3>2, TimesFinite, TotalIsNat
  <2> QED BY <2>2, <2>3, <2>4 DEF ChargeInv, QueriesPaid
<1> QED BY <1>1, <1>3, <1>4 DEF ChargeInv

LEMMA OneGoes ==
  ASSUME ChargeInv, UNCHANGED now, NEW r \in Requests, NEW handler \in Handler,
         Goes(r, handler), Paid(handler)
  PROVE  /\ req' \in [Requests -> Handler] /\ \A q \in Requests : Paid(req'[q])
         /\ req'[r] = handler /\ \A q \in Requests : q # r => req'[q] = req[q]
BY DEF ChargeInv, Goes

LEMMA QuietKeepsCharges ==
  ASSUME ChargeInv, UNCHANGED now, QuotaIdle, NEW r \in Requests, NEW handler \in Handler,
         Goes(r, handler), Paid(handler), handler.charged = req[r].charged,
         Asks(handler) => Asks(req[r])
  PROVE  ChargeInv'
<1>1. QuotaTypeOK' /\ DecisionSound' /\ UNCHANGED <<stored, spent>>
  BY IdleTyped DEF ChargeInv, QuotaIdle, DecisionSound
<1> QED BY <1>1, OneGoes, UnpaidKeeps

LEMMA GrantKeepsKeys ==
  ASSUME ChargeInv, UNCHANGED now, NEW k \in Keys, NEW cost \in Nat \ {0}, Grant(k, cost)
  PROVE  /\ QuotaTypeOK' /\ DecisionSound' /\ \A j \in Keys : KeyInv(j)'
         /\ \A j \in Keys : j # k => spent'[j] = spent[j]
         /\ \A times \in SUBSET Times :
              /\ Total(spent'[k], times) = Total(spent[k], times) + IF now \in times THEN cost ELSE 0
              /\ Total(spent[k], times) \in Nat
<1>1. cost \in Nat /\ QuotaTypeOK /\ KeyInv(k)
  BY DEF ChargeInv
<1>2. QuotaTypeOK' /\ DecisionSound'
  BY <1>1, GrantTyped, GrantDecides
<1>3. spent' = [spent EXCEPT ![k][now] = @ + cost]
      /\ \A j \in Keys : j # k => spent'[j] = spent[j] /\ stored'[j] = stored[j]
  BY <1>1 DEF Grant, QuotaTypeOK
<1>4. \A j \in Keys : KeyInv(j)'
  BY <1>1, <1>3, GrantKeepsKey, KeyRests DEF ChargeInv
<1> QED BY <1>1, <1>2, <1>3, <1>4, SpentAfter

(* A request paid for in the budget of requests. *)
LEMMA RequestPaidKeeps ==
  ASSUME ChargeInv, UNCHANGED now, NEW r \in Requests, Grant(RequestKey(Who[r]), 1),
         NEW handler \in Handler, Goes(r, handler), Paid(handler),
         handler.charged = req[r].charged
  PROVE  ChargeInv'
<1> DEFINE u == Who[r]
<1>1. u \in Uids /\ RequestKey(u) \in Keys /\ 1 \in Nat \ {0}
  BY EdgeAssumption, KeysApart
<1>2. /\ QuotaTypeOK' /\ DecisionSound' /\ \A j \in Keys : KeyInv(j)'
      /\ \A j \in Keys : j # RequestKey(u) => spent'[j] = spent[j]
      /\ Total(spent'[RequestKey(u)], Times) = Total(spent[RequestKey(u)], Times) + 1
      /\ Total(spent[RequestKey(u)], Times) \in Nat
  BY <1>1, GrantKeepsKeys DEF ChargeInv, QuotaTypeOK
<1>3. /\ req' \in [Requests -> Handler] /\ \A q \in Requests : Paid(req'[q])
      /\ req'[r] = handler /\ \A q \in Requests : q # r => req'[q] = req[q]
  BY OneGoes
<1>4. PathsPaid'
  <2>1. \A v, times : ChargedIn(v, times)' = ChargedIn(v, times)
    BY <1>3 DEF ChargedIn
  <2>2. \A v \in Uids : spent'[PathKey(v)] = spent[PathKey(v)]
    BY <1>1, <1>2, KeysApart
  <2> QED BY <2>1, <2>2 DEF ChargeInv, PathsPaid, PathsOf, Times
<1>5. QueriesPaid'
  <2> SUFFICES ASSUME NEW v \in Uids
               PROVE  Cardinality(Asking(v)') <= Total(spent'[RequestKey(v)], Times)
    BY DEF QueriesPaid, Times
  <2>1. Cardinality(Asking(v)) <= Total(spent[RequestKey(v)], Times)
    BY DEF ChargeInv, QueriesPaid
  <2>2. CASE v # u
    <3>1. Asking(v)' = Asking(v) /\ spent'[RequestKey(v)] = spent[RequestKey(v)]
      BY <1>1, <1>2, <1>3, <2>2, KeysApart DEF Asking
    <3> QED BY <2>1, <3>1
  <2>3. CASE v = u
    <3>1. Asking(u)' \in SUBSET (Asking(u) \cup {r})
      BY <1>3 DEF Asking
    <3>2. /\ IsFiniteSet(Asking(u) \cup {r})
          /\ Cardinality(Asking(u) \cup {r}) <= Cardinality(Asking(u)) + 1
          /\ Cardinality(Asking(u)) \in Nat
      <4>1. IsFiniteSet(Asking(u)) /\ Cardinality(Asking(u)) \in Nat
        BY AskingFinite, FS_CardinalityType
      <4>2. IsFiniteSet(Asking(u) \cup {r})
            /\ (Cardinality(Asking(u) \cup {r}) = Cardinality(Asking(u))
                \/ Cardinality(Asking(u) \cup {r}) = Cardinality(Asking(u)) + 1)
        BY <4>1, FS_AddElement
      <4> QED BY <4>1, <4>2
    <3>3. Cardinality(Asking(u)') <= Cardinality(Asking(u) \cup {r})
          /\ IsFiniteSet(Asking(u)')
      BY <3>1, <3>2, FS_Subset
    <3>4. Cardinality(Asking(u)') \in Nat /\ Cardinality(Asking(u) \cup {r}) \in Nat
      BY <3>2, <3>3, FS_CardinalityType
    <3> QED BY <1>2, <2>1, <2>3, <3>2, <3>3, <3>4
  <2> QED BY <2>2, <2>3
<1> QED BY <1>2, <1>3, <1>4, <1>5 DEF ChargeInv

(* A request paid for in the budget of paths. *)
LEMMA PathsPaidKeeps ==
  ASSUME ChargeInv, UNCHANGED now, NEW r \in Requests, Grant(PathKey(Who[r]), PathCost(r)),
         NEW handler \in Handler, Goes(r, handler), Paid(handler),
         handler.charged = now, req[r].charged = -1, Asks(handler) => Asks(req[r])
  PROVE  ChargeInv'
<1> DEFINE u == Who[r]
<1>1. /\ u \in Uids /\ PathKey(u) \in Keys /\ PathCost(r) \in Nat \ {0}
      /\ now \in Times /\ -1 \notin Times
  BY EdgeAssumption, KeysApart DEF PathCost, ChargeInv, QuotaTypeOK, Times
<1>2. /\ QuotaTypeOK' /\ DecisionSound' /\ \A j \in Keys : KeyInv(j)'
      /\ \A j \in Keys : j # PathKey(u) => spent'[j] = spent[j]
      /\ \A times \in SUBSET Times :
           Total(spent'[PathKey(u)], times)
             = Total(spent[PathKey(u)], times) + IF now \in times THEN PathCost(r) ELSE 0
  BY <1>1, GrantKeepsKeys
<1>3. /\ req' \in [Requests -> Handler] /\ \A q \in Requests : Paid(req'[q])
      /\ req'[r] = handler /\ \A q \in Requests : q # r => req'[q] = req[q]
  BY OneGoes
<1>4. PathsPaid'
  <2> SUFFICES ASSUME NEW v \in Uids, NEW times \in SUBSET Times
               PROVE  PathsOf(ChargedIn(v, times)') = Total(spent'[PathKey(v)], times)
    BY DEF PathsPaid, PathsOf, Times
  <2>1. PathsOf(ChargedIn(v, times)) = Total(spent[PathKey(v)], times)
    BY DEF ChargeInv, PathsPaid
  <2>2. CASE v # u
    <3>1. ChargedIn(v, times)' = ChargedIn(v, times)
          /\ spent'[PathKey(v)] = spent[PathKey(v)]
      BY <1>1, <1>2, <1>3, <2>2, KeysApart DEF ChargedIn
    <3> QED BY <2>1, <3>1
  <2>3. CASE v = u /\ now \notin times
    <3>1. ChargedIn(u, times)' = ChargedIn(u, times)
      BY <1>1, <1>3, <2>3 DEF ChargedIn
    <3>2. Total(spent[PathKey(u)], times) \in Nat
      BY <2>1, <2>3, ChargedFinite, TotalIsNat DEF PathsOf
    <3> QED BY <1>2, <2>1, <2>3, <3>1, <3>2
  <2>4. CASE v = u /\ now \in times
    <3>1. r \notin ChargedIn(u, times) /\ ChargedIn(u, times)' = ChargedIn(u, times) \cup {r}
      BY <1>1, <1>3, <2>4 DEF ChargedIn
    <3>2. IsFiniteSet(ChargedIn(u, times)) /\ Paths[r] \in Nat
          /\ \A q \in ChargedIn(u, times) : Paths[q] \in Nat
      BY ChargedFinite
    <3>3. Total(Paths, ChargedIn(u, times) \cup {r}) = Total(Paths, ChargedIn(u, times)) + Paths[r]
      BY <3>1, <3>2, TotalOfMore
    <3> QED BY <1>2, <2>1, <2>4, <3>1, <3>3 DEF PathsOf, PathCost
  <2> QED BY <2>2, <2>3, <2>4
<1>5. QueriesPaid'
  <2> SUFFICES ASSUME NEW v \in Uids
               PROVE  Cardinality(Asking(v)') <= Total(spent'[RequestKey(v)], Times)
    BY DEF QueriesPaid, Times
  <2>1. spent'[RequestKey(v)] = spent[RequestKey(v)] /\ Asking(v)' \in SUBSET Asking(v)
    BY <1>1, <1>2, <1>3, KeysApart DEF Asking
  <2>2. Cardinality(Asking(v)') <= Cardinality(Asking(v))
    BY <2>1, AskingFinite, FS_Subset
  <2>3. Cardinality(Asking(v)') \in Nat /\ Cardinality(Asking(v)) \in Nat
    BY <2>1, AskingFinite, FS_Subset, FS_CardinalityType
  <2>4. Total(spent[RequestKey(v)], Times) \in Nat
    <3>1. RequestKey(v) \in Keys
      BY KeysApart
    <3>2. \A t \in Times : spent[RequestKey(v)][t] \in Nat
      BY <3>1 DEF ChargeInv, QuotaTypeOK
    <3> QED BY <3>2, TimesFinite, TotalIsNat
  <2> QED BY <2>1, <2>2, <2>3, <2>4 DEF ChargeInv, QueriesPaid
<1> QED BY <1>2, <1>3, <1>4, <1>5 DEF ChargeInv

-----------------------------------------------------------------------------
(* The steps of the routes keep what has been paid. *)

LEMMA NotYet == ~(-1 >= 0)
OBVIOUS

LEMMA EndPaid ==
  ASSUME ChargeInv, NEW r \in Requests, NEW status \in Statuses
  PROVE  /\ Ended(r, status) \in Handler /\ Paid(Ended(r, status))
         /\ Ended(r, status).charged = req[r].charged
         /\ Asks(Ended(r, status)) => Asks(req[r])
<1>1. req[r] \in Handler /\ Paid(req[r])
  BY DEF ChargeInv
<1>2. Ended(r, status) \in Handler
  BY <1>1 DEF Ended, Handler
<1>3. /\ Ended(r, status).at = "ended" /\ Ended(r, status).charged = req[r].charged
      /\ Ended(r, status).sent = req[r].sent /\ Ended(r, status).member = req[r].member
      /\ Ended(r, status).queried = req[r].queried
  BY <1>1 DEF Ended, Handler
<1> QED BY <1>1, <1>2, <1>3 DEF Paid, Asks

LEMMA EndKeepsCharges ==
  ASSUME ChargeInv, UNCHANGED now, QuotaIdle, NEW r \in Requests, NEW status \in Statuses,
         Ends(r, status)
  PROVE  ChargeInv'
BY EndPaid, QuietKeepsCharges DEF Ends

(* A handler that moves on, with nothing new about what it was charged or sent.*)
LEMMA MoveKeepsCharges ==
  ASSUME ChargeInv, UNCHANGED now, QuotaIdle, NEW r \in Requests, NEW handler \in Handler,
         Goes(r, handler), handler.charged = req[r].charged, handler.sent = req[r].sent,
         handler.at \in {"request quota", "lookup", "put", "body", "path quota"},
         req[r].at \in {"idle", "match", "lookup", "put", "body"},
         handler.at \in {"body", "path quota"} => handler.member,
         handler.at = "request quota" => ~handler.queried,
         Asks(handler) => Asks(req[r])
  PROVE  ChargeInv'
<1>1. Paid(req[r]) /\ req[r] \in Handler
  BY DEF ChargeInv
<1>2. req[r].charged = -1
  BY <1>1 DEF Paid
<1>3. ~(req[r].charged >= 0)
  BY <1>2, NotYet, Zenon
<1>4. ~req[r].sent
  BY <1>1, <1>3 DEF Paid
<1>5. handler.charged = -1 /\ ~handler.sent /\ ~(handler.charged >= 0)
  BY <1>2, <1>3, <1>4
<1>6. Paid(handler)
  BY <1>5 DEF Paid
<1> QED BY <1>6, QuietKeepsCharges

LEMMA BeginKeepsCharges == ASSUME ChargeInv, NEW r \in Requests, Begin(r) PROVE ChargeInv'
<1>1. UNCHANGED now /\ QuotaIdle /\ req[r].at = "idle" /\ req[r] \in Handler /\ Paid(req[r])
  BY DEF Begin, ChargeInv
<1>2. CASE Ends(r, "refused")
  BY <1>1, <1>2, EndKeepsCharges DEF Statuses
<1>3. CASE Goes(r, [req[r] EXCEPT !.at = "request quota", !.absent = Who[r] \notin users])
  <2> DEFINE handler == [req[r] EXCEPT !.at = "request quota", !.absent = Who[r] \notin users]
  <2>1. /\ handler \in Handler /\ handler.at = "request quota"
        /\ handler.charged = req[r].charged /\ handler.sent = req[r].sent
        /\ handler.queried = req[r].queried
    BY <1>1 DEF Handler
  <2>2. ~handler.queried
    BY <1>1, <2>1 DEF Paid
  <2>3. ~Asks(handler)
    BY <2>1, <2>2 DEF Asks
  <2> QED BY <1>1, <1>3, <2>1, <2>2, <2>3, MoveKeepsCharges
<1> QED BY <1>2, <1>3 DEF Begin

LEMMA ChargeKeepsCharges ==
  ASSUME ChargeInv, NEW r \in Requests, ChargeRequest(r) \/ ChargePaths(r) PROVE ChargeInv'
<1>1. UNCHANGED now /\ req[r] \in Handler /\ Paid(req[r])
  BY DEF ChargeRequest, ChargePaths, ChargeInv
<1>2. CASE req[r].at = "request quota" /\ Grant(RequestKey(Who[r]), 1) /\ To(r, "match")
  <2> DEFINE handler == [req[r] EXCEPT !.at = "match"]
  <2>1. /\ handler \in Handler /\ handler.at = "match" /\ handler.charged = req[r].charged
        /\ handler.sent = req[r].sent /\ handler.member = req[r].member
    BY <1>1 DEF Handler
  <2>2. Paid(handler)
    BY <1>1, <1>2, <2>1 DEF Paid
  <2> QED BY <1>1, <1>2, <2>1, <2>2, RequestPaidKeeps DEF To
<1>3. CASE /\ req[r].at = "path quota" /\ Grant(PathKey(Who[r]), PathCost(r))
           /\ Goes(r, [req[r] EXCEPT !.at = "token", !.charged = now])
  <2> DEFINE handler == [req[r] EXCEPT !.at = "token", !.charged = now]
  <2>1. now \in -1..Horizon /\ now >= 0
    BY BudgetAssumption DEF ChargeInv, QuotaTypeOK, Times
  <2>2. /\ handler \in Handler /\ handler.at = "token" /\ handler.charged = now
        /\ handler.sent = req[r].sent /\ handler.member = req[r].member
        /\ handler.queried = req[r].queried
    BY <1>1, <2>1 DEF Handler
  <2>3. Paid(handler) /\ req[r].charged = -1
    BY <1>1, <1>3, <2>1, <2>2 DEF Paid
  <2>4. Asks(handler) => Asks(req[r])
    BY <2>2 DEF Asks
  <2> QED BY <1>1, <1>3, <2>2, <2>3, <2>4, PathsPaidKeeps
<1>4. CASE \E k \in Keys, cost \in Nat : Refuse(k, cost) /\ Ends(r, "refused")
  <2>1. PICK k \in Keys, cost \in Nat : Refuse(k, cost) /\ Ends(r, "refused")
    BY <1>4
  <2>2. QuotaTypeOK' /\ DecisionSound' /\ UNCHANGED <<stored, spent>>
    BY <1>1, <2>1, RefuseTyped, RefuseDecides DEF ChargeInv, Refuse
  <2>3. "refused" \in Statuses
    BY DEF Statuses
  <2>4. /\ req' \in [Requests -> Handler] /\ \A q \in Requests : Paid(req'[q])
        /\ req'[r] = Ended(r, "refused") /\ \A q \in Requests : q # r => req'[q] = req[q]
    BY <1>1, <2>1, <2>3, EndPaid, OneGoes DEF Ends
  <2>5. \A q \in Requests :
          req'[q].charged = req[q].charged /\ (Asks(req'[q]) => Asks(req[q]))
    BY <2>3, <2>4, EndPaid
  <2> QED BY <1>1, <2>2, <2>4, <2>5, UnpaidKeeps
<1>5. 1 \in Nat /\ PathCost(r) \in Nat /\ RequestKey(Who[r]) \in Keys /\ PathKey(Who[r]) \in Keys
  BY KeysOf
<1> QED BY <1>2, <1>3, <1>4, <1>5 DEF ChargeRequest, ChargePaths

LEMMA LostKeepsCharges ==
  ASSUME ChargeInv, NEW r \in Requests, QuotaFails(r) \/ PathReplyLost(r) PROVE ChargeInv'
<1>1. UNCHANGED now /\ req[r] \in Handler /\ Paid(req[r]) /\ "failed" \in Statuses
  BY DEF QuotaFails, PathReplyLost, ChargeInv, Statuses
<1>2. CASE QuotaIdle /\ Fails(r)
  BY <1>1, <1>2, EndKeepsCharges DEF Fails
<1>3. CASE Grant(RequestKey(Who[r]), 1) /\ Fails(r)
  BY <1>1, <1>3, EndPaid, RequestPaidKeeps DEF Fails, Ends
<1>4. CASE /\ req[r].at = "path quota" /\ Grant(PathKey(Who[r]), PathCost(r))
           /\ Goes(r, [Ended(r, "failed") EXCEPT !.charged = now])
  <2> DEFINE handler == [Ended(r, "failed") EXCEPT !.charged = now]
  <2>1. now \in -1..Horizon /\ now >= 0
    BY BudgetAssumption DEF ChargeInv, QuotaTypeOK, Times
  <2>2. handler = [req[r] EXCEPT !.at = "ended", !.status = "failed", !.aborted = FALSE,
                                 !.charged = now]
    BY <1>1 DEF Ended, Handler
  <2>3. /\ handler \in Handler /\ handler.at = "ended" /\ handler.charged = now
        /\ handler.sent = req[r].sent /\ handler.member = req[r].member
        /\ handler.queried = req[r].queried
    BY <1>1, <2>1, <2>2 DEF Handler
  <2>4. Paid(handler) /\ req[r].charged = -1
    BY <1>1, <1>4, <2>1, <2>3 DEF Paid
  <2>5. Asks(handler) => Asks(req[r])
    BY <2>3 DEF Asks
  <2> QED BY <1>1, <1>4, <2>3, <2>4, <2>5, PathsPaidKeeps
<1> QED BY <1>2, <1>3, <1>4 DEF QuotaFails, PathReplyLost

LEMMA AdmittedKeepsCharges ==
  ASSUME ChargeInv, UNCHANGED now, QuotaIdle, NEW r \in Requests, Admitted(r),
         req[r].at \in {"match", "put"}
  PROVE  ChargeInv'
<1> DEFINE stale == now - lastUser[Who[r]] >= MembershipTtl + MaxLookup
           handler == [req[r] EXCEPT !.at = "body", !.asked = -1, !.member = TRUE, !.stale = stale]
<1>1. req[r] \in Handler /\ Paid(req[r]) /\ -1 \in -1..Horizon
  BY BudgetAssumption DEF ChargeInv
<1>2. stale \in BOOLEAN
  OBVIOUS
<1>3. Goes(r, handler)
  BY DEF Admitted
<1> HIDE DEF stale
<1>4. /\ handler \in Handler /\ handler.at = "body" /\ handler.charged = req[r].charged
      /\ handler.sent = req[r].sent /\ handler.member /\ handler.queried = req[r].queried
  BY <1>1, <1>2 DEF Handler
<1>5. Asks(handler) => Asks(req[r])
  BY <1>4 DEF Asks
<1> QED BY <1>3, <1>4, <1>5, MoveKeepsCharges

LEMMA MatchKeepsCharges == ASSUME ChargeInv, NEW r \in Requests, Match(r) PROVE ChargeInv'
<1>1. UNCHANGED now /\ QuotaIdle /\ req[r].at = "match" /\ req[r] \in Handler
  BY DEF Match, ChargeInv
<1>2. CASE Admitted(r)
  BY <1>1, <1>2, AdmittedKeepsCharges
<1>3. CASE Goes(r, [req[r] EXCEPT !.at = "lookup"])
  <2> DEFINE handler == [req[r] EXCEPT !.at = "lookup"]
  <2>1. /\ handler \in Handler /\ handler.at = "lookup" /\ handler.charged = req[r].charged
        /\ handler.sent = req[r].sent
    BY <1>1 DEF Handler
  <2>2. Asks(req[r])
    BY <1>1 DEF Asks
  <2> QED BY <1>1, <1>3, <2>1, <2>2, MoveKeepsCharges
<1> QED BY <1>2, <1>3 DEF Match

LEMMA LookUpKeepsCharges == ASSUME ChargeInv, NEW r \in Requests, LookUp(r) PROVE ChargeInv'
<1>1. UNCHANGED now /\ QuotaIdle /\ req[r].at = "lookup" /\ req[r] \in Handler /\ Paid(req[r])
  BY DEF LookUp, ChargeInv
<1>2. Asks(req[r])
  BY <1>1 DEF Asks
<1>3. CASE Goes(r, [[req[r] EXCEPT !.at = "put", !.asked = now] EXCEPT !.queried = TRUE])
  <2> DEFINE handler == [[req[r] EXCEPT !.at = "put", !.asked = now] EXCEPT !.queried = TRUE]
  <2>1. now \in -1..Horizon
    BY BudgetAssumption DEF ChargeInv, QuotaTypeOK, Times
  <2>2. /\ handler \in Handler /\ handler.at = "put" /\ handler.charged = req[r].charged
        /\ handler.sent = req[r].sent
    BY <1>1, <2>1 DEF Handler
  <2> QED BY <1>1, <1>2, <1>3, <2>2, MoveKeepsCharges
<1>4. ASSUME NEW status \in Statuses, Goes(r, [Ended(r, status) EXCEPT !.queried = TRUE])
      PROVE  ChargeInv'
  <2> DEFINE handler == [Ended(r, status) EXCEPT !.queried = TRUE]
  <2>1. handler = [req[r] EXCEPT !.at = "ended", !.status = status, !.aborted = FALSE,
                                 !.queried = TRUE]
    BY <1>1 DEF Ended, Handler
  <2>2. /\ handler \in Handler /\ handler.at = "ended" /\ handler.charged = req[r].charged
        /\ handler.sent = req[r].sent /\ handler.member = req[r].member
    BY <1>1, <2>1 DEF Handler
  <2>3. Paid(handler)
    BY <1>1, <2>2 DEF Paid
  <2> QED BY <1>1, <1>2, <1>4, <2>2, <2>3, QuietKeepsCharges
<1>5. {"stranger", "failed"} \subseteq Statuses
  BY DEF Statuses
<1> QED BY <1>3, <1>4, <1>5 DEF LookUp

LEMMA PutKeepsCharges == ASSUME ChargeInv, NEW r \in Requests, Put(r) PROVE ChargeInv'
BY AdmittedKeepsCharges DEF Put

LEMMA ServedKeepsCharges ==
  ASSUME ChargeInv, NEW r \in Requests,
         Validate(r) \/ Fetch(r) \/ RustAnswers(r) \/ RustAborted(r)
  PROVE  ChargeInv'
<1>1. UNCHANGED now /\ QuotaIdle /\ req[r] \in Handler /\ Paid(req[r])
      /\ {"done", "refused", "failed"} \subseteq Statuses
  BY DEF Validate, Fetch, RustAnswers, RustAborted, ChargeInv, Statuses
<1>2. CASE Ends(r, "done") \/ Ends(r, "refused") \/ Fails(r)
  BY <1>1, <1>2, EndKeepsCharges DEF Fails
<1>3. CASE req[r].at = "body" /\ To(r, "path quota")
  <2> DEFINE handler == [req[r] EXCEPT !.at = "path quota"]
  <2>1. /\ handler \in Handler /\ handler.at = "path quota" /\ handler.charged = req[r].charged
        /\ handler.sent = req[r].sent /\ handler.member = req[r].member
        /\ handler.queried = req[r].queried
    BY <1>1 DEF Handler
  <2>2. handler.member
    BY <1>1, <1>3, <2>1 DEF Paid
  <2>3. Asks(handler) => Asks(req[r])
    BY <2>1 DEF Asks
  <2> QED BY <1>1, <1>3, <2>1, <2>2, <2>3, MoveKeepsCharges DEF To
<1>4. CASE req[r].at = "token" /\ Goes(r, [req[r] EXCEPT !.at = "rust", !.sent = TRUE])
  <2> DEFINE handler == [req[r] EXCEPT !.at = "rust", !.sent = TRUE]
  <2>1. /\ handler \in Handler /\ handler.at = "rust" /\ handler.charged = req[r].charged
        /\ handler.member = req[r].member /\ handler.queried = req[r].queried
    BY <1>1 DEF Handler
  <2>2. Paid(handler)
    BY <1>1, <1>4, <2>1 DEF Paid
  <2>3. Asks(handler) => Asks(req[r])
    BY <2>1 DEF Asks
  <2> QED BY <1>1, <1>4, <2>1, <2>2, <2>3, QuietKeepsCharges
<1> QED BY <1>2, <1>3, <1>4 DEF Validate, Fetch, RustAnswers, RustAborted

LEMMA LeavesKeepsCharges ==
  ASSUME ChargeInv, NEW r \in Requests, CallerLeaves(r) PROVE ChargeInv'
<1>1. UNCHANGED now /\ QuotaIdle /\ req[r] \in Handler /\ Paid(req[r])
  BY DEF CallerLeaves, ChargeInv
<1> DEFINE handler == [req[r] EXCEPT !.aborted = TRUE]
<1>2. Goes(r, handler)
  BY DEF CallerLeaves, Goes
<1>3. /\ handler \in Handler /\ handler.at = req[r].at /\ handler.charged = req[r].charged
      /\ handler.sent = req[r].sent /\ handler.member = req[r].member
      /\ handler.queried = req[r].queried
  BY <1>1 DEF Handler
<1>4. Paid(handler) /\ (Asks(handler) => Asks(req[r]))
  BY <1>1, <1>3 DEF Paid, Asks
<1> QED BY <1>1, <1>2, <1>3, <1>4, QuietKeepsCharges

LEMMA AroundKeepsCharges ==
  ASSUME ChargeInv, NEW u \in Uids, Register(u) \/ Remove(u) PROVE ChargeInv'
<1>1. /\ QuotaIdle /\ UNCHANGED now /\ req' \in [Requests -> Handler]
      /\ \A r \in Requests :
           /\ req'[r].at = req[r].at /\ req'[r].charged = req[r].charged
           /\ req'[r].sent = req[r].sent /\ req'[r].member = req[r].member
           /\ req'[r].queried = req[r].queried
  <2>1. CASE req' = req
    BY <2>1 DEF ChargeInv, Register, Remove
  <2>2. CASE Remove(u)
    <3>1. req' = [r \in Requests |->
                    IF Who[r] = u THEN [req[r] EXCEPT !.absent = TRUE] ELSE req[r]]
      BY <2>2 DEF Remove
    <3>2. \A r \in Requests : req[r] \in Handler
      BY DEF ChargeInv
    <3>3. ASSUME NEW r \in Requests
          PROVE  /\ req'[r] \in Handler
                 /\ req'[r].at = req[r].at /\ req'[r].charged = req[r].charged
                 /\ req'[r].sent = req[r].sent /\ req'[r].member = req[r].member
                 /\ req'[r].queried = req[r].queried
      <4>1. CASE Who[r] = u
        <5>1. req'[r] = [req[r] EXCEPT !.absent = TRUE] /\ req[r] \in Handler
          BY <3>1, <3>2, <4>1
        <5> QED BY <5>1 DEF Handler
      <4>2. CASE Who[r] # u
        BY <3>1, <3>2, <4>2
      <4> QED BY <4>1, <4>2
    <3> QED BY <2>2, <3>1, <3>3 DEF Remove
  <2> QED BY <2>1, <2>2 DEF Register, Remove
<1>2. QuotaTypeOK' /\ DecisionSound' /\ UNCHANGED <<stored, spent>>
  BY <1>1, IdleTyped DEF ChargeInv, QuotaIdle, DecisionSound
<1>3. \A r \in Requests : Paid(req'[r])
  BY <1>1 DEF ChargeInv, Paid
<1>4. \A r \in Requests : Asks(req'[r]) => Asks(req[r])
  BY <1>1 DEF Asks
<1> QED BY <1>1, <1>2, <1>3, <1>4, UnpaidKeeps

(* The alarm and the clock touch neither the handlers nor the grants.         *)
LEMMA ChargesRest ==
  ASSUME ChargeInv, UNCHANGED <<spent, req>>, QuotaTypeOK', DecisionSound',
         \A k \in Keys : KeyInv(k)'
  PROVE  ChargeInv'
<1>1. (\A u, times : ChargedIn(u, times)' = ChargedIn(u, times)) /\ \A u : Asking(u)' = Asking(u)
  BY DEF ChargedIn, Asking
<1> QED BY <1>1 DEF ChargeInv, PathsPaid, QueriesPaid, PathsOf, Times

LEMMA AlarmKeepsCharges == ASSUME ChargeInv, Alarm PROVE ChargeInv'
<1>1. QuotaTypeOK' /\ DecisionSound' /\ UNCHANGED <<spent, req>> /\ alarm
  BY AlarmTyped DEF Alarm, alarm, ChargeInv, DecisionSound
<1> QED BY <1>1, AlarmKeepsKey, ChargesRest DEF ChargeInv

LEMMA TickKeepsCharges == ASSUME ChargeInv, Tick PROVE ChargeInv'
<1>1. /\ now < Horizon /\ now' = now + 1 /\ UNCHANGED <<stored, spent, alarmAt, req>>
      /\ decision' = <<>>
  BY DEF Tick, QuotaIdle
<1>2. QuotaTypeOK'
  BY <1>1, BudgetAssumption DEF ChargeInv, QuotaTypeOK, Times
<1>3. \A k \in Keys : KeyInv(k)'
  BY <1>1, TickKeepsKey DEF ChargeInv
<1> QED BY <1>1, <1>2, <1>3, ChargesRest DEF DecisionSound

LEMMA InitCharges == ASSUME Init PROVE ChargeInv
<1>1. EdgeInv
  BY InitSound
<1>2. QuotaTypeOK /\ DecisionSound /\ \A k \in Keys : KeyInv(k)
  BY <1>1, InitKey DEF EdgeInv, Init, QuotaInit, DecisionSound
<1>3. req \in [Requests -> Handler]
  BY <1>1 DEF EdgeInv, Sound
<1>4. \A r \in Requests : /\ req[r].at = "idle" /\ req[r].charged = -1
                          /\ ~req[r].sent /\ ~req[r].member /\ ~req[r].queried
  BY DEF Init
<1>5. \A r \in Requests : Paid(req[r]) /\ ~Asks(req[r])
  BY <1>4, NotYet DEF Paid, Asks
<1>6. ASSUME NEW k \in Keys, NEW times PROVE Total(spent[k], times \cap Times) = 0
  <2>1. \A t \in times \cap Times : spent[k][t] = 0
    BY DEF Init, QuotaInit
  <2>2. Tallies(spent[k], times \cap Times) = {}
    BY <2>1 DEF Tallies
  <2> QED BY <2>2, FS_EmptySet DEF Total
<1>7. PathsPaid
  <2> SUFFICES ASSUME NEW u \in Uids, NEW times \in SUBSET Times
               PROVE  PathsOf(ChargedIn(u, times)) = Total(spent[PathKey(u)], times)
    BY DEF PathsPaid
  <2>1. ChargedIn(u, times) = {}
    BY <1>4 DEF ChargedIn, Times
  <2>2. Tallies(Paths, {}) = {}
    BY DEF Tallies
  <2>3. PathsOf({}) = 0
    BY <2>2, FS_EmptySet DEF PathsOf, Total
  <2>4. times \cap Times = times /\ PathKey(u) \in Keys
    BY KeysApart
  <2> QED BY <1>6, <2>1, <2>3, <2>4
<1>8. QueriesPaid
  <2> SUFFICES ASSUME NEW u \in Uids
               PROVE  Cardinality(Asking(u)) <= Total(spent[RequestKey(u)], Times)
    BY DEF QueriesPaid
  <2>1. Asking(u) = {}
    BY <1>5 DEF Asking
  <2>2. Times \cap Times = Times /\ RequestKey(u) \in Keys
    BY KeysApart
  <2>3. Total(spent[RequestKey(u)], Times) = 0
    BY <1>6, <2>2
  <2> QED BY <2>1, <2>3, FS_EmptySet
<1> QED BY <1>2, <1>3, <1>5, <1>7, <1>8 DEF ChargeInv

LEMMA StepCharges == ASSUME ChargeInv, [Next]_vars PROVE ChargeInv'
<1>1. CASE UNCHANGED vars
  <2>1. UNCHANGED <<now, stored, alarmAt, decision, spent, req>>
    BY <1>1 DEF vars, objectVars
  <2>2. QuotaTypeOK'
    BY <2>1 DEF ChargeInv, QuotaTypeOK, Times
  <2>3. DecisionSound'
    BY <2>1 DEF ChargeInv, DecisionSound, Window
  <2>4. \A k \in Keys : KeyInv(k)'
    BY <2>1, KeyRests DEF ChargeInv
  <2> QED BY <2>1, <2>2, <2>3, <2>4, ChargesRest
<1>2. ASSUME NEW r \in Requests, Handle(r) PROVE ChargeInv'
  BY <1>2, BeginKeepsCharges, ChargeKeepsCharges, LostKeepsCharges, MatchKeepsCharges,
     LookUpKeepsCharges, PutKeepsCharges, ServedKeepsCharges DEF Handle
<1>3. ASSUME NEW r \in Requests, RustAnswers(r) \/ RustAborted(r) \/ CallerLeaves(r)
      PROVE  ChargeInv'
  BY <1>3, ServedKeepsCharges, LeavesKeepsCharges
<1>4. ASSUME NEW u \in Unsettled, Register(u) \/ Remove(u) PROVE ChargeInv'
  BY <1>4, EdgeAssumption, AroundKeepsCharges
<1>5. CASE Alarm \/ Tick
  BY <1>5, AlarmKeepsCharges, TickKeepsCharges
<1> QED BY <1>1, <1>2, <1>3, <1>4, <1>5 DEF Next

(* The promises of the budgets, for any requests, identities, limits, window  *)
(* and horizon: however the handlers, replies lost, alarms and the clock      *)
(* interleave, no window an identity opens holds more than its budget         *)
(* (quota-counter.ts:6), nothing is spent on a refusal, a refusal is told the *)
(* truth, the paths that reach the Rust service are paid for exactly once,    *)
(* and no identity makes more membership queries than it has granted requests *)
(* (simulation-routes.ts:66).                                                *)
THEOREM BudgetsAreKept == Spec => []Budgeted
<1>1. Init => ChargeInv
  BY InitCharges
<1>2. ChargeInv /\ [Next]_vars => ChargeInv'
  BY StepCharges
<1>3. ChargeInv => Budgeted
  BY ChargedIsBudgeted
<1> QED BY <1>1, <1>2, <1>3, PTL DEF Spec

-----------------------------------------------------------------------------
(* Identity tokens *)

Pcs == {"idle", "joined", "minting", "calling", "done", "failed"}
EdgeStates == {"none", "matching", "exchanging", "storing", "minted", "failed"}
OriginStates == {"none", "pending", "minted", "failed"}

CallRecord == [pc : Pcs, key : 0 .. LastKey, since : Nat, of : Calls \cup {Nothing}]
MintRecord == [state : EdgeStates \cup OriginStates, key : Int, expires : Int]
Memo == [key : Int, of : Calls]
CachedToken == [key : Int, expires : Int, until : Int]

TokenTyped ==
  /\ host \in [Calls -> Isolates \cup {Origin}] /\ clock \in Nat /\ faults \in Nat
  /\ deployed \in 1 .. LastKey /\ signingKey \in [Isolates -> Nat]
  /\ current \in [Isolates -> {Nothing} \cup Memo] /\ client \subseteq Calls
  /\ tokens \in [1 .. LastKey -> {Nothing} \cup CachedToken]
  /\ mint \in [Calls -> MintRecord] /\ call \in [Calls -> CallRecord]

(* A request that began belongs to one that began, its own or one it joined. *)
Belongs(r) ==
  call[r].pc # "idle" =>
    /\ call[r].of \in Calls /\ call[call[r].of].pc # "idle" /\ call[r].since <= faults
    /\ call[r].key \in 1 .. LastKey
    /\ (host[r] = Origin) <=> (host[call[r].of] = Origin)

(* What a request fails for happened while it ran. *)
FailsFresh(r) ==
  /\ call[r].pc = "failed" => faults > call[r].since
  /\ call[r].pc = "minting" /\ mint[r].state = "failed" => faults > call[r].since
  /\ call[r].pc = "joined" /\ host[r] = Origin /\ mint[call[r].of].state = "failed" =>
       faults > call[r].since

(* At the edge: a mint works for the key of its request, and is usable when  *)
(* it settles; a request shares its key with the one it joined.              *)
EdgeSound(r) ==
  host[r] \in Isolates =>
    /\ mint[r].state \in EdgeStates
    /\ call[r].pc # "idle" => call[call[r].of].key = call[r].key
    /\ call[r].pc \in {"idle", "joined"} => mint[r].state = "none"
    /\ call[r].pc = "minting" => call[r].of = r
    /\ mint[r].state \in {"storing", "minted"} => mint[r].key = call[r].key
    /\ mint[r].state = "storing" => usableToken(mint[r].expires)
    /\ call[r].pc = "minting" /\ mint[r].state = "minted" => usableToken(mint[r].expires)
    /\ call[r].pc = "calling" =>
         mint[call[r].of].state = "minted" /\ usableToken(mint[call[r].of].expires)

(* At the origin a request that creates a client waits for it first.         *)
OriginSound(r) ==
  host[r] = Origin =>
    /\ mint[r].state \in OriginStates /\ call[r].pc # "minting"
    /\ call[r].pc = "idle" => mint[r].state = "none"
    /\ mint[r].state = "pending" => call[r].pc = "joined" /\ call[r].of = r

RequestSound(r) == Belongs(r) /\ FailsFresh(r) /\ EdgeSound(r) /\ OriginSound(r)

MemoSound(i) ==
  current[i] # Nothing =>
    /\ host[current[i].of] \in Isolates /\ call[current[i].of].pc # "idle"
    /\ call[current[i].of].key = current[i].key

(* The client that fails is dropped by the request that made it, at once.    *)
ClientSound(c) ==
  /\ host[c] = Origin /\ call[c].pc # "idle"
  /\ mint[c].state = "failed" => call[c].pc = "joined" /\ call[c].of = c

TokenInv ==
  /\ TokenTyped
  /\ \A r \in Calls : RequestSound(r)
  /\ \A i \in Isolates : MemoSound(i)
  /\ \A k \in 1 .. LastKey : tokens[k] # Nothing => tokens[k].key = k
  /\ \A c \in client : ClientSound(c)

(* The fields of a step's call and mint. *)
LEMMA TokenFields ==
  ASSUME TokenTyped, NEW r \in Calls
  PROVE  /\ call[r].pc \in Pcs /\ call[r].key \in 0 .. LastKey /\ call[r].since \in Nat
         /\ call[r].of \in Calls \cup {Nothing}
         /\ mint[r].state \in EdgeStates \cup OriginStates
         /\ mint[r].key \in Int /\ mint[r].expires \in Int
BY DEF TokenTyped, CallRecord, MintRecord

(* What one request does between two ticks of the clock disturbs no other    *)
(* request as long as it goes on, keeps its key and a token it obtained, and *)
(* fails for something that failed just then.                                *)
Undisturbed(r) ==
  /\ UNCHANGED <<host, clock>> /\ faults' \in Nat /\ faults' >= faults
  /\ \A x \in Calls \ {r} : call'[x] = call[x] /\ mint'[x] = mint[x]
  /\ call[r].pc # "idle" => call'[r].pc # "idle" /\ call'[r].key = call[r].key
  /\ mint[r].state = "minted" => mint'[r] = mint[r]
  /\ mint'[r].state = "failed" => mint[r].state = "failed" \/ faults' > faults

LEMMA OthersStaySound ==
  ASSUME TokenInv, NEW r \in Calls, Undisturbed(r), RequestSound(r)'
  PROVE  /\ \A x \in Calls : RequestSound(x)'
         /\ current' = current => \A i \in Isolates : MemoSound(i)'
         /\ \A c \in client : c # r => ClientSound(c)'
<1>1. TokenTyped BY DEF TokenInv
<1>2. ASSUME NEW x \in Calls, x # r PROVE RequestSound(x)'
  <2>1. /\ RequestSound(x) /\ RequestSound(r) /\ call'[x] = call[x] /\ mint'[x] = mint[x]
        /\ host' = host /\ clock' = clock /\ faults' \in Nat /\ faults' >= faults
    BY <1>2 DEF TokenInv, Undisturbed
  <2>2. call[x].since \in Nat /\ faults \in Nat /\ clock \in Nat
    BY <1>1, TokenFields DEF TokenTyped
  <2>3. call[x].pc # "idle" =>
          /\ call[x].of \in Calls /\ call'[call[x].of].pc # "idle"
          /\ call'[call[x].of].key = call[call[x].of].key
    BY <2>1 DEF Undisturbed, RequestSound, Belongs
  <2>4. Belongs(x)' BY <2>1, <2>2, <2>3 DEF RequestSound, Belongs
  <2>5. FailsFresh(x)'
    BY <2>1, <2>2, <2>3 DEF RequestSound, Belongs, FailsFresh, Undisturbed
  <2>6. EdgeSound(x)'
    BY <2>1, <2>2, <2>3 DEF RequestSound, Belongs, EdgeSound, Undisturbed, usableToken
  <2>7. OriginSound(x)' BY <2>1 DEF RequestSound, OriginSound
  <2> QED BY <2>4, <2>5, <2>6, <2>7 DEF RequestSound
<1>3. ASSUME current' = current, NEW i \in Isolates PROVE MemoSound(i)'
  <2>1. MemoSound(i) /\ host' = host BY DEF TokenInv, Undisturbed
  <2>2. current[i] # Nothing => current[i].of \in Calls BY <1>1 DEF TokenTyped, Memo
  <2> QED BY <1>3, <2>1, <2>2 DEF MemoSound, Undisturbed
<1>4. ASSUME NEW c \in client, c # r PROVE ClientSound(c)'
  <2>1. ClientSound(c) /\ c \in Calls /\ host' = host BY <1>1 DEF TokenInv, Undisturbed, TokenTyped
  <2> QED BY <1>4, <2>1 DEF ClientSound, Undisturbed
<1> QED BY <1>2, <1>3, <1>4


LEMMA TokenInitSound == ASSUME TokenAssumption, TokenInit PROVE TokenInv
<1>1. TokenTyped
  <2>1. NoCall \in CallRecord /\ NoMint \in MintRecord
    BY TokenAssumption DEF NoCall, NoMint, CallRecord, MintRecord, Pcs, EdgeStates
  <2> QED BY <2>1, TokenAssumption DEF TokenInit, TokenTyped
<1>2. \A r \in Calls : RequestSound(r)
  BY DEF TokenInit, RequestSound, Belongs, FailsFresh, EdgeSound, OriginSound, NoCall, NoMint,
         EdgeStates, OriginStates
<1>3. (\A i \in Isolates : MemoSound(i)) /\ (\A c \in client : ClientSound(c))
      /\ \A k \in 1 .. LastKey : tokens[k] = Nothing
  BY DEF TokenInit, MemoSound
<1> QED BY <1>1, <1>2, <1>3 DEF TokenInv

(* A mint of a request's own, begun as it starts or after the one it joined  *)
(* turned out to be of no use.                                               *)
LEMMA BeginMintSound ==
  ASSUME TokenInv, NEW r \in Calls, NEW q \in CallRecord, host[r] \in Isolates,
         Origin \notin Isolates,
         q.key \in 1 .. LastKey, q.since <= faults, call[r].pc \in {"idle", "joined"},
         call[r].pc # "idle" => q.key = call[r].key,
         BeginMint(r, q), UNCHANGED <<host, clock, deployed, signingKey, client, tokens, faults>>
  PROVE  TokenInv'
<1>1. TokenTyped /\ RequestSound(r) /\ mint[r].state = "none"
  BY DEF TokenInv, RequestSound, EdgeSound
<1> DEFINE c == [q EXCEPT !.pc = "minting", !.of = r]
           m == [NoMint EXCEPT !.state = "matching"]
           e == [key |-> q.key, of |-> r]
<1>2. /\ c \in CallRecord /\ c.pc = "minting" /\ c.of = r /\ c.key = q.key /\ c.since = q.since
      /\ m \in MintRecord /\ m.state = "matching"
      /\ e \in Memo /\ e.key = q.key /\ e.of = r
  <2>1. q.key \in Int OBVIOUS
  <2>2. c \in CallRecord /\ c.pc = "minting" /\ c.of = r /\ c.key = q.key /\ c.since = q.since
    BY DEF CallRecord, Pcs
  <2>3. m \in MintRecord /\ m.state = "matching" BY DEF MintRecord, NoMint, EdgeStates
  <2>4. e \in Memo /\ e.key = q.key /\ e.of = r BY <2>1 DEF Memo
  <2> QED BY <2>2, <2>3, <2>4
<1>3. /\ call' = [call EXCEPT ![r] = c] /\ mint' = [mint EXCEPT ![r] = m]
      /\ current' = [current EXCEPT ![host[r]] = e]
  BY DEF BeginMint
<1> HIDE DEF c, m, e
<1>4. TokenTyped' BY <1>1, <1>2, <1>3 DEF TokenTyped
<1>5. call'[r] = c /\ mint'[r] = m BY <1>1, <1>3 DEF TokenTyped
<1>6. Undisturbed(r) BY <1>1, <1>2, <1>3, <1>5 DEF Undisturbed, TokenTyped
<1>7. RequestSound(r)'
  BY <1>1, <1>2, <1>5 DEF RequestSound, Belongs, FailsFresh, EdgeSound, OriginSound, EdgeStates
<1>8. \A x \in Calls : RequestSound(x)' BY <1>6, <1>7, OthersStaySound
<1>9. ASSUME NEW i \in Isolates PROVE MemoSound(i)'
  <2>1. CASE i = host[r]
    <3>1. current'[i] = e BY <1>1, <1>3, <2>1 DEF TokenTyped
    <3> QED BY <1>2, <1>5, <2>1, <3>1 DEF MemoSound
  <2>2. CASE i # host[r]
    <3>1. current'[i] = current[i] /\ host' = host BY <1>1, <1>3, <2>2 DEF TokenTyped
    <3>2. MemoSound(i) /\ (current[i] # Nothing => current[i].of \in Calls)
      BY <1>1 DEF TokenInv, TokenTyped, Memo
    <3> QED BY <1>6, <3>1, <3>2 DEF MemoSound, Undisturbed
  <2> QED BY <2>1, <2>2
<1>10. ASSUME NEW x \in client PROVE ClientSound(x)'
  <2>1. x # r BY DEF TokenInv, ClientSound
  <2> QED BY <1>6, <1>7, <2>1, OthersStaySound
<1>11. \A k \in 1 .. LastKey : tokens'[k] # Nothing => tokens'[k].key = k BY DEF TokenInv
<1> QED BY <1>4, <1>8, <1>9, <1>10, <1>11 DEF TokenInv

(* A step that changes the call and the mint of one request at most, and     *)
(* drops clients but makes none.                                             *)
LEMMA RequestStepSound ==
  ASSUME TokenInv, NEW r \in Calls, TokenTyped', Undisturbed(r), RequestSound(r)',
         UNCHANGED <<current, tokens>>, client' \subseteq client,
         r \in client' => ClientSound(r)'
  PROVE  TokenInv'
<1>1. /\ \A x \in Calls : RequestSound(x)' /\ \A i \in Isolates : MemoSound(i)'
      /\ \A c \in client : c # r => ClientSound(c)'
  BY OthersStaySound
<1> QED BY <1>1 DEF TokenInv

LEMMA StartedFields ==
  ASSUME TokenTyped, TokenAssumption, NEW r \in Calls, NEW o \in Calls
  PROVE  LET s == [Started(r) EXCEPT !.of = o] IN
         /\ s \in CallRecord /\ Started(r) \in CallRecord
         /\ s.pc = "joined" /\ s.key = deployed /\ s.since = faults /\ s.of = o
         /\ Started(r).pc = "joined" /\ Started(r).key = deployed /\ Started(r).since = faults
         /\ Started(r).of = r
<1>1. deployed \in 0 .. LastKey /\ faults \in Nat BY TokenAssumption DEF TokenTyped
<1> QED BY <1>1 DEF Started, CallRecord, Pcs

(* googleIdToken *)
LEMMA GoogleIdTokenSound ==
  ASSUME TokenInv, TokenAssumption, NEW r \in Calls, googleIdToken(r)
  PROVE  TokenInv'
<1>1. TokenTyped /\ RequestSound(r) /\ Origin \notin Isolates /\ call[r].pc = "idle"
      /\ host[r] \in Isolates /\ mint[r].state = "none" /\ deployed \in 1 .. LastKey /\ faults \in Nat
  BY TokenAssumption DEF TokenInv, googleIdToken, RequestSound, EdgeSound, TokenTyped
<1>2. CASE Remembers(r)
  <2>1. current[host[r]].of \in Calls /\ MemoSound(host[r])
        /\ current[host[r]] # Nothing /\ current[host[r]].key = deployed
    BY <1>1, <1>2 DEF TokenTyped, Memo, Remembers, TokenInv
  <2> DEFINE o == current[host[r]].of
             s == [Started(r) EXCEPT !.of = o]
  <2>2. s \in CallRecord /\ s.pc = "joined" /\ s.key = deployed /\ s.since = faults /\ s.of = o
    BY <1>1, <2>1, StartedFields
  <2>3. call' = [call EXCEPT ![r] = s] /\ UNCHANGED <<host, clock, deployed, memos, tokens, mint, faults>>
    BY <1>2 DEF googleIdToken, memos
  <2>4. o # r /\ host[o] \in Isolates /\ call[o].pc # "idle" /\ call[o].key = deployed
    BY <1>1, <2>1 DEF MemoSound
  <2> HIDE DEF s
  <2>5. TokenTyped' BY <1>1, <2>2, <2>3 DEF TokenTyped, memos
  <2>6. call'[r] = s /\ call'[o] = call[o] BY <1>1, <2>1, <2>3, <2>4 DEF TokenTyped
  <2>7. Undisturbed(r) BY <1>1, <2>3 DEF Undisturbed, TokenTyped
  <2>8. RequestSound(r)'
    BY <1>1, <2>1, <2>2, <2>3, <2>4, <2>6
    DEF RequestSound, Belongs, FailsFresh, EdgeSound, OriginSound, EdgeStates
  <2>9. r \notin client BY <1>1 DEF TokenInv, ClientSound
  <2> QED BY <2>3, <2>5, <2>7, <2>8, <2>9, RequestStepSound DEF memos
<1>3. CASE ~Remembers(r)
  <2>1. Started(r) \in CallRecord /\ Started(r).key = deployed /\ Started(r).since = faults
    BY <1>1, StartedFields
  <2>2. BeginMint(r, Started(r)) /\ UNCHANGED <<host, clock, deployed, signingKey, client, tokens, faults>>
    BY <1>3 DEF googleIdToken
  <2> QED BY <1>1, <2>1, <2>2, BeginMintSound
<1> QED BY <1>2, <1>3

(* Joined *)
LEMMA JoinedSound ==
  ASSUME TokenInv, TokenAssumption, NEW r \in Calls, Joined(r)
  PROVE  TokenInv'
<1>1. TokenTyped /\ RequestSound(r) /\ Origin \notin Isolates /\ call[r].pc = "joined"
      /\ host[r] \in Isolates
      /\ UNCHANGED <<host, clock, deployed, signingKey, client, tokens, faults>>
  BY TokenAssumption DEF TokenInv, Joined
<1> DEFINE o == call[r].of
<1>2. CASE mint[o].state = "minted" /\ usableToken(mint[o].expires)
  <2>1. call' = [call EXCEPT ![r].pc = "calling"] /\ UNCHANGED <<mint, current>>
    BY <1>2 DEF Joined
  <2>2. PICK s : s = [call[r] EXCEPT !.pc = "calling"] OBVIOUS
  <2>3. s \in CallRecord /\ s.pc = "calling" /\ s.key = call[r].key /\ s.since = call[r].since /\ s.of = o
    BY <1>1, <2>2 DEF TokenTyped, CallRecord, Pcs
  <2>4. call' = [call EXCEPT ![r] = s] BY <2>1, <2>2
  <2>5. TokenTyped' BY <1>1, <2>1, <2>3, <2>4 DEF TokenTyped
  <2>6. call'[r] = s BY <1>1, <2>4 DEF TokenTyped
  <2>7. Undisturbed(r) BY <1>1, <2>1, <2>3, <2>4, <2>6 DEF Undisturbed, TokenTyped
  <2>8. o \in Calls /\ call'[o].pc # "idle" /\ call'[o].key = call[o].key
    BY <1>1, <2>7 DEF RequestSound, Belongs, Undisturbed
  <2>9. RequestSound(r)'
    BY <1>1, <1>2, <2>1, <2>3, <2>6, <2>8
    DEF RequestSound, Belongs, FailsFresh, EdgeSound, OriginSound, usableToken
  <2>10. r \notin client BY <1>1 DEF TokenInv, ClientSound
  <2> QED BY <1>1, <2>1, <2>5, <2>7, <2>9, <2>10, RequestStepSound
<1>3. CASE ~(mint[o].state = "minted" /\ usableToken(mint[o].expires))
  <2>1. BeginMint(r, call[r]) BY <1>3 DEF Joined
  <2>2. call[r] \in CallRecord /\ call[r].key \in 1 .. LastKey /\ call[r].since <= faults
    BY <1>1 DEF RequestSound, Belongs, TokenTyped
  <2> QED BY <1>1, <2>1, <2>2, BeginMintSound
<1> QED BY <1>2, <1>3


(* A mint at the edge moves on, or settles, as m. *)
EdgeMints(r, m) ==
  /\ mint[r].state \in {"matching", "exchanging", "storing"}
  /\ m \in MintRecord /\ m.state \in {"exchanging", "storing", "minted", "failed"}
  /\ m.state \in {"storing", "minted"} => m.key = call[r].key /\ usableToken(m.expires)
  /\ m.state = "failed" => faults' > faults
  /\ faults' \in Nat /\ faults' >= faults
  /\ mint' = [mint EXCEPT ![r] = m] /\ signingKey' \in [Isolates -> Nat]
  /\ tokens' \in [1 .. LastKey -> {Nothing} \cup CachedToken]
  /\ \A k \in 1 .. LastKey : tokens'[k] # Nothing => tokens'[k].key = k
  /\ UNCHANGED <<host, clock, deployed, current, client, call>>

LEMMA EdgeMintSound ==
  ASSUME TokenInv, TokenAssumption, NEW r \in Calls, NEW m, EdgeMints(r, m)
  PROVE  TokenInv'
<1> USE DEF EdgeMints
<1>1. TokenTyped /\ RequestSound(r) BY DEF TokenInv
<1>2. host[r] \in Isolates /\ host[r] # Origin
  BY <1>1, TokenAssumption DEF TokenTyped, RequestSound, OriginSound, OriginStates
<1>3. TokenTyped' BY <1>1 DEF TokenTyped
<1>4. mint'[r] = m BY <1>1 DEF TokenTyped
<1>5. Undisturbed(r) BY <1>1, <1>4 DEF Undisturbed, TokenTyped
<1>6. Belongs(r)'
  <2>1. call[r].pc # "idle" => call[r].since \in Nat BY <1>1, TokenFields
  <2> QED BY <1>1, <2>1 DEF RequestSound, Belongs, TokenTyped
<1>7. FailsFresh(r)'
  <2>1. call[r].since \in Nat /\ faults \in Nat BY <1>1, TokenFields DEF TokenTyped
  <2> QED BY <1>1, <1>2, <1>4, <2>1 DEF RequestSound, Belongs, FailsFresh, EdgeSound
<1>8. EdgeSound(r)'
  <2>1. /\ call[r].pc # "idle" => call[call[r].of].key = call[r].key
        /\ call[r].pc \notin {"idle", "joined"}
        /\ call[r].pc = "minting" => call[r].of = r
    BY <1>1, <1>2 DEF RequestSound, EdgeSound
  <2>2. call[r].pc = "calling" =>
          call[r].of \in Calls /\ call[r].of # r /\ mint[call[r].of].state = "minted"
            /\ usableToken(mint[call[r].of].expires)
    BY <1>1, <1>2 DEF RequestSound, Belongs, EdgeSound
  <2>3. call[r].pc = "calling" => mint'[call[r].of] = mint[call[r].of]
    BY <2>2 DEF TokenTyped
  <2> QED BY <1>4, <2>1, <2>2, <2>3 DEF EdgeSound, EdgeStates, usableToken
<1>9. OriginSound(r)' BY <1>2 DEF OriginSound
<1>10. RequestSound(r)' BY <1>6, <1>7, <1>8, <1>9 DEF RequestSound
<1>11. /\ \A x \in Calls : RequestSound(x)' /\ \A i \in Isolates : MemoSound(i)'
       /\ \A c \in client : c # r => ClientSound(c)'
  BY <1>5, <1>10, OthersStaySound
<1>12. r \notin client BY <1>2 DEF TokenInv, ClientSound
<1> QED BY <1>3, <1>11, <1>12 DEF TokenInv

LEMMA FaultOrOk ==
  ASSUME faults \in Nat, Fault \/ Ok
  PROVE  faults' \in Nat /\ faults' >= faults /\ (Fault => faults' > faults)
BY DEF Fault, Ok

(* cachedToken *)
LEMMA CachedTokenSound ==
  ASSUME TokenInv, TokenAssumption, NEW r \in Calls, cachedToken(r)
  PROVE  TokenInv'
<1>1. TokenTyped /\ RequestSound(r) /\ faults \in Nat /\ mint[r].state = "matching" /\ mint[r] \in MintRecord
      /\ UNCHANGED <<host, clock, deployed, signingKey, current, client, tokens, call>>
  BY DEF TokenInv, TokenTyped, cachedToken, memos
<1>2. call[r].key \in 1 .. LastKey
  BY <1>1, TokenAssumption
  DEF RequestSound, Belongs, EdgeSound, OriginSound, OriginStates, TokenTyped
<1>3. signingKey' \in [Isolates -> Nat] /\ tokens' \in [1 .. LastKey -> {Nothing} \cup CachedToken]
      /\ \A k \in 1 .. LastKey : tokens'[k] # Nothing => tokens'[k].key = k
  BY <1>1 DEF TokenInv, TokenTyped
<1> DEFINE entry == tokens[call[r].key]
           hit == entry # Nothing /\ entry.until > clock /\ usableToken(entry.expires)
           m == [state |-> "minted", key |-> entry.key, expires |-> entry.expires]
<1>4. CASE hit /\ mint' = [mint EXCEPT ![r] = m] /\ Ok
  <2>1. entry \in CachedToken /\ entry.key = call[r].key /\ usableToken(entry.expires)
    BY <1>1, <1>2, <1>4 DEF TokenInv, TokenTyped
  <2>2. m \in MintRecord /\ m.state = "minted" /\ m.key = call[r].key /\ usableToken(m.expires)
    BY <2>1 DEF MintRecord, CachedToken, EdgeStates
  <2> HIDE DEF m
  <2>8. faults' \in Nat /\ faults' >= faults /\ (Fault => faults' > faults)
    BY <1>1, <1>4, FaultOrOk
  <2>9. EdgeMints(r, m) BY <1>1, <1>3, <1>4, <2>2, <2>8 DEF EdgeMints
  <2> QED BY <2>9, EdgeMintSound
<1>5. CASE mint' = [mint EXCEPT ![r].state = "exchanging"] /\ (Ok \/ Fault)
  <2>1. PICK u : u = [mint[r] EXCEPT !.state = "exchanging"] OBVIOUS
  <2>2. u \in MintRecord /\ u.state = "exchanging" BY <1>1, <2>1 DEF MintRecord, EdgeStates
  <2>3. mint' = [mint EXCEPT ![r] = u] BY <1>5, <2>1
  <2>8. faults' \in Nat /\ faults' >= faults /\ (Fault => faults' > faults)
    BY <1>1, <1>5, FaultOrOk
  <2>9. EdgeMints(r, u) BY <1>1, <1>3, <1>5, <2>2, <2>3, <2>8 DEF EdgeMints
  <2> QED BY <2>9, EdgeMintSound
<1> QED BY <1>4, <1>5 DEF cachedToken

(* exchangeForIdToken: whatever key the isolate imported before, the one it  *)
(* signs with is the request's.                                              *)
LEMMA ExchangeSound ==
  ASSUME TokenInv, TokenAssumption, NEW r \in Calls, exchangeForIdToken(r)
  PROVE  TokenInv'
<1>1. TokenTyped /\ RequestSound(r) /\ faults \in Nat /\ mint[r].state = "exchanging" /\ mint[r] \in MintRecord
      /\ clock \in Nat
      /\ UNCHANGED <<host, clock, deployed, current, client, tokens, call>>
  BY DEF TokenInv, TokenTyped, exchangeForIdToken
<1>2. call[r].key \in Nat BY <1>1, TokenFields, TokenAssumption
<1>3. tokens' \in [1 .. LastKey -> {Nothing} \cup CachedToken]
      /\ \A k \in 1 .. LastKey : tokens'[k] # Nothing => tokens'[k].key = k
  BY <1>1 DEF TokenInv, TokenTyped
<1> DEFINE key == call[r].key
           signer == importSigningKey(host[r], key)
           m == [state |-> "storing", key |-> key, expires |-> clock + Lifetime]
<1>4. CASE /\ signingKey' = [signingKey EXCEPT ![host[r]] = signer]
           /\ mint' = [mint EXCEPT ![r] = IF signer = key THEN m ELSE [NoMint EXCEPT !.state = "failed"]]
           /\ Ok
  <2>1. signer = key BY DEF importSigningKey
  <2>2. signingKey' \in [Isolates -> Nat] BY <1>1, <1>2, <1>4, <2>1 DEF TokenTyped
  <2>3. clock + Lifetime \in Nat /\ clock + Lifetime - Margin > clock /\ Margin \in Nat
    BY <1>1, TokenAssumption
  <2>4. m \in MintRecord /\ m.state = "storing" /\ m.key = key /\ m.expires = clock + Lifetime
    BY <1>2, <2>3 DEF MintRecord, EdgeStates
  <2> HIDE DEF m
  <2>6. m.expires - Margin > clock BY <1>1, <2>3, <2>4, TokenAssumption
  <2>7. usableToken(m.expires) BY <2>6 DEF usableToken
  <2>5. mint' = [mint EXCEPT ![r] = m] BY <1>4, <2>1
  <2>8. faults' \in Nat /\ faults' >= faults /\ (Fault => faults' > faults)
    BY <1>1, <1>4, FaultOrOk
  <2>9. EdgeMints(r, m) BY <1>1, <1>3, <1>4, <2>2, <2>4, <2>5, <2>7, <2>8 DEF EdgeMints
  <2> QED BY <2>9, EdgeMintSound
<1>5. CASE /\ signingKey' \in {signingKey, [signingKey EXCEPT ![host[r]] = 0]}
           /\ mint' = [mint EXCEPT ![r].state = "failed"] /\ Fault
  <2>1. PICK u : u = [mint[r] EXCEPT !.state = "failed"] OBVIOUS
  <2>2. u \in MintRecord /\ u.state = "failed" BY <1>1, <2>1 DEF MintRecord, EdgeStates
  <2>3. mint' = [mint EXCEPT ![r] = u] BY <1>5, <2>1
  <2>4. signingKey' \in [Isolates -> Nat] BY <1>1, <1>5 DEF TokenTyped
  <2>8. faults' \in Nat /\ faults' >= faults /\ (Fault => faults' > faults)
    BY <1>1, <1>5, FaultOrOk
  <2>9. EdgeMints(r, u) BY <1>1, <1>3, <1>5, <2>2, <2>3, <2>4, <2>8 DEF EdgeMints
  <2> QED BY <2>9, EdgeMintSound
<1> QED BY <1>4, <1>5 DEF exchangeForIdToken

(* cacheToken *)
LEMMA CacheTokenSound ==
  ASSUME TokenInv, TokenAssumption, NEW r \in Calls, cacheToken(r)
  PROVE  TokenInv'
<1>1. TokenTyped /\ RequestSound(r) /\ faults \in Nat /\ mint[r].state = "storing" /\ mint[r] \in MintRecord
      /\ clock \in Nat /\ mint' = [mint EXCEPT ![r].state = "minted"]
      /\ UNCHANGED <<host, clock, deployed, signingKey, current, client, call>>
  BY DEF TokenInv, TokenTyped, cacheToken, memos
<1>2. host[r] \in Isolates
  BY <1>1, TokenAssumption DEF TokenTyped, RequestSound, OriginSound, OriginStates
<1>3. mint[r].key = call[r].key /\ usableToken(mint[r].expires) /\ call[r].key \in 1 .. LastKey
      /\ mint[r].key \in Int /\ mint[r].expires \in Int
  BY <1>1, <1>2 DEF RequestSound, EdgeSound, Belongs, MintRecord
<1>4. PICK u : u = [mint[r] EXCEPT !.state = "minted"] OBVIOUS
<1>5. u \in MintRecord /\ u.state = "minted" /\ u.key = call[r].key /\ usableToken(u.expires)
  BY <1>1, <1>3, <1>4 DEF MintRecord, EdgeStates
<1>6. mint' = [mint EXCEPT ![r] = u] BY <1>1, <1>4
<1>7. signingKey' \in [Isolates -> Nat] BY <1>1 DEF TokenTyped
<1>8. CASE tokens' = tokens /\ Fault
  <2>1. tokens' \in [1 .. LastKey -> {Nothing} \cup CachedToken]
        /\ \A k \in 1 .. LastKey : tokens'[k] # Nothing => tokens'[k].key = k
    BY <1>1, <1>8 DEF TokenInv, TokenTyped
  <2>8. faults' \in Nat /\ faults' >= faults /\ (Fault => faults' > faults)
    BY <1>1, <1>8, FaultOrOk
  <2>9. EdgeMints(r, u) BY <1>1, <1>5, <1>6, <1>7, <1>8, <2>1, <2>8 DEF EdgeMints
  <2> QED BY <2>9, EdgeMintSound
<1>9. ASSUME NEW spread \in 0 .. Spread,
             tokens' = [tokens EXCEPT ![call[r].key] =
               [key |-> mint[r].key, expires |-> mint[r].expires,
                until |-> Until(mint[r].expires, spread)]], Ok
      PROVE  TokenInv'
  <2> DEFINE e == [key |-> mint[r].key, expires |-> mint[r].expires,
                   until |-> Until(mint[r].expires, spread)]
  <2>1. Until(mint[r].expires, spread) \in Int
    <3>1. CacheLifetime \in Int /\ Margin \in Int /\ spread \in Int /\ clock \in Int
      BY <1>1, TokenAssumption
    <3> QED BY <1>3, <3>1 DEF Until
  <2>2. e \in CachedToken /\ e.key = call[r].key BY <1>3, <2>1 DEF CachedToken
  <2> HIDE DEF e
  <2>3. tokens' = [tokens EXCEPT ![call[r].key] = e] BY <1>9 DEF e
  <2>4. tokens' \in [1 .. LastKey -> {Nothing} \cup CachedToken]
        /\ \A k \in 1 .. LastKey : tokens'[k] # Nothing => tokens'[k].key = k
    BY <1>1, <1>3, <2>2, <2>3 DEF TokenInv, TokenTyped
  <2>8. faults' \in Nat /\ faults' >= faults /\ (Fault => faults' > faults)
    BY <1>1, <1>9, FaultOrOk
  <2>9. EdgeMints(r, u) BY <1>1, <1>5, <1>6, <1>7, <1>9, <2>4, <2>8 DEF EdgeMints
  <2> QED BY <2>9, EdgeMintSound
<1> QED BY <1>8, <1>9 DEF cacheToken


(* Minted *)
LEMMA MintedSound ==
  ASSUME TokenInv, TokenAssumption, NEW r \in Calls, Minted(r)
  PROVE  TokenInv'
<1>1. TokenTyped /\ RequestSound(r) /\ call[r].pc = "minting" /\ call[r] \in CallRecord
      /\ UNCHANGED <<host, clock, deployed, signingKey, client, tokens, mint, faults>>
  BY DEF TokenInv, TokenTyped, Minted
<1>2. host[r] \in Isolates /\ host[r] # Origin /\ call[r].of = r
  BY <1>1, TokenAssumption DEF TokenTyped, RequestSound, OriginSound, EdgeSound
<1>3. r \notin client BY <1>2 DEF TokenInv, ClientSound
<1>4. CASE mint[r].state = "minted"
  <2>1. PICK s : s = [call[r] EXCEPT !.pc = "calling"] OBVIOUS
  <2>2. s \in CallRecord /\ s.pc = "calling" /\ s.key = call[r].key /\ s.since = call[r].since /\ s.of = r
    BY <1>1, <1>2, <2>1 DEF CallRecord, Pcs
  <2>3. call' = [call EXCEPT ![r] = s] /\ current' = current BY <1>4, <2>1 DEF Minted
  <2>4. TokenTyped' /\ call'[r] = s BY <1>1, <2>2, <2>3 DEF TokenTyped
  <2>5. Undisturbed(r) BY <1>1, <2>2, <2>3, <2>4 DEF Undisturbed, TokenTyped
  <2>6. RequestSound(r)'
    BY <1>1, <1>2, <1>4, <2>2, <2>4
    DEF RequestSound, Belongs, FailsFresh, EdgeSound, OriginSound, usableToken
  <2> QED BY <1>1, <1>3, <2>3, <2>4, <2>5, <2>6, RequestStepSound
<1>5. CASE mint[r].state # "minted"
  <2>1. PICK s : s = [call[r] EXCEPT !.pc = "failed"] OBVIOUS
  <2>2. s \in CallRecord /\ s.pc = "failed" /\ s.key = call[r].key /\ s.since = call[r].since /\ s.of = r
    BY <1>1, <1>2, <2>1 DEF CallRecord, Pcs
  <2>3. /\ call' = [call EXCEPT ![r] = s]
        /\ current' = [current EXCEPT ![host[r]] = IF @ # Nothing /\ @.of = r THEN Nothing ELSE @]
    BY <1>5, <2>1 DEF Minted
  <2>4. TokenTyped' /\ call'[r] = s BY <1>1, <2>2, <2>3 DEF TokenTyped
  <2>5. Undisturbed(r) BY <1>1, <2>2, <2>3, <2>4 DEF Undisturbed, TokenTyped
  <2>6. mint[r].state = "failed" BY <1>5 DEF Minted, Settled
  <2>7. RequestSound(r)'
    BY <1>1, <1>2, <2>2, <2>4, <2>6
    DEF RequestSound, Belongs, FailsFresh, EdgeSound, OriginSound
  <2>8. /\ \A x \in Calls : RequestSound(x)'
        /\ \A c \in client : c # r => ClientSound(c)'
    BY <2>5, <2>7, OthersStaySound
  <2>9. ASSUME NEW i \in Isolates PROVE MemoSound(i)'
    <3>1. MemoSound(i) /\ (current[i] # Nothing => current[i].of \in Calls)
          /\ current'[i] \in {current[i], Nothing} /\ host' = host
      BY <1>1, <2>3 DEF TokenInv, TokenTyped, Memo
    <3> QED BY <2>5, <3>1 DEF MemoSound, Undisturbed
  <2> QED BY <1>1, <1>3, <2>4, <2>8, <2>9 DEF TokenInv
<1> QED BY <1>4, <1>5

(* getAuthorizationHeader: the client a request joins has not failed, for    *)
(* the request that made it would have dropped it by now.                    *)
LEMMA GetAuthorizationHeaderSound ==
  ASSUME TokenInv, TokenAssumption, NEW r \in Calls, getAuthorizationHeader(r)
  PROVE  TokenInv'
<1>1. TokenTyped /\ RequestSound(r) /\ call[r].pc = "idle" /\ Event /\ host[r] = Origin
      /\ host[r] \notin Isolates /\ mint[r].state = "none" /\ mint[r] \in MintRecord
      /\ faults \in Nat /\ deployed \in 1 .. LastKey
      /\ UNCHANGED <<host, clock, deployed, signingKey, current, tokens, faults>>
  BY TokenAssumption DEF TokenInv, TokenTyped, getAuthorizationHeader, RequestSound, OriginSound
<1>2. CASE client = {}
  <2>1. PICK u : u = [mint[r] EXCEPT !.state = "pending"] OBVIOUS
  <2>2. u \in MintRecord /\ u.state = "pending" BY <1>1, <2>1 DEF MintRecord, OriginStates
  <2>3. PICK s : s = Started(r) OBVIOUS
  <2>4. s \in CallRecord /\ s.pc = "joined" /\ s.key = deployed /\ s.since = faults /\ s.of = r
    BY <1>1, <2>3, StartedFields
  <2>5. call' = [call EXCEPT ![r] = s] /\ mint' = [mint EXCEPT ![r] = u] /\ client' = {r}
    BY <1>2, <2>1, <2>3 DEF getAuthorizationHeader
  <2>6. TokenTyped' /\ call'[r] = s /\ mint'[r] = u BY <1>1, <2>2, <2>4, <2>5 DEF TokenTyped
  <2>7. Undisturbed(r) BY <1>1, <2>2, <2>5, <2>6 DEF Undisturbed, TokenTyped
  <2>8. RequestSound(r)'
    BY <1>1, <2>2, <2>4, <2>6
    DEF RequestSound, Belongs, FailsFresh, EdgeSound, OriginSound, OriginStates
  <2>9. ClientSound(r)' BY <1>1, <2>2, <2>4, <2>6 DEF ClientSound
  <2>10. \A x \in Calls : RequestSound(x)' /\ \A i \in Isolates : MemoSound(i)'
    BY <1>1, <2>7, <2>8, OthersStaySound
  <2> QED BY <1>1, <2>5, <2>6, <2>9, <2>10 DEF TokenInv
<1>3. CASE client # {}
  <2>1. PICK o : o = CHOOSE c \in client : TRUE OBVIOUS
  <2>2. o \in client /\ o \in Calls /\ ClientSound(o) BY <1>1, <1>3, <2>1 DEF TokenInv, TokenTyped
  <2>3. mint[o].state # "failed"
    BY <1>1, <2>2 DEF ClientSound, Event, Due, Settled
  <2>4. PICK s : s = [Started(r) EXCEPT !.of = o] OBVIOUS
  <2>5. s \in CallRecord /\ s.pc = "joined" /\ s.key = deployed /\ s.since = faults /\ s.of = o
    BY <1>1, <2>2, <2>4, StartedFields
  <2>6. call' = [call EXCEPT ![r] = s] /\ mint' = mint /\ client' = client
    BY <1>3, <2>1, <2>4 DEF getAuthorizationHeader
  <2>7. TokenTyped' /\ call'[r] = s BY <1>1, <2>5, <2>6 DEF TokenTyped
  <2>8. Undisturbed(r) BY <1>1, <2>5, <2>6, <2>7 DEF Undisturbed, TokenTyped
  <2>9. o # r /\ call'[o] = call[o] /\ call[o].pc # "idle" /\ host[o] = Origin
    BY <1>1, <2>2, <2>8 DEF ClientSound, Undisturbed
  <2>10. RequestSound(r)'
    BY <1>1, <2>2, <2>3, <2>5, <2>6, <2>7, <2>9
    DEF RequestSound, Belongs, FailsFresh, EdgeSound, OriginSound
  <2>11. r \notin client BY <1>1 DEF TokenInv, ClientSound
  <2> QED BY <1>1, <2>6, <2>7, <2>8, <2>10, <2>11, RequestStepSound
<1> QED BY <1>2, <1>3

(* ClientSettles *)
LEMMA ClientSettlesSound ==
  ASSUME TokenInv, TokenAssumption, NEW r \in Calls, ClientSettles(r)
  PROVE  TokenInv'
<1>1. TokenTyped /\ RequestSound(r) /\ mint[r].state = "pending" /\ mint[r] \in MintRecord
      /\ faults \in Nat /\ call[r].since \in Nat
      /\ UNCHANGED <<host, clock, deployed, signingKey, current, client, tokens, call>>
  BY TokenFields DEF TokenInv, TokenTyped, ClientSettles, memos
<1>2. host[r] = Origin /\ Origin \notin Isolates /\ call[r].pc = "joined" /\ call[r].of = r
  BY <1>1, TokenAssumption DEF TokenTyped, RequestSound, EdgeSound, EdgeStates, OriginSound
<1>3. PICK st \in {"minted", "failed"} :
        mint' = [mint EXCEPT ![r].state = st] /\ (Ok \/ Fault) /\ (st = "failed" => Fault)
  BY DEF ClientSettles
<1>4. faults' \in Nat /\ faults' >= faults /\ (Fault => faults' > faults) BY <1>1, <1>3, FaultOrOk
<1>5. PICK u : u = [mint[r] EXCEPT !.state = st] OBVIOUS
<1>6. u \in MintRecord /\ u.state = st BY <1>1, <1>5 DEF MintRecord, EdgeStates
<1>7. mint' = [mint EXCEPT ![r] = u] BY <1>3, <1>5
<1>8. TokenTyped' /\ mint'[r] = u BY <1>1, <1>4, <1>6, <1>7 DEF TokenTyped
<1>9. Undisturbed(r) BY <1>1, <1>3, <1>4, <1>6, <1>7, <1>8 DEF Undisturbed, TokenTyped
<1>10. call[r].since <= faults BY <1>1, <1>2 DEF RequestSound, Belongs
<1>11. call[r].since <= faults' /\ (st = "failed" => faults' > call[r].since)
  BY <1>1, <1>3, <1>4, <1>10
<1>12. RequestSound(r)'
  BY <1>1, <1>2, <1>6, <1>8, <1>11, TokenAssumption
  DEF RequestSound, Belongs, FailsFresh, EdgeSound, OriginSound, OriginStates
<1>13. ClientSound(r)' BY <1>1, <1>2, <1>6, <1>8 DEF ClientSound
<1> QED BY <1>1, <1>8, <1>9, <1>12, <1>13, RequestStepSound

(* HeaderReady *)
LEMMA HeaderReadySound ==
  ASSUME TokenInv, TokenAssumption, NEW r \in Calls, HeaderReady(r)
  PROVE  TokenInv'
<1>1. TokenTyped /\ RequestSound(r) /\ call[r].pc = "joined" /\ call[r] \in CallRecord
      /\ host[r] = Origin /\ host[r] \notin Isolates /\ Settled(call[r].of)
      /\ call[r].of \in Calls
      /\ faults \in Nat /\ call[r].since \in Nat /\ call[r].since <= faults
      /\ UNCHANGED <<host, clock, deployed, signingKey, current, tokens, mint>>
  BY TokenAssumption, TokenFields
  DEF TokenInv, TokenTyped, HeaderReady, RequestSound, Belongs
<1> DEFINE o == call[r].of
<1>2. PICK p \in {"calling", "failed"} :
        /\ call' = [call EXCEPT ![r].pc = p] /\ client' \in {client, {}} /\ (Ok \/ Fault)
        /\ p = "failed" => Fault \/ mint[o].state # "minted"
        /\ mint[o].state # "minted" => client' = {}
  BY DEF HeaderReady
<1>3. faults' \in Nat /\ faults' >= faults /\ (Fault => faults' > faults) BY <1>1, <1>2, FaultOrOk
<1>4. mint[o].state # "minted" => faults > call[r].since
  BY <1>1 DEF Settled, RequestSound, FailsFresh
<1>5. call[r].since <= faults' /\ (p = "failed" => faults' > call[r].since)
  BY <1>1, <1>2, <1>3, <1>4
<1>6. PICK s : s = [call[r] EXCEPT !.pc = p] OBVIOUS
<1>7. s \in CallRecord /\ s.pc = p /\ s.key = call[r].key /\ s.since = call[r].since /\ s.of = o
  BY <1>1, <1>6 DEF CallRecord, Pcs
<1>8. call' = [call EXCEPT ![r] = s] BY <1>2, <1>6
<1>9. TokenTyped' /\ call'[r] = s
  <2>1. client' \subseteq Calls BY <1>1, <1>2 DEF TokenTyped
  <2>2. call' \in [Calls -> CallRecord] /\ call'[r] = s BY <1>1, <1>7, <1>8 DEF TokenTyped
  <2> QED BY <1>1, <1>3, <2>1, <2>2 DEF TokenTyped
<1>10. Undisturbed(r) BY <1>1, <1>2, <1>3, <1>7, <1>8, <1>9 DEF Undisturbed, TokenTyped
<1>11. call'[o].pc # "idle"
  BY <1>1, <1>2, <1>7, <1>9, <1>10 DEF Undisturbed, RequestSound, Belongs
<1>12. mint[r].state # "pending"
  BY <1>1 DEF RequestSound, OriginSound, Settled
<1>13. RequestSound(r)'
  BY <1>1, <1>2, <1>5, <1>7, <1>9, <1>11, <1>12
  DEF RequestSound, Belongs, FailsFresh, EdgeSound, OriginSound
<1>14. r \in client' => ClientSound(r)'
  <2>1. SUFFICES ASSUME r \in client' PROVE ClientSound(r)' OBVIOUS
  <2>2. r \in client /\ mint[o].state = "minted" /\ ClientSound(r)
    BY <1>2, <2>1 DEF TokenInv
  <2> QED BY <1>1, <1>2, <1>7, <1>9, <2>2 DEF ClientSound
<1> QED BY <1>1, <1>2, <1>9, <1>10, <1>13, <1>14, RequestStepSound

(* Called *)
LEMMA CalledSound ==
  ASSUME TokenInv, TokenAssumption, NEW r \in Calls, Called(r)
  PROVE  TokenInv'
<1>1. TokenTyped /\ RequestSound(r) /\ call[r].pc = "calling" /\ call[r] \in CallRecord
      /\ faults \in Nat /\ call[r].since \in Nat /\ call[r].since <= faults
      /\ UNCHANGED <<host, clock, deployed, signingKey, current, client, tokens, mint>>
  BY TokenFields DEF TokenInv, TokenTyped, Called, memos, RequestSound, Belongs
<1>2. PICK p \in {"done", "failed"} :
        call' = [call EXCEPT ![r].pc = p] /\ (Ok \/ Fault) /\ (p = "failed" => Fault)
  BY DEF Called
<1>3. faults' \in Nat /\ faults' >= faults /\ (Fault => faults' > faults) BY <1>1, <1>2, FaultOrOk
<1>4. call[r].since <= faults' /\ (p = "failed" => faults' > call[r].since) BY <1>1, <1>2, <1>3
<1>5. PICK s : s = [call[r] EXCEPT !.pc = p] OBVIOUS
<1>6. s \in CallRecord /\ s.pc = p /\ s.key = call[r].key /\ s.since = call[r].since
      /\ s.of = call[r].of
  BY <1>1, <1>5 DEF CallRecord, Pcs
<1>7. call' = [call EXCEPT ![r] = s] BY <1>2, <1>5
<1>8. TokenTyped' /\ call'[r] = s BY <1>1, <1>2, <1>3, <1>6, <1>7 DEF TokenTyped
<1>9. Undisturbed(r) BY <1>1, <1>2, <1>3, <1>6, <1>7, <1>8 DEF Undisturbed, TokenTyped
<1>10. call[r].of \in Calls /\ call'[call[r].of].pc # "idle"
       /\ call'[call[r].of].key = call[call[r].of].key
  BY <1>1, <1>2, <1>6, <1>8, <1>9 DEF Undisturbed, RequestSound, Belongs
<1>11. RequestSound(r)'
  BY <1>1, <1>2, <1>4, <1>6, <1>8, <1>10
  DEF RequestSound, Belongs, FailsFresh, EdgeSound, OriginSound, usableToken
<1>12. r \in client => ClientSound(r)'
  BY <1>1, <1>2, <1>6, <1>8 DEF TokenInv, ClientSound
<1> QED BY <1>1, <1>8, <1>9, <1>11, <1>12, RequestStepSound

(* Rotate, Evict and ClockTicks touch no request. *)
LEMMA RotateSound ==
  ASSUME TokenInv, TokenAssumption, Rotate
  PROVE  TokenInv'
<1>1. deployed' \in 1 .. LastKey /\ UNCHANGED <<host, clock, signingKey, current, client, tokens, mint, call, faults>>
  BY TokenAssumption DEF TokenInv, TokenTyped, Rotate, memos
<1> QED BY <1>1 DEF TokenInv, TokenTyped, RequestSound, Belongs, FailsFresh, EdgeSound, OriginSound,
             MemoSound, ClientSound, usableToken

LEMMA EvictSound ==
  ASSUME TokenInv, NEW i \in Isolates, Evict(i)
  PROVE  TokenInv'
<1>1. TokenTyped /\ UNCHANGED <<host, clock, deployed, client, tokens, mint, call, faults>>
  BY DEF TokenInv, Evict
<1>2. TokenTyped' BY <1>1 DEF TokenTyped, Evict
<1>3. \A x \in Calls : RequestSound(x)'
  BY <1>1 DEF TokenInv, RequestSound, Belongs, FailsFresh, EdgeSound, OriginSound, usableToken
<1>4. \A j \in Isolates : current'[j] \in {current[j], Nothing} BY <1>1 DEF TokenTyped, Evict
<1>5. \A j \in Isolates : MemoSound(j)' BY <1>1, <1>4 DEF TokenInv, MemoSound
<1> QED BY <1>1, <1>2, <1>3, <1>5 DEF TokenInv, ClientSound

(* The clock ticks only when no continuation is due: no call is about to     *)
(* leave, no mint has just settled and none is on its way to the cache.      *)
LEMMA ClockTicksSound ==
  ASSUME TokenInv, TokenAssumption, ClockTicks
  PROVE  TokenInv'
<1>1. TokenTyped /\ Event /\ clock' = clock + 1
      /\ UNCHANGED <<host, deployed, signingKey, current, client, tokens, mint, call, faults>>
  BY DEF TokenInv, ClockTicks, memos
<1>2. TokenTyped' BY <1>1 DEF TokenTyped
<1>3. ASSUME NEW x \in Calls PROVE RequestSound(x)'
  <2>1. RequestSound(x) /\ call[x].pc # "calling" /\ mint[x].state # "storing"
        /\ ~(call[x].pc = "minting" /\ Settled(call[x].of))
    BY <1>1 DEF TokenInv, Event, Due, ClockTicks
  <2> QED BY <1>1, <2>1 DEF RequestSound, Belongs, FailsFresh, EdgeSound, OriginSound, Settled
<1> QED BY <1>1, <1>2, <1>3 DEF TokenInv, MemoSound, ClientSound

(* TokensRight: a call leaves the edge with a usable token of its own        *)
(* environment's key (googleIdToken of worker/google-id-token.ts), and a     *)
(* request fails only for what failed while it ran (there and in             *)
(* lib/rust-service-client.ts), whatever keys rotate, isolates go and mints  *)
(* are shared.                                                               *)
THEOREM TokensAreRight == TokenSpec => []TokensRight
<1> USE TokenAssumption
<1>1. TokenInit => TokenInv BY TokenInitSound
<1>2. TokenInv /\ [TokenNext]_tokenVars => TokenInv'
  <2> SUFFICES ASSUME TokenInv, [TokenNext]_tokenVars PROVE TokenInv' OBVIOUS
  <2>1. CASE UNCHANGED tokenVars
    BY <2>1 DEF TokenInv, TokenTyped, RequestSound, Belongs, FailsFresh, EdgeSound, OriginSound,
               MemoSound, ClientSound, usableToken, tokenVars
  <2>2. ASSUME NEW r \in Calls, googleIdToken(r) PROVE TokenInv' BY <2>2, GoogleIdTokenSound
  <2>3. ASSUME NEW r \in Calls, getAuthorizationHeader(r) PROVE TokenInv'
    BY <2>3, GetAuthorizationHeaderSound
  <2>4. ASSUME NEW r \in Calls, Joined(r) PROVE TokenInv' BY <2>4, JoinedSound
  <2>5. ASSUME NEW r \in Calls, cachedToken(r) PROVE TokenInv' BY <2>5, CachedTokenSound
  <2>6. ASSUME NEW r \in Calls, exchangeForIdToken(r) PROVE TokenInv' BY <2>6, ExchangeSound
  <2>7. ASSUME NEW r \in Calls, cacheToken(r) PROVE TokenInv' BY <2>7, CacheTokenSound
  <2>8. ASSUME NEW r \in Calls, Minted(r) PROVE TokenInv' BY <2>8, MintedSound
  <2>9. ASSUME NEW r \in Calls, ClientSettles(r) PROVE TokenInv' BY <2>9, ClientSettlesSound
  <2>10. ASSUME NEW r \in Calls, HeaderReady(r) PROVE TokenInv' BY <2>10, HeaderReadySound
  <2>11. ASSUME NEW r \in Calls, Called(r) PROVE TokenInv' BY <2>11, CalledSound
  <2>12. ASSUME NEW i \in Isolates, Evict(i) PROVE TokenInv' BY <2>12, EvictSound
  <2>13. CASE Rotate BY <2>13, RotateSound
  <2>14. CASE ClockTicks BY <2>14, ClockTicksSound
  <2> QED
    BY <2>1, <2>2, <2>3, <2>4, <2>5, <2>6, <2>7, <2>8, <2>9, <2>10, <2>11, <2>12, <2>13, <2>14
    DEF TokenNext, Step, edgeRustService, fetchRustService
<1>3. TokenInv => TokensRight
  <2> SUFFICES ASSUME TokenInv, NEW r \in Calls
               PROVE  /\ call[r].pc = "failed" => faults > call[r].since
                      /\ call[r].pc = "calling" /\ host[r] \in Isolates =>
                           /\ mint[call[r].of].key = call[r].key
                           /\ mint[call[r].of].expires - Margin > clock
    BY DEF TokensRight, TokenFits, FailureNotReplayed
  <2>1. TokenTyped /\ RequestSound(r) BY DEF TokenInv
  <2>2. call[r].pc = "failed" => faults > call[r].since BY <2>1 DEF RequestSound, FailsFresh
  <2>3. ASSUME call[r].pc = "calling", host[r] \in Isolates
        PROVE  /\ mint[call[r].of].key = call[r].key
               /\ mint[call[r].of].expires - Margin > clock
    <3>1. call[r].of \in Calls /\ host[call[r].of] \in Isolates
      BY <2>1, <2>3 DEF RequestSound, Belongs, TokenTyped
    <3>2. RequestSound(call[r].of) BY <3>1 DEF TokenInv
    <3> QED BY <2>1, <2>3, <3>1, <3>2 DEF RequestSound, EdgeSound, usableToken
  <2> QED BY <2>2, <2>3
<1> QED BY <1>1, <1>2, <1>3, PTL DEF TokenSpec

-----------------------------------------------------------------------------
(* The way through the Worker to the origin *)

HeaderNames == Sendable \cup {connectingIp}
HeaderValues == Addresses \cup {Claimed, "old", "new", "stale"}
Headers == UNION {[names -> HeaderValues] : names \in SUBSET HeaderNames}
Shown == SUBSET [name : private \cup {"content-type"}, by : {"origin", "worker"}]

Progress ==
  [pc : {"idle", "edge", "origin", "admitted", "rust", "answered"}, via : {"edge", "direct"},
   route : Routes, address : Addresses \cup {"unknown", "none"}, headers : Headers,
   clientIp : Addresses \cup {"unknown"}, status : Nat, shown : Shown]

(* A header by this name says where the request came from, or is missing     *)
(* because nobody knows.                                                     *)
Vouches(headers, name, address) ==
  /\ name \in DOMAIN headers => headers[name] = address /\ address \in Addresses
  /\ name \notin DOMAIN headers => address = "unknown"

PrivatelyOurs(shown) == \A h \in shown : h.name \in private => h.by = "worker"

(* What a request of a browser carries at each stage of its way.             *)
CrossesSafely(q) ==
  /\ q \in Progress /\ (q.pc = "edge" => q.via = "edge")
  /\ q.via = "edge" =>
       /\ q.pc = "edge" => Vouches(q.headers, connectingIp, q.address)
       /\ q.pc \in {"origin", "admitted"} => q.route \notin Simulations
       /\ q.pc = "origin" => Vouches(q.headers, TRUSTED_CLIENT_IP_HEADER, q.address)
       /\ q.pc = "admitted" => q.clientIp = q.address
       /\ q.pc # "rust"
       /\ PrivatelyOurs(q.shown)

ProxyInv ==
  /\ worker \in {"old", "new"} /\ passing \in [ProxyRequests -> Progress]
  /\ \A r \in ProxyRequests : CrossesSafely(passing[r])

LEMMA HeadersAre ==
  ASSUME NEW names \in SUBSET HeaderNames, NEW h \in [names -> HeaderValues]
  PROVE  h \in Headers
BY DEF Headers

LEMMA OverlaidHeaders ==
  ASSUME NEW f \in Headers, NEW g \in Headers
  PROVE  /\ Overlay(f, g) \in Headers
         /\ DOMAIN Overlay(f, g) = DOMAIN f \cup DOMAIN g
         /\ \A name \in DOMAIN f \cup DOMAIN g :
              Overlay(f, g)[name] = IF name \in DOMAIN g THEN g[name] ELSE f[name]
<1>1. PICK hs : hs = Overlay(f, g) OBVIOUS
<1>2. PICK n \in SUBSET HeaderNames : f \in [n -> HeaderValues] BY DEF Headers
<1>3. PICK m \in SUBSET HeaderNames : g \in [m -> HeaderValues] BY DEF Headers
<1>4. hs = [h \in n \cup m |-> IF h \in m THEN g[h] ELSE f[h]] BY <1>1, <1>2, <1>3 DEF Overlay
<1>5. hs \in [n \cup m -> HeaderValues] BY <1>2, <1>3, <1>4
<1>6. hs \in Headers BY <1>5, HeadersAre
<1> QED BY <1>1, <1>2, <1>3, <1>4, <1>6

LEMMA IdleIs ==
  /\ Idle \in Progress /\ Idle.pc = "idle" /\ Idle.via = "edge" /\ Idle.shown = {}
<1>1. PICK hs : hs = [h \in {} |-> ""] OBVIOUS
<1>2. hs \in [{} -> HeaderValues] BY <1>1
<1>3. hs \in Headers BY <1>2, HeadersAre
<1>4. Idle = [pc |-> "idle", via |-> "edge", route |-> "page", address |-> "none",
              headers |-> hs, clientIp |-> "unknown", status |-> 0, shown |-> {}]
  BY <1>1 DEF Idle
<1> QED BY <1>3, <1>4 DEF Progress, Routes, Subsystems, Shown

LEMMA PassSafe ==
  ASSUME ProxyInv, NEW r \in ProxyRequests, NEW q, CrossesSafely(q), Pass(r, q), worker' = worker
  PROVE  ProxyInv'
<1>1. passing' = [passing EXCEPT ![r] = q] BY DEF Pass
<1>2. q \in Progress BY DEF CrossesSafely
<1>3. /\ passing' \in [ProxyRequests -> Progress]
      /\ \A x \in ProxyRequests : passing'[x] = IF x = r THEN q ELSE passing[x]
  BY <1>1, <1>2 DEF ProxyInv
<1>4. \A x \in ProxyRequests : CrossesSafely(passing'[x]) BY <1>3 DEF ProxyInv
<1>5. \A x \in ProxyRequests : CrossesSafely(passing[x])'
  BY <1>4 DEF CrossesSafely, Vouches, PrivatelyOurs
<1> QED BY <1>3, <1>5 DEF ProxyInv

(* An answer leaves nothing to compute; what it shows is checked here.       *)
LEMMA AnswerSafe ==
  ASSUME ProxyInv, NEW r \in ProxyRequests, NEW status \in Nat, NEW shown \in Shown,
         passing[r].via = "edge" => PrivatelyOurs(shown), Answer(r, status, shown), worker' = worker
  PROVE  ProxyInv'
<1>1. PICK via \in {"edge", "direct"} : via = passing[r].via BY DEF ProxyInv, Progress
<1>2. PICK q : q = [Idle EXCEPT !.pc = "answered", !.via = via, !.status = status,
                                !.shown = shown] OBVIOUS
<1>3. q \in Progress /\ q.pc = "answered" /\ q.via = via /\ q.shown = shown
  BY <1>2, IdleIs DEF Progress
<1>4. CrossesSafely(q) BY <1>1, <1>3 DEF CrossesSafely
<1>5. Pass(r, q) BY <1>1, <1>2 DEF Answer
<1> QED BY <1>4, <1>5, PassSafe

(* safeResponseHeaders: whatever the origin said, only the Worker speaks.    *)
LEMMA ResponsesSafe ==
  /\ \A headers \in Shown :
       safeResponseHeaders(headers) \in Shown /\ PrivatelyOurs(safeResponseHeaders(headers))
  /\ {} \in Shown /\ PrivatelyOurs({}) /\ upstream \in Shown
<1>1. REQUEST_ID_HEADER \in private BY DEF private
<1>2. [name |-> REQUEST_ID_HEADER, by |-> "worker"]
        \in [name : private \cup {"content-type"}, by : {"origin", "worker"}] BY <1>1
<1>3. \A headers \in Shown :
        safeResponseHeaders(headers) \in Shown /\ PrivatelyOurs(safeResponseHeaders(headers))
  BY <1>2 DEF PrivatelyOurs, safeResponseHeaders, Shown
<1>4. {} \in Shown /\ PrivatelyOurs({}) /\ upstream \in Shown
  BY DEF PrivatelyOurs, Shown, upstream
<1> QED BY <1>3, <1>4

LEMMA LeaveSafe ==
  ASSUME ProxyInv, NEW r \in ProxyRequests, NEW status \in Nat, Leave(r, status), worker' = worker
  PROVE  ProxyInv'
<1>1. CASE passing[r].via = "direct" BY <1>1, AnswerSafe, ResponsesSafe DEF Leave
<1>2. CASE passing[r].via # "direct" BY <1>2, AnswerSafe, ResponsesSafe DEF Leave
<1> QED BY <1>1, <1>2

(* Arrive: a browser cannot send the header the network sets.                *)
LEMMA ArriveSafe ==
  ASSUME ProxyInv, NEW r \in ProxyRequests, Arrive(r)
  PROVE  ProxyInv'
<1>1. PICK route \in Routes, sent \in SUBSET Sendable, ip \in Addresses \cup {"unknown"} :
        Pass(r, [Idle EXCEPT !.pc = "edge", !.route = route, !.address = ip,
          !.headers = Overlay([h \in sent |-> Claimed],
                              [h \in IF ip \in Addresses THEN {connectingIp} ELSE {} |-> ip])])
  BY DEF Arrive
<1>2. PICK names : names = IF ip \in Addresses THEN {connectingIp} ELSE {} OBVIOUS
<1>3. PICK f : f = [h \in sent |-> Claimed] OBVIOUS
<1>4. PICK g : g = [h \in names |-> ip] OBVIOUS
<1>5. f \in Headers /\ DOMAIN f = sent
  <2>1. f \in [sent -> HeaderValues] BY <1>3 DEF HeaderValues
  <2> QED BY <1>3, <2>1, HeadersAre DEF HeaderNames
<1>6. g \in Headers /\ DOMAIN g = names /\ \A h \in names : g[h] = ip
  <2>1. g \in [names -> HeaderValues] BY <1>2, <1>4 DEF HeaderValues
  <2> QED BY <1>2, <1>4, <2>1, HeadersAre DEF HeaderNames
<1>7. PICK hs : hs = Overlay(f, g) OBVIOUS
<1>8. /\ hs \in Headers /\ DOMAIN hs = sent \cup names
      /\ \A name \in sent \cup names : hs[name] = IF name \in names THEN g[name] ELSE f[name]
  <2>1. /\ hs \in Headers /\ DOMAIN hs = DOMAIN f \cup DOMAIN g
        /\ \A name \in DOMAIN f \cup DOMAIN g : hs[name] = IF name \in DOMAIN g THEN g[name] ELSE f[name]
    BY <1>5, <1>6, <1>7, OverlaidHeaders
  <2> QED BY <1>5, <1>6, <2>1
<1>9. Vouches(hs, connectingIp, ip)
  BY <1>2, <1>6, <1>8 DEF Vouches, Sendable, connectingIp
<1>10. PICK q : q = [Idle EXCEPT !.pc = "edge", !.route = route, !.address = ip, !.headers = hs] OBVIOUS
<1>11. /\ q \in Progress /\ q.pc = "edge" /\ q.via = "edge" /\ q.address = ip /\ q.headers = hs
       /\ q.shown = {}
  BY <1>8, <1>10, IdleIs DEF Progress
<1>12. CrossesSafely(q) BY <1>9, <1>11 DEF CrossesSafely, PrivatelyOurs
<1>13. Pass(r, q) BY <1>1, <1>2, <1>3, <1>4, <1>7, <1>10
<1> QED BY <1>12, <1>13, PassSafe DEF Arrive, secrets

LEMMA ArriveDirectlySafe ==
  ASSUME ProxyInv, NEW r \in ProxyRequests, ArriveDirectly(r)
  PROVE  ProxyInv'
<1>1. PICK route \in Simulations \cup {"healthz"}, secret \in {"old", "new", "stale"} :
        Pass(r, [Idle EXCEPT !.pc = "origin", !.via = "direct", !.route = route,
                             !.headers = [h \in {ORIGIN_SECRET_HEADER} |-> secret]])
  BY DEF ArriveDirectly
<1>2. PICK hs : hs = [h \in {ORIGIN_SECRET_HEADER} |-> secret] OBVIOUS
<1>3. hs \in [{ORIGIN_SECRET_HEADER} -> HeaderValues] BY <1>2 DEF HeaderValues
<1>4. hs \in Headers BY <1>3, HeadersAre DEF HeaderNames, Sendable, ORIGIN_SECRET_HEADER
<1>5. route \in Routes BY DEF Routes, Simulations, Subsystems
<1>6. PICK q : q = [Idle EXCEPT !.pc = "origin", !.via = "direct", !.route = route, !.headers = hs]
  OBVIOUS
<1>7. q \in Progress /\ q.pc = "origin" /\ q.via = "direct"
  BY <1>4, <1>5, <1>6, IdleIs DEF Progress
<1>8. CrossesSafely(q) BY <1>7 DEF CrossesSafely
<1> QED BY <1>1, <1>2, <1>6, <1>8, PassSafe DEF ArriveDirectly, secrets

(* originRequestHeaders: the header the origin trusts is the Worker's own or *)
(* absent, for a browser's is protected.                                     *)
LEMMA ForwardedVouch ==
  ASSUME NEW q \in Progress, Vouches(q.headers, connectingIp, q.address), worker \in {"old", "new"}
  PROVE  /\ Vouches(originRequestHeaders(q), TRUSTED_CLIENT_IP_HEADER, q.address)
         /\ originRequestHeaders(q) \in Headers
<1>1. q.headers \in Headers BY DEF Progress
<1>2. PICK n \in SUBSET HeaderNames : q.headers \in [n -> HeaderValues] BY <1>1 DEF Headers
<1>3. PICK f : f = [h \in {h \in DOMAIN q.headers : ~protectedRequestHeader(h)} |-> q.headers[h]]
  OBVIOUS
<1>4. PICK s : s = [h \in {ORIGIN_SECRET_HEADER} |-> worker] OBVIOUS
<1>5. PICK names : names = {TRUSTED_CLIENT_IP_HEADER :
                              c \in {c \in {connectingIp} : c \in DOMAIN q.headers}} OBVIOUS
<1>6. PICK t : t = [h \in names |-> q.headers[connectingIp]] OBVIOUS
<1>7. originRequestHeaders(q) = Overlay(f, Overlay(s, t))
  BY <1>3, <1>4, <1>5, <1>6 DEF originRequestHeaders
<1>8. f \in Headers /\ TRUSTED_CLIENT_IP_HEADER \notin DOMAIN f
  <2>1. PICK k : k = {h \in DOMAIN q.headers : ~protectedRequestHeader(h)} OBVIOUS
  <2>2. f \in [k -> HeaderValues] /\ k \in SUBSET HeaderNames BY <1>2, <1>3, <2>1
  <2>3. TRUSTED_CLIENT_IP_HEADER \notin k BY <2>1 DEF protectedRequestHeader
  <2> QED BY <2>2, <2>3, HeadersAre
<1>9. s \in Headers /\ DOMAIN s = {ORIGIN_SECRET_HEADER}
  <2>1. s \in [{ORIGIN_SECRET_HEADER} -> HeaderValues] BY <1>4 DEF HeaderValues
  <2> QED BY <2>1, HeadersAre DEF HeaderNames, Sendable, ORIGIN_SECRET_HEADER
<1>10. names = IF connectingIp \in DOMAIN q.headers THEN {TRUSTED_CLIENT_IP_HEADER} ELSE {}
  BY <1>5
<1>11. t \in Headers /\ DOMAIN t = names /\ \A h \in names : t[h] = q.headers[connectingIp]
  <2>1. connectingIp \in DOMAIN q.headers => q.headers[connectingIp] \in HeaderValues BY <1>2
  <2>2. t \in [names -> HeaderValues] BY <1>6, <1>10, <2>1
  <2>3. names \in SUBSET HeaderNames BY <1>10 DEF HeaderNames, Sendable, TRUSTED_CLIENT_IP_HEADER
  <2> QED BY <1>6, <2>2, <2>3, HeadersAre
<1>12. PICK st : st = Overlay(s, t) OBVIOUS
<1>13. /\ st \in Headers /\ DOMAIN st = {ORIGIN_SECRET_HEADER} \cup names
       /\ \A h \in names : st[h] = q.headers[connectingIp]
  BY <1>9, <1>11, <1>12, OverlaidHeaders
<1>14. PICK hs : hs = Overlay(f, st) OBVIOUS
<1>15. /\ hs \in Headers /\ DOMAIN hs = DOMAIN f \cup DOMAIN st
       /\ \A h \in DOMAIN st : hs[h] = st[h]
  BY <1>8, <1>13, <1>14, OverlaidHeaders
<1>16. Vouches(hs, TRUSTED_CLIENT_IP_HEADER, q.address)
  BY <1>8, <1>10, <1>13, <1>15 DEF Vouches, TRUSTED_CLIENT_IP_HEADER, ORIGIN_SECRET_HEADER
<1> QED BY <1>7, <1>12, <1>14, <1>15, <1>16

(* proxyToOrigin: the probe, which is a simulation, is refused here.         *)
LEMMA ProxyToOriginSafe ==
  ASSUME ProxyInv, NEW r \in ProxyRequests, proxyToOrigin(r)
  PROVE  ProxyInv'
<1>1. /\ CrossesSafely(passing[r]) /\ passing[r].pc = "edge" /\ worker' = worker
      /\ worker \in {"old", "new"}
  BY DEF ProxyInv, proxyToOrigin, secrets
<1>2. passing[r] \in Progress /\ passing[r].via = "edge"
      /\ Vouches(passing[r].headers, connectingIp, passing[r].address)
  BY <1>1 DEF CrossesSafely
<1>3. CASE \E status \in {404, 500, 502} : Answer(r, status, safeResponseHeaders({}))
  BY <1>1, <1>3, AnswerSafe, ResponsesSafe
<1>4. CASE /\ passing[r].route \in {"other api", "mutation"}
           /\ Pass(r, [passing[r] EXCEPT !.pc = "origin", !.headers = originRequestHeaders(passing[r])])
  <2>1. PICK hs : hs = originRequestHeaders(passing[r]) OBVIOUS
  <2>2. hs \in Headers /\ Vouches(hs, TRUSTED_CLIENT_IP_HEADER, passing[r].address)
    BY <1>1, <1>2, <2>1, ForwardedVouch
  <2>3. PICK q : q = [passing[r] EXCEPT !.pc = "origin", !.headers = hs] OBVIOUS
  <2>4. q \in Progress /\ q.pc = "origin" /\ q.via = passing[r].via /\ q.headers = hs
        /\ q.address = passing[r].address /\ q.route = passing[r].route /\ q.shown = passing[r].shown
    BY <1>2, <2>2, <2>3 DEF Progress
  <2>5. CrossesSafely(q) BY <1>1, <1>2, <1>4, <2>2, <2>4 DEF CrossesSafely, Simulations
  <2> QED BY <1>1, <1>4, <2>1, <2>3, <2>5, PassSafe
<1>5. CASE passing[r].route = "probe" BY <1>3, <1>5 DEF proxyToOrigin
<1>6. CASE passing[r].route # "probe" /\ \E status \in {500, 502} : Answer(r, status, safeResponseHeaders({}))
  BY <1>3, <1>6
<1>7. CASE passing[r].route # "probe"
           /\ Pass(r, [passing[r] EXCEPT !.pc = "origin", !.headers = originRequestHeaders(passing[r])])
  <2>1. passing[r].route \in {"other api", "mutation"} BY <1>7 DEF proxyToOrigin
  <2> QED BY <1>4, <1>7, <2>1
<1> QED BY <1>5, <1>6, <1>7, Zenon DEF proxyToOrigin

(* The gate takes the caller's address from the header it trusts.            *)
LEMMA GateSafe ==
  ASSUME ProxyInv, NEW r \in ProxyRequests, Gate(r)
  PROVE  ProxyInv'
<1>1. /\ CrossesSafely(passing[r]) /\ passing[r] \in Progress /\ passing[r].pc = "origin"
      /\ worker' = worker
  BY DEF ProxyInv, Gate, CrossesSafely, secrets
<1>2. PICK ip : ip = IF TRUSTED_CLIENT_IP_HEADER \in DOMAIN passing[r].headers
                       /\ passing[r].headers[TRUSTED_CLIENT_IP_HEADER] \in Addresses
                     THEN passing[r].headers[TRUSTED_CLIENT_IP_HEADER] ELSE "unknown" OBVIOUS
<1>3. CASE Leave(r, 200) \/ Leave(r, 403) BY <1>1, <1>3, LeaveSafe
<1>4. CASE Pass(r, [passing[r] EXCEPT !.pc = "admitted", !.clientIp = ip])
  <2>1. passing[r].via = "edge" => ip = passing[r].address /\ passing[r].route \notin Simulations
    BY <1>1, <1>2 DEF CrossesSafely, Vouches
  <2>2. ip \in Addresses \cup {"unknown"} BY <1>2
  <2>3. PICK q : q = [passing[r] EXCEPT !.pc = "admitted", !.clientIp = ip] OBVIOUS
  <2>4. q \in Progress /\ q.pc = "admitted" /\ q.via = passing[r].via /\ q.address = passing[r].address
        /\ q.route = passing[r].route /\ q.shown = passing[r].shown /\ q.clientIp = ip
    BY <1>1, <2>2, <2>3 DEF Progress
  <2>5. CrossesSafely(q) BY <1>1, <2>1, <2>4 DEF CrossesSafely
  <2> QED BY <1>1, <1>4, <2>3, <2>5, PassSafe
<1> QED BY <1>2, <1>3, <1>4 DEF Gate

LEMMA ChargeSafe ==
  ASSUME ProxyInv, NEW r \in ProxyRequests, Charge(r)
  PROVE  ProxyInv'
<1>1. /\ CrossesSafely(passing[r]) /\ passing[r] \in Progress /\ passing[r].pc = "admitted"
      /\ passing[r].route \in Simulations /\ worker' = worker
  BY DEF ProxyInv, Charge, CrossesSafely, secrets
<1>2. CASE \E status \in {400, 413, 429} : Leave(r, status) BY <1>1, <1>2, LeaveSafe
<1>3. CASE Pass(r, [passing[r] EXCEPT !.pc = "rust"])
  <2>1. passing[r].via # "edge" BY <1>1 DEF CrossesSafely
  <2>2. PICK q : q = [passing[r] EXCEPT !.pc = "rust"] OBVIOUS
  <2>3. q \in Progress /\ q.pc = "rust" /\ q.via = passing[r].via BY <1>1, <2>2 DEF Progress
  <2>4. CrossesSafely(q) BY <2>1, <2>3 DEF CrossesSafely
  <2> QED BY <1>1, <1>3, <2>2, <2>4, PassSafe
<1> QED BY <1>2, <1>3 DEF Charge

LEMMA ServedHereSafe ==
  ASSUME ProxyInv, NEW r \in ProxyRequests, ServedHere(r)
  PROVE  ProxyInv'
<1>1. PICK status \in {200, 404, 503} : Answer(r, status, {}) BY DEF ServedHere
<1> QED BY <1>1, AnswerSafe, ResponsesSafe DEF ServedHere, secrets

(* BoundaryKept: the public reaches no simulation of the origin, is charged  *)
(* to no address but its own, and sees no private header of the origin       *)
(* (worker/proxy.ts and lib/origin-auth.ts), for any number of requests, sets of *)
(* addresses and claims, through a rotation of the secret at any time.       *)
THEOREM BoundaryIsKept == ProxySpec => []BoundaryKept
<1>1. ProxyInit => ProxyInv
  BY IdleIs DEF ProxyInit, ProxyInv, CrossesSafely, PrivatelyOurs
<1>2. ProxyInv /\ [ProxyNext]_proxyVars => ProxyInv'
  <2> SUFFICES ASSUME ProxyInv, [ProxyNext]_proxyVars PROVE ProxyInv' OBVIOUS
  <2>1. CASE passing' = passing /\ worker' \in {worker, "new"}
    <3>1. \A r \in ProxyRequests : CrossesSafely(passing[r])'
      BY <2>1 DEF ProxyInv, CrossesSafely, Vouches, PrivatelyOurs
    <3> QED BY <2>1, <3>1 DEF ProxyInv
  <2>2. ASSUME NEW r \in ProxyRequests, Arrive(r) PROVE ProxyInv' BY <2>2, ArriveSafe
  <2>3. ASSUME NEW r \in ProxyRequests, ArriveDirectly(r) PROVE ProxyInv' BY <2>3, ArriveDirectlySafe
  <2>4. ASSUME NEW r \in ProxyRequests, ServedHere(r) PROVE ProxyInv' BY <2>4, ServedHereSafe
  <2>5. ASSUME NEW r \in ProxyRequests, proxyToOrigin(r) PROVE ProxyInv' BY <2>5, ProxyToOriginSafe
  <2>6. ASSUME NEW r \in ProxyRequests, Gate(r) PROVE ProxyInv' BY <2>6, GateSafe
  <2>7. ASSUME NEW r \in ProxyRequests, Charge(r) PROVE ProxyInv' BY <2>7, ChargeSafe
  <2>8. ASSUME NEW r \in ProxyRequests, Compute(r) PROVE ProxyInv'
    BY <2>8, LeaveSafe DEF Compute, secrets
  <2>9. ASSUME NEW r \in ProxyRequests, NotFound(r) PROVE ProxyInv'
    BY <2>9, LeaveSafe DEF NotFound, secrets
  <2> QED
    BY <2>1, <2>2, <2>3, <2>4, <2>5, <2>6, <2>7, <2>8, <2>9
    DEF ProxyNext, UpdateWorker, UpdateOrigin, proxyVars
<1>3. ProxyInv => BoundaryKept
  BY DEF ProxyInv, CrossesSafely, PrivatelyOurs, BoundaryKept, AddressKept, ProbeStaysInside
<1> QED BY <1>1, <1>2, <1>3, PTL DEF ProxySpec
=============================================================================
