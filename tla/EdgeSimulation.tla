--------------------------- MODULE EdgeSimulation ---------------------------
(***************************************************************************)
(* The simulation routes of the edge worker                                 *)
(* (src/apps/web/src/worker/simulation-routes.ts): every request is         *)
(* verified, charged to its identity's request budget, checked for          *)
(* membership through a colo cache (application-user.ts), validated,        *)
(* charged for its paths and forwarded to the Rust service                  *)
(* (lib/simulation-proxy.ts, rust-service.ts) under a time limit.  Each     *)
(* await is a point where other requests, the clock, the accounts and the   *)
(* caller move on.  The budgets live in the "simulation" shard of           *)
(* QuotaCounter, with two keys per identity.                                *)
(***************************************************************************)
EXTENDS QuotaCounter

CONSTANTS
  Requests,       \* requests the callers make
  Uids,           \* Firebase identities
  Who,            \* the identity of a request's bearer token
  Paths,          \* paths a request asks for, a batch's in total
  MembershipTtl,  \* MEMBERSHIP_TTL_SECONDS
  MaxLookup,      \* bound: how long an answer of the database takes to be cached
  Timeout,        \* MONTE_CARLO_TIMEOUT_MS or BATCH_TIMEOUT_MS
  Unsettled       \* bound: the identities whose row comes and goes in a run

RequestKey(u) == <<"simulate", u>>
PathKey(u) == <<"simulate-paths", u>>

ASSUME EdgeAssumption ==
  /\ IsFiniteSet(Requests)
  /\ Who \in [Requests -> Uids] /\ Paths \in [Requests -> Nat \ {0}]
  /\ Unsettled \subseteq Uids
  /\ {MembershipTtl, MaxLookup, Timeout} \subseteq Nat
  /\ Keys = {RequestKey(u) : u \in Uids} \cup {PathKey(u) : u \in Uids}

VARIABLES
  users,    \* the users table
  lastUser, \* history: when each identity last had its row
  cache,    \* when the cached membership of an identity runs out
  req       \* the handler of each request

memberVars == <<users, lastUser, cache>>
vars == <<now, objectVars, memberVars, req>>

(* The classes of the answers: a refusal (400, 401, 413, 429), "stranger"     *)
(* (403), a failure (499, 500, 502, 503, 504), or none yet.                  *)
Statuses == {"none", "done", "refused", "stranger", "failed"}

(* Longer ago than any membership that may still be trusted. *)
Never == -1 - MembershipTtl - MaxLookup

(* Where a handler waits: for the request budget, the colo cache, the         *)
(* database, the cache again, the body, the path budget, a token, Rust.      *)
Handler ==
  [at : {"idle", "request quota", "match", "lookup", "put", "body", "path quota",
         "token", "rust", "ended"},
   status  : Statuses,
   aborted : BOOLEAN,          \* c.req.raw.signal
   asked   : -1..Horizon,      \* when the database answered the row it will put
   queried : BOOLEAN,          \* history: it asked the database
   charged : -1..Horizon,      \* when its paths were charged, and its time limit began
   sent    : BOOLEAN,          \* history: it reached the Rust service
   member  : BOOLEAN,          \* history: it was taken for a member
   stale   : BOOLEAN,          \* history: of an identity long without a row
   absent  : BOOLEAN]          \* history: its identity lacked a row meanwhile

TypeOK ==
  /\ QuotaTypeOK
  /\ users \subseteq Uids /\ lastUser \in [Uids -> {Never} \cup 0..Horizon]
  /\ cache \in [Uids -> 0..Horizon + MembershipTtl]
  /\ req \in [Requests -> Handler]
  /\ \A r \in Requests : req[r].at = "ended" <=> req[r].status # "none"

Init ==
  /\ QuotaInit
  /\ users \in SUBSET Uids
  /\ lastUser = [u \in Uids |-> IF u \in users THEN 0 ELSE Never]
  /\ cache = [u \in Uids |-> 0]
  /\ req = [r \in Requests |->
       [at |-> "idle", status |-> "none", aborted |-> FALSE, asked |-> -1, queried |-> FALSE, charged |-> -1,
        sent |-> FALSE, member |-> FALSE, stale |-> FALSE, absent |-> FALSE]]

-----------------------------------------------------------------------------
(* Steps of a handler *)

Goes(r, handler) == req' = [req EXCEPT ![r] = handler]
To(r, place) == Goes(r, [req[r] EXCEPT !.at = place])

Ended(r, status) == [req[r] EXCEPT !.at = "ended", !.status = status, !.aborted = FALSE]
Ends(r, status) == Goes(r, Ended(r, status))

(* The catch of the route, whatever was thrown. *)
Fails(r) == Ends(r, "failed")

(* The token is verified or refused. *)
Begin(r) ==
  /\ req[r].at = "idle"
  /\ \/ Ends(r, "refused")
     \/ Goes(r, [req[r] EXCEPT !.at = "request quota", !.absent = Who[r] \notin users])
  /\ QuotaIdle /\ UNCHANGED <<now, memberVars>>

(* admit spends the request budget before the membership lookup. *)
ChargeRequest(r) ==
  /\ req[r].at = "request quota"
  /\ \/ Grant(RequestKey(Who[r]), 1) /\ To(r, "match")
     \/ Refuse(RequestKey(Who[r]), 1) /\ Ends(r, "refused")
  /\ UNCHANGED <<now, memberVars>>

Cached(u) == now < cache[u]

Admitted(r) ==
  Goes(r, [req[r] EXCEPT !.at = "body", !.asked = -1, !.member = TRUE,
                         !.stale = now - lastUser[Who[r]] >= MembershipTtl + MaxLookup])

(* A mistake: a cache that fails is taken for a stranger. *)
Match_FailsClosed(r) ==
  /\ req[r].at = "match"
  /\ \/ Cached(Who[r]) /\ Admitted(r)
     \/ Ends(r, "stranger")
  /\ QuotaIdle /\ UNCHANGED <<now, memberVars>>

(* match may miss, or fail, an entry that is there. *)
Match(r) ==
  /\ req[r].at = "match"
  /\ \/ Cached(Who[r]) /\ Admitted(r)
     \/ Goes(r, [req[r] EXCEPT !.at = "lookup"])
  /\ QuotaIdle /\ UNCHANGED <<now, memberVars>>

(* Only confirmed membership goes on to be cached; the query may fail. *)
LookUp(r) ==
  /\ req[r].at = "lookup"
  /\ \E answer \in {"row", "no row", "error"} :
       /\ answer = "row" => Who[r] \in users
       /\ answer = "no row" => Who[r] \notin users
       /\ LET handler == CASE answer = "row" -> [req[r] EXCEPT !.at = "put", !.asked = now]
                           [] answer = "no row" -> Ended(r, "stranger")
                           [] answer = "error" -> Ended(r, "failed")
          IN Goes(r, [handler EXCEPT !.queried = TRUE])
  /\ QuotaIdle /\ UNCHANGED <<now, memberVars>>

(* The entry lives for the TTL from the put on; a put that fails is ignored. *)
Put(r) ==
  /\ req[r].at = "put" /\ Admitted(r)
  /\ \/ cache' = [cache EXCEPT ![Who[r]] = now + MembershipTtl]
     \/ UNCHANGED cache
  /\ QuotaIdle /\ UNCHANGED <<now, users, lastUser>>

(* The size limit or the schema may refuse the body. *)
Validate(r) ==
  /\ req[r].at = "body"
  /\ Ends(r, "refused") \/ To(r, "path quota")
  /\ QuotaIdle /\ UNCHANGED <<now, memberVars>>

PathCost(r) == Paths[r]

(* The time limit of the proxy begins as the charge is granted. *)
ChargePaths(r) ==
  /\ req[r].at = "path quota"
  /\ \/ /\ Grant(PathKey(Who[r]), PathCost(r))
        /\ Goes(r, [req[r] EXCEPT !.at = "token", !.charged = now])
     \/ Refuse(PathKey(Who[r]), PathCost(r)) /\ Ends(r, "refused")
  /\ UNCHANGED <<now, memberVars>>

(* The call of the Durable Object may fail, before or after it was charged.   *)
QuotaFails(r) ==
  /\ \/ req[r].at \in {"request quota", "path quota"} /\ QuotaIdle
     \/ req[r].at = "request quota" /\ Grant(RequestKey(Who[r]), 1)
  /\ Fails(r)
  /\ UNCHANGED <<now, memberVars>>
PathReplyLost(r) ==
  /\ req[r].at = "path quota"
  /\ Grant(PathKey(Who[r]), PathCost(r))
  /\ Goes(r, [Ended(r, "failed") EXCEPT !.charged = now])
  /\ UNCHANGED <<now, memberVars>>

(* Minting is not under the limit and may fail; a fetch begun with a signal    *)
(* that has fired throws and nothing is sent.                                *)
Expired(r) == now >= req[r].charged + Timeout
Fetch(r) ==
  /\ req[r].at = "token"
  /\ \/ Fails(r)
     \/ ~req[r].aborted /\ ~Expired(r)
        /\ Goes(r, [req[r] EXCEPT !.at = "rust", !.sent = TRUE])
  /\ QuotaIdle /\ UNCHANGED <<now, memberVars>>

(* Rust answers, with a result or an error, or cannot be reached. *)
RustAnswers(r) ==
  /\ req[r].at = "rust"
  /\ Ends(r, "done") \/ Fails(r)
  /\ QuotaIdle /\ UNCHANGED <<now, memberVars>>

(* A mistake: only the caller's signal reaches the fetch. *)
Aborts_CallerOnly(r) == req[r].aborted

(* AbortSignal.any of the caller's signal and the time limit. *)
Aborts(r) == req[r].aborted \/ Expired(r)

RustAborted(r) ==
  /\ req[r].at = "rust" /\ Aborts(r)
  /\ Fails(r)
  /\ QuotaIdle /\ UNCHANGED <<now, memberVars>>

Handle(r) ==
  \/ Begin(r) \/ ChargeRequest(r) \/ QuotaFails(r) \/ Match(r) \/ LookUp(r) \/ Put(r)
  \/ Validate(r) \/ ChargePaths(r) \/ PathReplyLost(r) \/ Fetch(r)

-----------------------------------------------------------------------------
(* The surroundings *)

CallerLeaves(r) ==
  /\ req[r].at \notin {"idle", "ended"} /\ ~req[r].aborted
  /\ req' = [req EXCEPT ![r].aborted = TRUE]
  /\ QuotaIdle /\ UNCHANGED <<now, memberVars>>

(* The row is made by the sign-up route and removed by an operator. *)
Register(u) ==
  /\ u \notin users
  /\ users' = users \cup {u} /\ lastUser' = [lastUser EXCEPT ![u] = now]
  /\ QuotaIdle /\ UNCHANGED <<now, cache, req>>
Remove(u) ==
  /\ u \in users
  /\ users' = users \ {u}
  /\ req' = [r \in Requests |-> IF Who[r] = u THEN [req[r] EXCEPT !.absent = TRUE] ELSE req[r]]
  /\ QuotaIdle /\ UNCHANGED <<now, lastUser, cache>>

Alarm == alarm /\ UNCHANGED <<memberVars, req>>

(* The cache drops an entry that ran out; a put is never later than MaxLookup. *)
Tick ==
  /\ now < Horizon /\ now' = now + 1
  /\ \A r \in Requests : req[r].at = "put" => now < req[r].asked + MaxLookup
  /\ lastUser' = [u \in Uids |-> IF u \in users THEN now + 1 ELSE lastUser[u]]
  /\ QuotaIdle /\ UNCHANGED <<users, cache, req>>

Next ==
  \/ \E r \in Requests : Handle(r) \/ RustAnswers(r) \/ RustAborted(r) \/ CallerLeaves(r)
  \/ \E u \in Unsettled : Register(u) \/ Remove(u)
  \/ Alarm
  \/ Tick

Spec == Init /\ [][Next]_vars

(* The worker runs its handlers, a signal that has fired aborts the fetch and *)
(* time passes; nothing is assumed of Rust or of the caller.                 *)
FairSpec ==
  /\ Spec /\ WF_vars(Tick)
  /\ \A r \in Requests : WF_vars(Handle(r)) /\ WF_vars(RustAborted(r))

-----------------------------------------------------------------------------
(* Requests of an identity whose paths were charged at some time of a set. *)
ChargedIn(u, times) == {r \in Requests : Who[r] = u /\ req[r].charged \in times}
PathsOf(rs) == Total(Paths, rs)

(* "Everything a client can inflate is clamped": the paths an identity gets   *)
(* to the Rust service in a window never exceed its budget, however its      *)
(* requests interleave, time out or are abandoned.                           *)
ComputeBudgeted ==
  \A u \in Uids : \A start \in Opens(PathKey(u)) :
    PathsOf({r \in ChargedIn(u, WindowFrom(start)) : req[r].sent}) <= Limit[PathKey(u)]

(* A request is charged for its paths once and only when every earlier check  *)
(* passed: what the shard holds spent is what those requests ask for, and    *)
(* nothing reaches Rust unpaid. "A Firebase identity with no account here     *)
(* cannot drive unbounded database queries" (simulation-routes.ts:66): the   *)
(* queries made for an identity are never more than its granted requests.    *)
ChargesMatch ==
  /\ \A u \in Uids, t \in Times :
       spent[PathKey(u)][t] = PathsOf(ChargedIn(u, {t}))
  /\ \A r \in Requests :
       /\ req[r].sent => req[r].charged >= 0
       /\ req[r].charged >= 0 => req[r].member
  /\ \A u \in Uids :
       Cardinality({r \in Requests : Who[r] = u /\ req[r].queried})
         <= Total(spent[RequestKey(u)], Times)

(* EdgeSimulation's promise about its budgets.                                *)
Budgeted == BudgetKept /\ DecisionTrue /\ ComputeBudgeted /\ ChargesMatch

(* "Bounded revocation delay on a cached membership answer"                   *)
(* (application-user.ts:2): whoever is taken for a member had the row within *)
(* the TTL and the time its answer took to be cached.                        *)
RevocationBounded == \A r \in Requests : ~req[r].stale

(* "Only confirmed membership is cached" (application-user.ts:19): nobody is  *)
(* refused as a stranger who had the row for as long as the request lasted.  *)
NoMemberLockedOut == \A r \in Requests : req[r].status = "stranger" => req[r].absent

(* EdgeSimulation's promise about membership, in records of the right kind.   *)
MembershipTimely == TypeOK /\ RevocationBounded /\ NoMemberLockedOut

(* Every request ends although Rust may never answer: its time limit, when it *)
(* falls within the horizon, reaches it wherever it waits.                   *)
InTime(r) == req[r].charged >= 0 => req[r].charged + Timeout <= Horizon
RequestsEnd ==
  \A r \in Requests : req[r].at # "idle" ~> req[r].at = "ended" \/ ~InTime(r)
=============================================================================
