----------------------------- MODULE EdgeProxy -----------------------------
(* The way of a request through the Worker to the Node origin behind it.    *)
(* The Worker answers its own subsystems, missing assets and navigations,   *)
(* and forwards the rest with headers of its own; the origin admits only    *)
(* callers that know the shared secret, which is rotated on both sides one  *)
(* after the other.  The deploy pipeline reaches the origin directly.       *)
EXTENDS Integers, FiniteSets

CONSTANTS ProxyRequests,  \* the requests
          Addresses,      \* the network addresses of callers
          Claimed,        \* the address a client's own headers claim
          ProxyLimit      \* SIMULATION_RATE_LIMIT and its path budget, per key

VARIABLES worker,   \* ORIGIN_SECRET of the Worker
          origin,   \* ORIGIN_SECRET and ORIGIN_SECRET_PREVIOUS of the origin
          charged,  \* rate-limit key -> simulations charged to it
          passing   \* request -> its progress

proxyVars == <<worker, origin, charged, passing>>
secrets == <<worker, origin>>

(* What a path and a method amount to for the two routers, which read it     *)
(* alike as long as the platform normalizes URLs before the worker's turn.   *)
Subsystems == {"profile", "accounts", "sync-user", "monte-carlo", "batch"}
Simulations == {"monte-carlo", "batch", "probe"}
Routes == Subsystems \cup {"probe", "other api", "asset", "page", "mutation", "healthz"}

(* Headers a browser may send.  Cloudflare overwrites the connecting address. *)
Sendable == {"x-forwarded-for", "x-retire-plan-client-ip", "x-retire-plan-origin-secret"}
connectingIp == "cf-connecting-ip"
TRUSTED_CLIENT_IP_HEADER == "x-retire-plan-client-ip"
ORIGIN_SECRET_HEADER == "x-retire-plan-origin-secret"
REQUEST_ID_HEADER == "x-retire-plan-request-id"

(* As protectedRequestHeader, without the prefix of the app's own headers. *)
protectedRequestHeader_NotOwn(name) == name \in {connectingIp, "x-forwarded-for"}

(* The headers of a request the Worker never forwards. *)
protectedRequestHeader(name) ==
  name \in {connectingIp, "x-forwarded-for", TRUSTED_CLIENT_IP_HEADER,
            ORIGIN_SECRET_HEADER, REQUEST_ID_HEADER}

(* The origin's answer, and the names the public never sees from it. *)
private == {"x-powered-by", "x-cloud-trace-context", REQUEST_ID_HEADER}
upstream == {[name |-> h, by |-> "origin"] : h \in private \cup {"content-type"}}

(* safeResponseHeaders and responseWithRequestId. *)
safeResponseHeaders(headers) ==
  {h \in headers : h.name \notin private}
    \cup {[name |-> REQUEST_ID_HEADER, by |-> "worker"]}

Idle == [pc |-> "idle", via |-> "edge", route |-> "page", address |-> "none",
         headers |-> [h \in {} |-> ""], clientIp |-> "unknown", status |-> 0,
         shown |-> {}]

ProxyInit ==
  /\ worker = "old" /\ origin = [current |-> "old", previous |-> ""]
  /\ charged = [k \in Addresses \cup {"unknown"} |-> 0]
  /\ passing = [r \in ProxyRequests |-> Idle]

Overlay(f, g) == [h \in DOMAIN f \cup DOMAIN g |-> IF h \in DOMAIN g THEN g[h] ELSE f[h]]
Pass(r, q) == passing' = [passing EXCEPT ![r] = q]
Answer(r, status, shown) ==
  Pass(r, [Idle EXCEPT !.pc = "answered", !.via = passing[r].via, !.status = status,
                       !.shown = shown])

----------------------------------------------------------------------------
(* A browser's request arrives at the Worker, with whatever headers it likes. *)
Arrive(r) ==
  /\ passing[r].pc = "idle"
  /\ \E route \in Routes, sent \in SUBSET Sendable, ip \in Addresses \cup {"unknown"} :
       Pass(r, [Idle EXCEPT !.pc = "edge", !.route = route, !.address = ip,
         !.headers = Overlay([h \in sent |-> Claimed],
                             [h \in IF ip \in Addresses THEN {connectingIp} ELSE {} |-> ip])])
  /\ UNCHANGED <<secrets, charged>>

(* fetch of the Worker, for what it answers without the origin: a subsystem, *)
(* a missing asset, or the shell, which may be unavailable.                  *)
ServedHere(r) ==
  LET q == passing[r] IN
  /\ q.pc = "edge"
  /\ \/ q.route \in Subsystems /\ Answer(r, 200, {})
     \/ q.route = "asset" /\ Answer(r, 404, {})
     \/ q.route \in {"page", "healthz"} /\ \E status \in {200, 503} : Answer(r, status, {})
  /\ UNCHANGED <<secrets, charged>>

(* originRequestHeaders: the client's own, except the protected ones, and   *)
(* those the Worker vouches for: the secret and the connecting address.     *)
originRequestHeaders(q) ==
  LET kept == {h \in DOMAIN q.headers : ~protectedRequestHeader(h)}
      known == {c \in {connectingIp} : c \in DOMAIN q.headers}
  IN Overlay([h \in kept |-> q.headers[h]],
       Overlay([h \in {ORIGIN_SECRET_HEADER} |-> worker],
               [h \in {TRUSTED_CLIENT_IP_HEADER : c \in known} |-> q.headers[connectingIp]]))

(* proxyToOrigin: refuse the internal paths, forward the rest; 500 without  *)
(* a configuration, 502 when the origin cannot be reached.                  *)
proxyToOrigin(r) ==
  LET q == passing[r] IN
  /\ q.pc = "edge"
  /\ q.route \in {"probe", "other api", "mutation"}
  /\ IF q.route = "probe"
     THEN Answer(r, 404, safeResponseHeaders({}))
     ELSE \/ Pass(r, [q EXCEPT !.pc = "origin", !.headers = originRequestHeaders(q)])
          \/ \E status \in {500, 502} : Answer(r, status, safeResponseHeaders({}))
  /\ UNCHANGED <<secrets, charged>>

(* The deploy pipeline calls the origin with the secret it reads at its     *)
(* start, and anyone may call it without.                                   *)
ArriveDirectly(r) ==
  /\ passing[r].pc = "idle"
  /\ \E route \in Simulations \cup {"healthz"}, secret \in {"old", "new", "stale"} :
       Pass(r, [Idle EXCEPT !.pc = "origin", !.via = "direct", !.route = route,
                            !.headers = [h \in {ORIGIN_SECRET_HEADER} |-> secret]])
  /\ UNCHANGED <<secrets, charged>>

----------------------------------------------------------------------------
(* The origin. *)

(* verifyOriginSecret: either secret of a rotation, never an empty one. *)
originSecretCandidates == {origin.current, origin.previous} \ {""}
verifyOriginSecret(q) ==
  /\ ORIGIN_SECRET_HEADER \in DOMAIN q.headers
  /\ q.headers[ORIGIN_SECRET_HEADER] \in originSecretCandidates

(* An answer of the origin on its way out: the Worker drops the origin's    *)
(* private headers and puts its own request id.                             *)
Leave(r, status) ==
  Answer(r, status, IF passing[r].via = "direct" THEN upstream
                                                 ELSE safeResponseHeaders(upstream))

(* The secret gate, before every handler but the health check. *)
Gate(r) ==
  LET q == passing[r] IN
  /\ q.pc = "origin"
  /\ \/ q.route = "healthz" /\ Leave(r, 200)
     \/ q.route # "healthz" /\ ~verifyOriginSecret(q) /\ Leave(r, 403)
     \/ /\ q.route # "healthz" /\ verifyOriginSecret(q)
        /\ Pass(r, [q EXCEPT !.pc = "admitted",
             !.clientIp = IF TRUSTED_CLIENT_IP_HEADER \in DOMAIN q.headers
                             /\ q.headers[TRUSTED_CLIENT_IP_HEADER] \in Addresses
                          THEN q.headers[TRUSTED_CLIENT_IP_HEADER] ELSE "unknown"])
  /\ UNCHANGED <<secrets, charged>>

(* The three simulation handlers charge the caller's address before they    *)
(* read the body, and refuse what exceeds its budget.                       *)
Charge(r) ==
  LET q == passing[r] IN
  /\ q.pc = "admitted" /\ q.route \in Simulations
  /\ IF charged[q.clientIp] >= ProxyLimit
     THEN Leave(r, 429) /\ UNCHANGED charged
     ELSE /\ charged' = [charged EXCEPT ![q.clientIp] = @ + 1]
          /\ \/ Pass(r, [q EXCEPT !.pc = "rust"])
             \/ \E status \in {400, 413} : Leave(r, status)
  /\ UNCHANGED secrets

(* The Rust service answers, is unreachable, fails or takes too long. *)
Compute(r) ==
  /\ passing[r].pc = "rust"
  /\ \E status \in {200, 499, 500, 502, 503, 504} : Leave(r, status)
  /\ UNCHANGED <<secrets, charged>>

(* Every other path under the API is unknown to the origin by now. *)
NotFound(r) ==
  /\ passing[r].pc = "admitted" /\ passing[r].route \notin Simulations
  /\ Leave(r, 404)
  /\ UNCHANGED <<secrets, charged>>

----------------------------------------------------------------------------
(* A rotation of the secret: one deployment of each side, in any order.     *)
UpdateWorker ==
  /\ worker = "old" /\ worker' = "new"
  /\ UNCHANGED <<origin, charged, passing>>

UpdateOrigin ==
  /\ origin.current = "old"
  /\ origin' = [current |-> "new", previous |-> "old"]
  /\ UNCHANGED <<worker, charged, passing>>

ProxyNext ==
  \/ \E r \in ProxyRequests :
       Arrive(r) \/ ArriveDirectly(r) \/ ServedHere(r) \/ proxyToOrigin(r) \/ Gate(r)
         \/ Charge(r) \/ Compute(r) \/ NotFound(r)
  \/ UpdateWorker \/ UpdateOrigin

ProxySpec == ProxyInit /\ [][ProxyNext]_proxyVars

----------------------------------------------------------------------------
(* The public makes the origin compute nothing: the Worker, whose secret    *)
(* opens every door of the origin, forwards none of its simulation routes.  *)
ProbeStaysInside ==
  \A r \in ProxyRequests : passing[r].via = "edge" => passing[r].pc # "rust"

(* The origin charges a forwarded request to the address it came from and   *)
(* never to one its headers claim, and of what the origin's answer carries  *)
(* the public sees only the Worker's own request id.                        *)
AddressKept ==
  \A r \in ProxyRequests : passing[r].via = "edge" =>
    /\ passing[r].pc \in {"admitted", "rust"} => passing[r].clientIp = passing[r].address
    /\ \A h \in passing[r].shown : h.name \in private => h.by = "worker"

(* EdgeProxy's promise about what crosses the boundary, either way.         *)
BoundaryKept == AddressKept /\ ProbeStaysInside

(* origin-auth.ts says that accepting the outgoing secret beside the        *)
(* incoming one lets both sides be updated in either order: no request of   *)
(* the Worker is refused in the window between the two updates.             *)
RotationInEitherOrder ==
  \A r \in ProxyRequests : passing[r].via = "edge" => passing[r].status # 403
=============================================================================
