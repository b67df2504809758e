------------------------------ MODULE IdToken ------------------------------
(* How a caller of the private Rust service gets its Google identity token. *)
(* A Worker isolate signs an assertion with the service-account key of its  *)
(* environment and exchanges it at Google; the token, or the mint that will *)
(* produce it, is remembered by the isolate and, for less than the token's  *)
(* life, by a cache its colo shares.  The Node origin keeps the promise of  *)
(* a token client instead.  The key rotates under all of them.  Time passes *)
(* in ticks; a continuation runs before anything else happens.              *)
EXTENDS Integers, FiniteSets

CONSTANTS Calls,          \* the calls to the Rust service
          Isolates,       \* the Worker isolates of a colo
          Origin,         \* the Node server
          Placements,     \* where the requests may run: request -> host
          LastKey,        \* key ids are 1 .. LastKey
          Lifetime,       \* how long Google's tokens live
          CacheLifetime,  \* CACHE_LIFETIME_SECONDS
          Spread,         \* CACHE_SPREAD_SECONDS
          Margin,         \* EXPIRY_MARGIN_SECONDS
          MaxTime,        \* bound on the clock
          MaxFaults       \* bound on failing calls

(* Tokens live longer than the margin they are no longer used in.           *)
ASSUME TokenAssumption ==
  /\ Placements \subseteq [Calls -> Isolates \cup {Origin}] /\ Origin \notin Isolates
  /\ LastKey \in Nat \ {0} /\ {CacheLifetime, Spread, Margin, MaxTime, MaxFaults} \subseteq Nat
  /\ Lifetime \in Nat /\ Margin < Lifetime

VARIABLES host,        \* request -> the isolate or server that makes it
          clock,
          deployed,    \* the key the deployment's environment holds
          signingKey,  \* isolate -> the imported key's id, 0 for none
          current,     \* isolate -> the mint it remembers
          client,      \* the request whose token client the origin keeps, if any
          tokens,      \* key id -> the token the colo cache holds
          mint,        \* request -> the promise it created
          call,        \* request -> its progress
          faults       \* how many calls have failed

tokenVars == <<host, clock, deployed, signingKey, current, client, tokens, mint, call, faults>>
memos == <<signingKey, current, client>>

Nothing == [none |-> TRUE]
NoCall == [pc |-> "idle", key |-> 0, since |-> 0, of |-> Nothing]
NoMint == [state |-> "none", key |-> 0, expires |-> 0]

TokenInit ==
  /\ host \in Placements
  /\ clock = 0 /\ faults = 0 /\ deployed = 1
  /\ signingKey = [i \in Isolates |-> 0]
  /\ current = [i \in Isolates |-> Nothing]
  /\ client = {}
  /\ tokens = [k \in 1 .. LastKey |-> Nothing]
  /\ mint = [r \in Calls |-> NoMint]
  /\ call = [r \in Calls |-> NoCall]

(* usableToken: the token outlives any request that starts with it now.     *)
usableToken(expires) == expires - Margin > clock

Settled(r) == mint[r].state \in {"minted", "failed"}

(* The continuations that are due: each runs before any new event.          *)
Due == {r \in Calls :
          \/ call[r].pc = "calling"
          \/ call[r].pc \in {"joined", "minting"} /\ Settled(call[r].of)}
Event == Due = {}

Fault == faults < MaxFaults /\ faults' = faults + 1
Ok == UNCHANGED faults
Started(r) == [pc |-> "joined", key |-> deployed, since |-> faults, of |-> r]

----------------------------------------------------------------------------
(* The edge. *)

(* A mint of the request's own becomes the one its isolate remembers.       *)
BeginMint(r, q) ==
  /\ mint' = [mint EXCEPT ![r] = [NoMint EXCEPT !.state = "matching"]]
  /\ current' = [current EXCEPT ![host[r]] = [key |-> q.key, of |-> r]]
  /\ call' = [call EXCEPT ![r] = [q EXCEPT !.pc = "minting", !.of = r]]

(* The isolate remembers a mint for the key of this request.                *)
Remembers(r) == current[host[r]] # Nothing /\ current[host[r]].key = deployed

(* googleIdToken up to its first wait: join the remembered mint or begin one. *)
googleIdToken(r) ==
  /\ Event /\ call[r].pc = "idle" /\ host[r] \in Isolates
  /\ IF Remembers(r)
     THEN /\ call' = [call EXCEPT ![r] = [Started(r) EXCEPT !.of = current[host[r]].of]]
          /\ UNCHANGED <<mint, current>>
     ELSE BeginMint(r, Started(r))
  /\ UNCHANGED <<host, clock, deployed, signingKey, client, tokens, faults>>

(* The joined mint has settled: use its token if it still may be used, and  *)
(* begin a mint of one's own otherwise.                                     *)
Joined(r) ==
  LET q == call[r]
      m == mint[q.of]
  IN /\ q.pc = "joined" /\ Settled(q.of) /\ host[r] \in Isolates
     /\ IF m.state = "minted" /\ usableToken(m.expires)
        THEN /\ call' = [call EXCEPT ![r].pc = "calling"]
             /\ UNCHANGED <<mint, current>>
        ELSE BeginMint(r, q)
     /\ UNCHANGED <<host, clock, deployed, signingKey, client, tokens, faults>>

(* cachedToken: a usable hit of the colo cache settles the mint; a miss or  *)
(* an unreadable cache sends it to Google.                                  *)
cachedToken(r) ==
  LET entry == tokens[call[r].key]
      hit == entry # Nothing /\ entry.until > clock /\ usableToken(entry.expires)
  IN
  /\ Event /\ mint[r].state = "matching"
  /\ \/ /\ hit
        /\ mint' = [mint EXCEPT ![r] = [state |-> "minted", key |-> entry.key,
                                        expires |-> entry.expires]]
        /\ Ok
     \/ /\ ~hit
        /\ mint' = [mint EXCEPT ![r].state = "exchanging"]
        /\ Ok
     \/ mint' = [mint EXCEPT ![r].state = "exchanging"] /\ Fault
  /\ UNCHANGED <<host, clock, deployed, memos, tokens, call>>

(* importSigningKey as it was without the id beside the key. *)
importSigningKey_Once(i, key) == IF signingKey[i] = 0 THEN key ELSE signingKey[i]

(* importSigningKey: the imported key is kept together with its id.         *)
importSigningKey(i, key) == IF signingKey[i] # key THEN key ELSE signingKey[i]

(* exchangeForIdToken: the assertion names the request's key and is signed  *)
(* by the imported one; Google refuses it when they differ.  A failed       *)
(* import is forgotten.                                                     *)
exchangeForIdToken(r) ==
  LET i == host[r]
      key == call[r].key
      signer == importSigningKey(i, key)
  IN /\ Event /\ mint[r].state = "exchanging"
     /\ \/ /\ signingKey' = [signingKey EXCEPT ![i] = signer]
           /\ mint' = [mint EXCEPT ![r] =
                IF signer = key
                THEN [state |-> "storing", key |-> key, expires |-> clock + Lifetime]
                ELSE [NoMint EXCEPT !.state = "failed"]]
           /\ Ok
        \/ /\ signingKey' \in {signingKey, [signingKey EXCEPT ![i] = 0]}
           /\ mint' = [mint EXCEPT ![r].state = "failed"]
           /\ Fault
     /\ UNCHANGED <<host, clock, deployed, current, client, tokens, call>>

(* cacheToken: how long the colo keeps a token, at most to its margin.      *)
Until(expires, spread) ==
  IF CacheLifetime - spread < expires - clock - Margin
  THEN clock + CacheLifetime - spread ELSE expires - Margin

cacheToken(r) ==
  /\ Event /\ mint[r].state = "storing"
  /\ \/ /\ \E spread \in 0 .. Spread :
             tokens' = [tokens EXCEPT ![call[r].key] =
               [key |-> mint[r].key, expires |-> mint[r].expires,
                until |-> Until(mint[r].expires, spread)]]
        /\ Ok
     \/ UNCHANGED tokens /\ Fault
  /\ mint' = [mint EXCEPT ![r].state = "minted"]
  /\ UNCHANGED <<host, clock, deployed, memos, call>>

(* The request's own mint has settled; a failed one is forgotten unless     *)
(* another has taken its place.                                             *)
Minted(r) ==
  LET i == host[r] IN
  /\ call[r].pc = "minting" /\ Settled(r)
  /\ IF mint[r].state = "minted"
     THEN call' = [call EXCEPT ![r].pc = "calling"] /\ UNCHANGED current
     ELSE /\ call' = [call EXCEPT ![r].pc = "failed"]
          /\ current' = [current EXCEPT ![i] = IF @ # Nothing /\ @.of = r THEN Nothing ELSE @]
  /\ UNCHANGED <<host, clock, deployed, signingKey, client, tokens, mint, faults>>

----------------------------------------------------------------------------
(* The origin. *)

(* getAuthorizationHeader up to its first wait. *)
getAuthorizationHeader(r) ==
  /\ Event /\ call[r].pc = "idle" /\ host[r] = Origin
  /\ IF client = {}
     THEN /\ client' = {r}
          /\ mint' = [mint EXCEPT ![r].state = "pending"]
          /\ call' = [call EXCEPT ![r] = Started(r)]
     ELSE /\ call' = [call EXCEPT ![r] = [Started(r) EXCEPT !.of = CHOOSE c \in client : TRUE]]
          /\ UNCHANGED <<client, mint>>
  /\ UNCHANGED <<host, clock, deployed, signingKey, current, tokens, faults>>

(* The metadata server answers for a client, or does not. *)
ClientSettles(r) ==
  /\ Event /\ mint[r].state = "pending"
  /\ \/ mint' = [mint EXCEPT ![r].state = "minted"] /\ Ok
     \/ mint' = [mint EXCEPT ![r].state = "failed"] /\ Fault
  /\ UNCHANGED <<host, clock, deployed, memos, tokens, call>>

(* The client and its token; or the failure of either, which drops whatever *)
(* client the origin keeps by then; or headers without a token.             *)
HeaderReady(r) ==
  LET q == call[r] IN
  /\ q.pc = "joined" /\ Settled(q.of) /\ host[r] = Origin
  /\ \/ /\ mint[q.of].state = "minted" /\ Ok
        /\ call' = [call EXCEPT ![r].pc = "calling"]
        /\ UNCHANGED client
     \/ /\ IF mint[q.of].state = "minted" THEN Fault ELSE Ok
        /\ call' = [call EXCEPT ![r].pc = "failed"]
        /\ client' = {}
     \/ /\ mint[q.of].state = "minted" /\ Fault
        /\ call' = [call EXCEPT ![r].pc = "failed"]
        /\ UNCHANGED client
  /\ UNCHANGED <<host, clock, deployed, signingKey, current, tokens, mint>>

----------------------------------------------------------------------------
(* The call itself, with the token in its header, by the edge ... *)
Called(r) ==
  /\ call[r].pc = "calling"
  /\ \/ call' = [call EXCEPT ![r].pc = "done"] /\ Ok
     \/ call' = [call EXCEPT ![r].pc = "failed"] /\ Fault
  /\ UNCHANGED <<host, clock, deployed, memos, tokens, mint>>
edgeRustService(r) == host[r] \in Isolates /\ Called(r)

(* ... and by the origin. *)
fetchRustService(r) == host[r] = Origin /\ Called(r)

(* A new service-account key is deployed. *)
Rotate ==
  /\ Event /\ deployed < LastKey
  /\ deployed' = deployed + 1
  /\ UNCHANGED <<host, clock, memos, tokens, mint, call, faults>>

(* The runtime drops an isolate that serves no request. *)
Evict(i) ==
  /\ Event
  /\ \A r \in Calls : host[r] = i => call[r].pc \in {"idle", "done", "failed"}
  /\ signingKey' = [signingKey EXCEPT ![i] = 0]
  /\ current' = [current EXCEPT ![i] = Nothing]
  /\ UNCHANGED <<host, clock, deployed, client, tokens, mint, call, faults>>

(* A tick; the colo cache answers and stores within one.                    *)
ClockTicks ==
  /\ Event /\ clock < MaxTime
  /\ \A r \in Calls : mint[r].state \notin {"matching", "storing"}
  /\ clock' = clock + 1
  /\ UNCHANGED <<host, deployed, memos, tokens, mint, call, faults>>

Step(r) ==
  Joined(r) \/ cachedToken(r) \/ exchangeForIdToken(r) \/ cacheToken(r) \/ Minted(r)
    \/ ClientSettles(r) \/ HeaderReady(r)
    \/ edgeRustService(r) \/ fetchRustService(r)

TokenNext ==
  \/ \E r \in Calls : googleIdToken(r) \/ getAuthorizationHeader(r) \/ Step(r)
  \/ \E i \in Isolates : Evict(i)
  \/ Rotate \/ ClockTicks

TokenSpec == TokenInit /\ [][TokenNext]_tokenVars

----------------------------------------------------------------------------
(* A call goes out with a token that lives beyond its start by the margin   *)
(* and that the key of the call's own environment earned: neither a memo, a *)
(* shared cache nor a joined mint carries a token over its expiry or over a *)
(* rotation.                                                                *)
TokenFits ==
  \A r \in Calls :
    call[r].pc = "calling" /\ host[r] \in Isolates =>
      LET m == mint[call[r].of] IN
      m.key = call[r].key /\ m.expires - Margin > clock

(* A request fails only when something failed while it ran: no failed mint, *)
(* key import or token client is replayed to a request that began after it. *)
FailureNotReplayed ==
  \A r \in Calls : call[r].pc = "failed" => faults > call[r].since

(* IdToken's promise about the calls that leave and the calls that fail.    *)
TokensRight == TokenFits /\ FailureNotReplayed
=============================================================================
