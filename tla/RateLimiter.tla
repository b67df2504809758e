---------------------------- MODULE RateLimiter -----------------------------
(***************************************************************************)
(* The in-process limiter of the Node server (src/apps/web/src/lib/          *)
(* rate-limit.ts): a sliding window per identifier in a bounded map, and one *)
(* overflow bucket per namespace for the identifiers that no longer fit.     *)
(* check runs without an await, so a call is one step.                       *)
(***************************************************************************)
EXTENDS Totals, Sequences

CONSTANTS
  Identifiers,      \* "<namespace>:<client address>"
  Namespaces,       \* the part before the first colon
  NamespaceOf,
  MaxStoreEntries,  \* MAX_STORE_ENTRIES
  limit,            \* the limit of every namespace
  windowMs,         \* the window, in ticks of the clock
  Costs,            \* what a request may cost
  Horizon           \* bound: the time of the last tick

(* No request costs more than its limit: the schemas bound the paths of one. *)
ASSUME LimiterAssumption ==
  /\ NamespaceOf \in [Identifiers -> Namespaces] /\ Identifiers \cap Namespaces = {}
  /\ MaxStoreEntries \in Nat \ {0} /\ {limit, windowMs, Horizon} \subseteq Nat
  /\ Costs \subseteq 1 .. limit

VARIABLES
  now,      \* Date.now()
  store,    \* the entries of the map in insertion order
  refusal,  \* the last call if it was refused, or <<>>
  spent,    \* history: what was granted through each key at each time
  evicted   \* history: keys whose entry had to make room for a bucket

limiterVars == <<now, store, refusal, spent, evicted>>

Times == 0..Horizon

(* An overflow bucket has its namespace for a key.  The requests of an entry *)
(* are added up by their time: nobody reads their order.                     *)
EntryKeys == Identifiers \cup Namespaces
Entry == [key : EntryKeys, requests : [Times -> Nat], resetTime : Nat]

LimiterTypeOK ==
  /\ now \in Times
  /\ store \in Seq(Entry)
  /\ \A m, n \in DOMAIN store : store[m].key = store[n].key => m = n
  /\ refusal = <<>> \/ refusal \in [key : EntryKeys, at : Times, cost : Costs]
  /\ spent \in [EntryKeys -> [Times -> Nat]] /\ evicted \subseteq EntryKeys

LimiterInit ==
  /\ now = 0 /\ store = <<>> /\ refusal = <<>> /\ evicted = {}
  /\ spent = [key \in EntryKeys |-> [t \in Times |-> 0]]

Stored(key) == \E n \in DOMAIN store : store[n].key = key
Index(key) == CHOOSE n \in DOMAIN store : store[n].key = key
Full == Len(store) >= MaxStoreEntries

(* Once the map is full a new identifier shares its namespace's bucket. *)
StoreKey(identifier) ==
  IF ~Stored(identifier) /\ Full THEN NamespaceOf[identifier] ELSE identifier

(* The oldest entry makes room for an overflow bucket. *)
MadeRoom(key) ==
  IF key \in Namespaces THEN Tail(store) ELSE store

Used(requests) == Total(requests, Times)

(* Requests inside the current window, and one more. *)
Live(requests) == [t \in Times |-> IF t > now - windowMs THEN requests[t] ELSE 0]
With(requests, cost) == [requests EXCEPT ![now] = @ + cost]
NoRequests == [t \in Times |-> 0]

Granted(key, cost) ==
  /\ refusal' = <<>>
  /\ spent' = [spent EXCEPT ![key][now] = @ + cost]

(* The first request of an entry is admitted unseen. *)
Open(key, cost) ==
  /\ ~Stored(key)
  /\ store' = Append(MadeRoom(key),
       [key |-> key, requests |-> With(NoRequests, cost), resetTime |-> now + windowMs])
  /\ evicted' = IF key \in Namespaces THEN evicted \cup {Head(store).key} ELSE evicted
  /\ Granted(key, cost)

(* A mistake: an entry ends with the window of its first request. *)
Extended_Never(resetTime) == resetTime
Extended(resetTime) == now + windowMs

Admit(key, cost) ==
  LET live == Live(store[Index(key)].requests) IN
  /\ Stored(key) /\ Used(live) + cost <= limit
  /\ store' = [store EXCEPT ![Index(key)] =
       [@ EXCEPT !.requests = With(live, cost), !.resetTime = Extended(@)]]
  /\ Granted(key, cost) /\ UNCHANGED evicted

Refuse(key, cost) ==
  LET live == Live(store[Index(key)].requests) IN
  /\ Stored(key) /\ Used(live) + cost > limit
  /\ store' = [store EXCEPT ![Index(key)].requests = live]
  /\ refusal' = [key |-> key, at |-> now, cost |-> cost]
  /\ UNCHANGED <<spent, evicted>>

check(identifier, cost) ==
  LET key == StoreKey(identifier) IN
  /\ \/ Open(key, cost)
     \/ Admit(key, cost)
     \/ Refuse(key, cost)
  /\ UNCHANGED now

Kept(entry) == now <= entry.resetTime

(* What the loop of the timer leaves of the first n entries. *)
kept[n \in 0 .. MaxStoreEntries] ==
  IF n = 0 THEN <<>>
  ELSE IF n <= Len(store) /\ Kept(store[n]) THEN Append(kept[n - 1], store[n])
  ELSE kept[n - 1]

(* The five-minute timer. *)
Cleanup ==
  /\ store' = kept[MaxStoreEntries]
  /\ UNCHANGED <<now, refusal, spent, evicted>>

Tick == now < Horizon /\ now' = now + 1 /\ UNCHANGED <<store, refusal, spent, evicted>>

LimiterNext ==
  \/ \E identifier \in Identifiers, cost \in Costs : check(identifier, cost)
  \/ Cleanup
  \/ Tick

LimiterSpec == LimiterInit /\ [][LimiterNext]_limiterVars

-----------------------------------------------------------------------------
(* What was granted through a key in the window that ends at a time. *)
InWindow(key, end) == Total(spent[key], {t \in Times : end - windowMs < t /\ t <= end})

(* The map stays well formed, with one entry of a key, and is bounded "under  *)
(* source-address churn" (rate-limit.ts:65-68): entries, overflow buckets     *)
(* included, never exceed MAX_STORE_ENTRIES.                                  *)
MemoryBounded == LimiterTypeOK /\ Len(store) <= MaxStoreEntries

(* A key, an identifier's own or the one an overflowing namespace shares, is   *)
(* never granted more than the limit in any window, whatever the cleanup     *)
(* timer drops in between; only an entry that had to make room forgets.       *)
SlidingBound ==
  \A key \in EntryKeys \ evicted : \A end \in Times : InWindow(key, end) <= limit

(* Conversely a request is refused only for what its key was granted in the   *)
(* last window.                                                              *)
RefusalJustified ==
  refusal # <<>> /\ refusal.at = now =>
    InWindow(refusal.key, now) + refusal.cost > limit

(* RateLimiter's promise about its memory and its windows.                    *)
LimiterExact == MemoryBounded /\ SlidingBound /\ RefusalJustified
=============================================================================
