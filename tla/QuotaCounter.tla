---------------------------- MODULE QuotaCounter ----------------------------
(***************************************************************************)
(* One shard of the QuotaCounter Durable Object                             *)
(* (src/apps/web/src/worker/quota-counter.ts): a row per key holding what   *)
(* the open window has spent and when it closes, and the object's single    *)
(* alarm.  The input gate of a Durable Object delivers no other event while *)
(* it waits for its storage, so consume and alarm are each one step; the    *)
(* object keeps nothing in memory, so an eviction changes nothing.  Its     *)
(* steps are taken by the modules of its callers, which extend this one.    *)
(***************************************************************************)
EXTENDS Totals

CONSTANTS
  Keys,      \* identities with a budget of their own
  Limit,     \* budget.limit of each key
  windowMs,  \* budget.windowMs, in ticks of the clock
  Horizon    \* bound: the time of the last tick

ASSUME BudgetAssumption ==
  /\ Limit \in [Keys -> Nat] /\ windowMs \in Nat \ {0}
  /\ Horizon \in Nat

VARIABLES
  now,       \* Date.now()
  stored,    \* the row of each key, or None
  alarmAt,   \* the time the alarm is set to, or None
  decision,  \* the QuotaDecision just answered
  spent      \* history: what was granted to each key at each time

objectVars == <<stored, alarmAt, decision, spent>>

Times == 0..Horizon
None == [used |-> 0, reset |-> 0]   \* no row: its window is over at any time
NoAlarm == -1
Row == [used : Nat, reset : Nat]
Decision == [key : Keys, cost : Nat, success : BOOLEAN,
             reset : Nat, remaining : Int]

QuotaTypeOK ==
  /\ now \in Times
  /\ stored \in [Keys -> Row]
  /\ alarmAt \in Nat \cup {NoAlarm}
  /\ decision \in Decision \cup {<<>>}
  /\ spent \in [Keys -> [Times -> Nat]]

QuotaInit ==
  /\ now = 0 /\ stored = [k \in Keys |-> None] /\ alarmAt = NoAlarm
  /\ decision = <<>> /\ spent = [k \in Keys |-> [t \in Times |-> 0]]

(* The window a call at this time is charged to. *)
Window(key) ==
  IF stored[key].reset > now THEN stored[key]
  ELSE [used |-> 0, reset |-> now + windowMs]

Refused(window, key, cost) == window.used + cost > Limit[key]

Decide(window, key, cost, success) ==
  decision' = [key |-> key, cost |-> cost, success |-> success,
               reset |-> window.reset,
               remaining |-> Limit[key] - window.used - IF success THEN cost ELSE 0]

Refuse(key, cost) ==
  /\ Refused(Window(key), key, cost)
  /\ Decide(Window(key), key, cost, FALSE)
  /\ UNCHANGED <<stored, alarmAt, spent>>

(* setAlarm replaces the alarm the object had. *)
Grant(key, cost) ==
  LET window == Window(key) IN
  /\ ~Refused(window, key, cost)
  /\ Decide(window, key, cost, TRUE)
  /\ stored' = [stored EXCEPT ![key] = [window EXCEPT !.used = @ + cost]]
  /\ alarmAt' = window.reset
  /\ spent' = [spent EXCEPT ![key][now] = @ + cost]

consume(key, cost) ==
  (Refuse(key, cost) \/ Grant(key, cost)) /\ UNCHANGED now

(* A mistake: the alarm of one key deletes the open windows of the others. *)
Sweep_Everything == stored' = [k \in Keys |-> None]

(* Rows whose window is over are deleted; the alarm that fired is gone. *)
Sweep == stored' = [k \in Keys |-> IF stored[k].reset <= now THEN None ELSE stored[k]]

alarm ==
  /\ alarmAt # NoAlarm /\ alarmAt <= now
  /\ Sweep /\ alarmAt' = NoAlarm
  /\ decision' = <<>> /\ UNCHANGED <<now, spent>>

(* The object is not called: an answer it gave has been received. *)
QuotaIdle == decision' = <<>> /\ UNCHANGED <<stored, alarmAt, spent>>

-----------------------------------------------------------------------------
(* What the object promises, read off the grants alone *)

(* A window opens with each grant outside the windows opened before it.       *)
Opening(opens, key) ==
  opens = {t \in Times : /\ spent[key][t] > 0
                         /\ ~\E s \in opens : s < t /\ t < s + windowMs}
Opens(key) == CHOOSE opens \in SUBSET Times : Opening(opens, key)

WindowFrom(start) == {t \in Times : start <= t /\ t < start + windowMs}
SpentFrom(key, start) == Total(spent[key], WindowFrom(start))

(* "An exact, globally consistent quota over a fixed window": whatever calls, *)
(* refusals and alarms interleave, the windows a key opens never hold more   *)
(* than its budget, even when the alarm set for one key sweeps the others.   *)
BudgetKept ==
  \A key \in Keys : \A start \in Opens(key) : SpentFrom(key, start) <= Limit[key]

(* The grants of the window that is open at a time. *)
OpenAt(key, time) ==
  LET open == {start \in Opens(key) : start <= time /\ time < start + windowMs}
  IN IF open = {} THEN 0 ELSE SpentFrom(key, CHOOSE start \in open : TRUE)

(* "Nothing is spent on a refusal": a call is refused only if the grants of   *)
(* the window open at its time leave no room for it, and what it is told     *)
(* remains is what those grants leave.                                       *)
DecisionTrue ==
  decision # <<>> =>
    LET granted == OpenAt(decision.key, now) IN
    /\ decision.remaining = Limit[decision.key] - granted
    /\ ~decision.success => granted + decision.cost > Limit[decision.key]
    /\ decision.reset > now
=============================================================================
