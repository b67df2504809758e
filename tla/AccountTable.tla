---------------------------- MODULE AccountTable ----------------------------
(* What the accounts table promises its callers: every operation takes      *)
(* effect at one moment, touches a row of its own owner only, and no owner  *)
(* ever holds more accounts than a plan may contain.                        *)
EXTENDS Integers, FiniteSets

CONSTANTS Owners,        \* the users
          Ids,           \* the account ids
          MaxAccounts    \* MAX_PLAN_ACCOUNTS

VARIABLE rows            \* id -> the row of an account that exists

(* A table: its ids are account ids, and every row has an owner. *)
Table(t) == /\ DOMAIN t \subseteq Ids
            /\ t \in [DOMAIN t -> [owner : Owners, edits : Nat]]

(* The accounts of an owner. *)
Owned(table, o) == {a \in DOMAIN table : table[a].owner = o}

(* A new row of an owner with room for it. *)
Create(o, a) ==
  /\ a \notin DOMAIN rows
  /\ Cardinality(Owned(rows, o)) < MaxAccounts
  /\ rows' = [b \in DOMAIN rows \cup {a} |->
                IF b = a THEN [owner |-> o, edits |-> 0] ELSE rows[b]]

Update(o, a) ==
  /\ a \in Owned(rows, o)
  /\ rows' = [rows EXCEPT ![a].edits = @ + 1]

Delete(o, a) ==
  /\ a \in Owned(rows, o)
  /\ rows' = [b \in DOMAIN rows \ {a} |-> rows[b]]

Init == Table(rows) /\ \A o \in Owners : Cardinality(Owned(rows, o)) <= MaxAccounts

Next == \E o \in Owners, a \in Ids : Create(o, a) \/ Update(o, a) \/ Delete(o, a)

Spec == Init /\ [][Next]_rows
=============================================================================
