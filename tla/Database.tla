------------------------------ MODULE Database ------------------------------
(* The PostgreSQL database, the requests that use it and the migration jobs *)
(* that change its schema.  A request of the edge opens one client at its   *)
(* first query, confirms once per isolate that the schema is recent enough, *)
(* and closes the client after its answer.  Creating an account is a        *)
(* transaction under an advisory lock of its owner; every other operation   *)
(* is one statement.  CI jobs migrate the schema, each in one transaction   *)
(* under one advisory lock.  Isolation is READ COMMITTED: a statement sees  *)
(* what was committed before it began.                                      *)
EXTENDS Integers, FiniteSets, Sequences

CONSTANTS Owners,        \* the users
          DataRequests,  \* the requests; a creation names its row after itself
          Seeds,         \* the ids of the accounts that may exist at the start
          OwnerOf,       \* request -> the authenticated user
          Isolates,      \* the Worker isolates
          IsolateOf,     \* request -> the isolate that runs it
          Jobs,          \* runs of the migration script
          MaxAccounts    \* MAX_PLAN_ACCOUNTS

VARIABLES ledger,     \* the versions schema_migrations records
          schema,     \* the committed tables, columns and constraints
          applied,    \* the migrations committed, in their order
          rows,       \* the committed accounts: id -> row
          holder,     \* advisory lock -> the transaction holding it
          verified,   \* isolate -> schemaVerified
          migration,  \* job -> its progress
          request     \* request -> its progress

tables == <<ledger, schema, applied>>
dataVars == <<ledger, schema, applied, rows, holder, verified, migration, request>>

Free == "free"
SchemaLock == "retirement-planner-schema-migrations"

(* The id of an account is new, no user is the schema lock, and a            *)
(* transaction is a request's or a job's.                                   *)
ASSUME DataAssumption ==
  /\ IsFiniteSet(DataRequests \cup Seeds)
  /\ DataRequests \cap Seeds = {} /\ DataRequests \cap Jobs = {}
  /\ Free \notin DataRequests \cup Jobs /\ SchemaLock \notin Owners
  /\ OwnerOf \in [DataRequests -> Owners] /\ IsolateOf \in [DataRequests -> Isolates]
  /\ MaxAccounts \in Nat

(* The migrations in order: what each creates only if missing, what it adds *)
(* as a bare constraint, which fails when it is there, and what it drops.   *)
DATABASE_MIGRATIONS ==
  <<[version |-> 10, creates |-> {"users", "accounts", "user_profiles"},
     bare |-> {}, drops |-> {}],
    [version |-> 11, creates |-> {}, bare |-> {}, drops |-> {"legacy"}],
    [version |-> 12, creates |-> {}, bare |-> {"accounts_valid"}, drops |-> {}],
    [version |-> 13, creates |-> {"revision"}, bare |-> {}, drops |-> {}],
    [version |-> 14, creates |-> {"schema_version"}, bare |-> {}, drops |-> {}]>>

Versions == {DATABASE_MIGRATIONS[i].version : i \in DOMAIN DATABASE_MIGRATIONS}
Latest(S) == IF S = {} THEN 0 ELSE CHOOSE v \in S : \A w \in S : w <= v
REQUIRED_SCHEMA_VERSION == Latest(Versions)

(* What a statement of an operation names. *)
Names(op) == IF op = "profile" THEN {"user_profiles", "revision", "schema_version"}
                               ELSE {"accounts"}
Operations == {"create", "update", "delete", "list", "profile"}

(* A fresh database, one an earlier architecture left at a version, or one  *)
(* that is up to date.                                                      *)
Starts ==
  {[ledger |-> {}, schema |-> {}],
   [ledger |-> {1, 10}, schema |-> {"users", "accounts", "user_profiles", "legacy"}],
   [ledger |-> {10, 11, 12, 13}, schema |-> {"users", "accounts", "user_profiles",
                                              "accounts_valid", "revision"}],
   [ledger |-> {10, 11, 12, 13, 14},
    schema |-> {"users", "accounts", "user_profiles", "accounts_valid", "revision",
                "schema_version"}]}

IdleJob == [pc |-> "idle", version |-> 0, done |-> <<>>]
IdleRequest == [pc |-> "idle", op |-> "list", target |-> Free, open |-> FALSE]

Accounts == INSTANCE AccountTable WITH Ids <- DataRequests \cup Seeds

DataInit ==
  /\ \E s \in Starts : ledger = s.ledger /\ schema = s.schema
  /\ applied = <<>>
  /\ \E S \in SUBSET Seeds : rows \in [S -> [owner : Owners, edits : {0}]]
  /\ \A o \in Owners : Cardinality(Accounts!Owned(rows, o)) <= MaxAccounts
  /\ holder = [k \in Owners \cup {SchemaLock} |-> Free]
  /\ verified = [i \in Isolates |-> FALSE]
  /\ migration = [j \in Jobs |-> IdleJob]
  /\ request = [r \in DataRequests |-> IdleRequest]

(* The end of a transaction releases the advisory locks it holds. *)
Released(who) == [k \in DOMAIN holder |-> IF holder[k] = who THEN Free ELSE holder[k]]

----------------------------------------------------------------------------
(* Migration jobs. *)

MoveJob(j, pc) == migration' = [migration EXCEPT ![j].pc = pc]
EndJob(j) == migration' = [migration EXCEPT ![j] = [IdleJob EXCEPT !.pc = "ended"]]

(* connect, BEGIN and the statement timeout. *)
BeginMigrations(j) ==
  /\ migration[j].pc = "idle"
  /\ MoveJob(j, "begun")
  /\ UNCHANGED <<tables, rows, holder, verified, request>>

LockSchema(j) ==
  /\ migration[j].pc = "begun"
  /\ holder[SchemaLock] = Free
  /\ holder' = [holder EXCEPT ![SchemaLock] = j]
  /\ MoveJob(j, "locked")
  /\ UNCHANGED <<tables, rows, verified, request>>

(* CREATE TABLE IF NOT EXISTS schema_migrations and SELECT MAX(version). *)
ReadVersion(j) ==
  /\ migration[j].pc = "locked"
  /\ migration' = [migration EXCEPT ![j].pc = "applying", ![j].version = Latest(ledger)]
  /\ UNCHANGED <<tables, rows, holder, verified, request>>

(* The migrations newer than the version a job has reached. *)
Pending(version) ==
  {i \in DOMAIN DATABASE_MIGRATIONS : DATABASE_MIGRATIONS[i].version > version}

(* The schema after some of the migrations, by their positions in the list. *)
Changed(objects, done) ==
  (objects \ UNION {DATABASE_MIGRATIONS[i].drops : i \in done})
    \cup UNION {DATABASE_MIGRATIONS[i].creates \cup DATABASE_MIGRATIONS[i].bare : i \in done}

(* The statements of the next migration, and its row in schema_migrations.  *)
(* A migration whose bare constraint exists fails, and the job with it.     *)
ApplyMigration(j) ==
  /\ migration[j].pc = "applying"
  /\ \E i \in Pending(migration[j].version) :
       LET m == DATABASE_MIGRATIONS[i] IN
       /\ \A k \in Pending(migration[j].version) : i <= k
       /\ m.bare \cap Changed(schema, {migration[j].done[n] : n \in DOMAIN migration[j].done}) = {}
       /\ migration' = [migration EXCEPT ![j].version = m.version, ![j].done = Append(@, i)]
  /\ UNCHANGED <<tables, rows, holder, verified, request>>

(* The grant and COMMIT; the reply to the commit may be lost. *)
CommitMigrations(j) ==
  /\ migration[j].pc = "applying"
  /\ Pending(migration[j].version) = {}
  /\ LET done == {migration[j].done[n] : n \in DOMAIN migration[j].done} IN
     /\ ledger' = ledger \cup {DATABASE_MIGRATIONS[i].version : i \in done}
     /\ schema' = Changed(schema, done)
     /\ applied' = applied \o migration[j].done
  /\ holder' = Released(j)
  /\ EndJob(j)
  /\ UNCHANGED <<rows, verified, request>>

(* ROLLBACK: a statement failed or timed out, the role to grant to turned   *)
(* out not to be a plain name after all migrations ran, or the CI run was   *)
(* cancelled and the server dropped its session.                            *)
RollBackMigrations(j) ==
  /\ migration[j].pc \in {"begun", "locked", "applying"}
  /\ holder' = Released(j)
  /\ EndJob(j)
  /\ UNCHANGED <<tables, rows, verified, request>>

----------------------------------------------------------------------------
(* Requests. *)

Move(r, pc) == request' = [request EXCEPT ![r].pc = pc]
AnswerRequest(r) ==
  request' = [request EXCEPT ![r] = [IdleRequest EXCEPT !.pc = "answered",
                                                        !.open = request[r].open]]
Quiet == UNCHANGED <<tables, rows, holder, verified, migration>>

(* c.var.database(): the handler asks for its database. *)
Ask(r) ==
  /\ request[r].pc = "idle"
  /\ \E op \in Operations, a \in DataRequests \cup Seeds :
       /\ op \notin {"update", "delete"} => a = r
       /\ request' = [request EXCEPT ![r].pc = "opening", ![r].op = op,
                                     ![r].target = a]
  /\ Quiet

(* openDatabase: a client of the request's own, or none when the fixed pool *)
(* behind it is exhausted or the connection fails.                          *)
OpenDatabase(r) ==
  /\ request[r].pc = "opening"
  /\ \/ request' = [request EXCEPT ![r].pc = "opened", ![r].open = TRUE]
     \/ AnswerRequest(r)
  /\ Quiet

(* As AssertSchemaFloor, remembering the check before it has answered. *)
AssertSchemaFloor_Early(r) ==
  LET i == IsolateOf[r] IN
  /\ request[r].pc = "opened"
  /\ verified' = [verified EXCEPT ![i] = TRUE]
  /\ IF verified[i] \/ Latest(ledger) >= REQUIRED_SCHEMA_VERSION
     THEN Move(r, "ready") ELSE AnswerRequest(r)
  /\ UNCHANGED <<tables, rows, holder, migration>>

(* assertSchemaFloor: only a settled answer is remembered.                  *)
AssertSchemaFloor(r) ==
  LET i == IsolateOf[r] IN
  /\ request[r].pc = "opened"
  /\ IF verified[i] \/ Latest(ledger) >= REQUIRED_SCHEMA_VERSION
     THEN verified' = [verified EXCEPT ![i] = TRUE] /\ Move(r, "ready")
     ELSE UNCHANGED verified /\ AnswerRequest(r)
  /\ UNCHANGED <<tables, rows, holder, migration>>

(* getAccountsForUser, updateAccount, deleteAccount and the profile queries *)
(* are one statement each, matching the id and the user together.           *)
Statement(r) ==
  LET q == request[r] IN
  /\ q.pc = "ready" /\ q.op # "create"
  /\ IF q.op \in {"update", "delete"} /\ q.target \in Accounts!Owned(rows, OwnerOf[r])
     THEN rows' = IF q.op = "update"
                  THEN [rows EXCEPT ![q.target].edits = @ + 1]
                  ELSE [a \in DOMAIN rows \ {q.target} |-> rows[a]]
     ELSE UNCHANGED rows
  /\ AnswerRequest(r)
  /\ UNCHANGED <<tables, holder, verified, migration>>

(* As LockAccounts, without the advisory lock. *)
LockAccounts_None(r) ==
  /\ request[r].pc = "ready" /\ request[r].op = "create"
  /\ Move(r, "locked")
  /\ UNCHANGED <<tables, rows, holder, verified, migration>>

(* createAccount: BEGIN and the owner's advisory lock ... *)
LockAccounts(r) ==
  /\ request[r].pc = "ready" /\ request[r].op = "create"
  /\ holder[OwnerOf[r]] = Free
  /\ holder' = [holder EXCEPT ![OwnerOf[r]] = r]
  /\ Move(r, "locked")
  /\ UNCHANGED <<tables, rows, verified, migration>>

(* ... the count, which ends a creation at the limit ... *)
CountAccounts(r) ==
  /\ request[r].pc = "locked"
  /\ IF Cardinality(Accounts!Owned(rows, OwnerOf[r])) >= MaxAccounts
     THEN AnswerRequest(r) /\ holder' = Released(r)
     ELSE Move(r, "counted") /\ UNCHANGED holder
  /\ UNCHANGED <<tables, rows, verified, migration>>

(* ... the INSERT, which nobody sees before the COMMIT ... *)
InsertAccount(r) ==
  /\ request[r].pc = "counted"
  /\ Move(r, "inserted")
  /\ Quiet

(* ... and the COMMIT.  Whether its reply arrives or not, the row is there. *)
CommitAccount(r) ==
  /\ request[r].pc = "inserted"
  /\ rows' = [a \in DOMAIN rows \cup {r} |->
                IF a = r THEN [owner |-> OwnerOf[r], edits |-> 0] ELSE rows[a]]
  /\ holder' = Released(r)
  /\ AnswerRequest(r)
  /\ UNCHANGED <<tables, verified, migration>>

(* A statement fails, or its time limit ends it, which outside transactions  *)
(* is the platform's; a transaction rolls back.                              *)
Fail(r) ==
  /\ request[r].pc \in {"opened", "ready", "locked", "counted", "inserted"}
  /\ holder' = Released(r)
  /\ AnswerRequest(r)
  /\ UNCHANGED <<tables, rows, verified, migration>>

(* As Close, for a handler that forgets its client. *)
Close_Forgotten(r) ==
  /\ request[r].pc = "answered"
  /\ Move(r, "closed")
  /\ Quiet

(* The middleware's release after the handler, in waitUntil.                *)
Close(r) ==
  /\ request[r].pc = "answered"
  /\ request' = [request EXCEPT ![r].pc = "closed", ![r].open = FALSE]
  /\ Quiet

JobStep(j) ==
  BeginMigrations(j) \/ LockSchema(j) \/ ReadVersion(j) \/ ApplyMigration(j)
    \/ CommitMigrations(j) \/ RollBackMigrations(j)
RequestStep(r) ==
  OpenDatabase(r) \/ AssertSchemaFloor(r) \/ Statement(r) \/ LockAccounts(r)
    \/ CountAccounts(r) \/ InsertAccount(r) \/ CommitAccount(r) \/ Fail(r) \/ Close(r)

DataNext == (\E j \in Jobs : JobStep(j)) \/ (\E r \in DataRequests : Ask(r) \/ RequestStep(r))

(* A request runs to its end: every wait on the database has a timeout.     *)
DataFairness == \A r \in DataRequests : WF_dataVars(RequestStep(r))
DataSpec == DataInit /\ [][DataNext]_dataVars /\ DataFairness

----------------------------------------------------------------------------
(* Every migration takes effect once and in the order of the list, whatever *)
(* jobs run at once, fail, are cancelled or lose the reply to their commit; *)
(* what schema_migrations records is what was done, with no gap.            *)
MigratedInOrder ==
  /\ \A m, n \in DOMAIN applied : m < n => applied[m] < applied[n]
  /\ \A m \in DOMAIN applied : DATABASE_MIGRATIONS[applied[m]].version \in ledger
  /\ \A v \in Versions : v > 10 /\ v <= Latest(ledger) => v \in ledger
  /\ Latest(ledger) = REQUIRED_SCHEMA_VERSION => "legacy" \notin schema

(* An isolate sends no statement that names a table or a column its         *)
(* database does not have yet: the floor it confirmed once still holds.     *)
SchemaServed ==
  \A r \in DataRequests :
    request[r].pc \in {"ready", "locked", "counted", "inserted"} =>
      Names(request[r].op) \subseteq schema

(* Database's promise about the schema.                                     *)
SchemaSound == MigratedInOrder /\ SchemaServed

(* Requests and their transactions, interleaved as they come, look like     *)
(* operations that happen at one moment each: no two creations pass the     *)
(* limit on one count, and nobody touches a row of someone else.            *)
AccountsAtomic == Accounts!Spec

(* Every request that asked for the database ends, and gives its connection *)
(* back: no order of failures leaks one, and nobody waits on a lock forever. *)
ConnectionsReturned ==
  \A r \in DataRequests :
    request[r].pc = "opening" ~> (request[r].pc = "closed" /\ ~request[r].open)
=============================================================================
