------------------------------ MODULE PlanSync ------------------------------
(***************************************************************************)
(* The plan store of the web application (src/apps/web/src/state/usePlan.ts) *)
(* with the two places it keeps a plan in: the browser's localStorage       *)
(* (lib/persistence.ts) and the cloud rows the API routes write             *)
(* (services/server/database.ts).                                           *)
(*                                                                         *)
(* A plan is abstracted to its causal history.  Every user action that      *)
(* changes a plan is an edit with an identity of its own; a plan section    *)
(* (profile, accounts) is the set of edits its value incorporates, so the   *)
(* default plan is the empty set, "overwrites an edit" is "drops it from    *)
(* the set", and equal sets stand for equal values.  "profile" stands for   *)
(* the three sections saved together (profile, socialSecurity and           *)
(* assumptions); an account edit is a create, an update or a delete, whose  *)
(* handlers have the same control.                                          *)
(*                                                                         *)
(* An absent user_profiles row and a null profileRevision are both revision *)
(* NoRevision: INSERT ... ON CONFLICT DO NOTHING (null) and UPDATE ...       *)
(* WHERE revision = $5 are then one compare-and-set, since a new row is     *)
(* given revision 0 = NoRevision + 1.                                       *)
(***************************************************************************)
EXTENDS Integers, FiniteSets

CONSTANTS
  Tabs,            \* pages of the application that are open
  Browsers,        \* localStorage areas
  BrowserOf,       \* the browser of each tab
  Users,           \* Firebase users with a row in the users table
  Anonymous,       \* the owner of a signed-out plan
  Edits,           \* identities of plan changes
  Author,          \* the owner on whose behalf each edit is made
  InitialSchemas,  \* states user_profiles rows may start in
  InitialLocal,    \* states a localStorage item may start in
  StorageOutcomes, \* {TRUE}, or BOOLEAN when setItem may throw
  MaxGeneration,   \* bound: bootstraps of one tab
  MaxFaults,       \* bound: failed requests and failed user synchronisations
  MaxAccountOps    \* bound: account operations of one tab in flight

Owners == Users \cup {Anonymous}
NoRevision == -1
Revisions == Nat \cup {NoRevision}

ASSUME OwnerAssumption == Anonymous \notin Users
ASSUME BrowserAssumption == BrowserOf \in [Tabs -> Browsers]
ASSUME AuthorAssumption == Author \in [Edits -> Owners]
ASSUME InitialAssumption ==
  /\ InitialSchemas \subseteq {"absent", "older", "current", "unusable"}
  /\ InitialLocal \subseteq {"absent", "unreadable", "stored"}
  /\ StorageOutcomes \subseteq BOOLEAN
ASSUME BoundAssumption ==
  MaxGeneration \in Nat /\ MaxFaults \in Nat /\ MaxAccountOps \in Nat

VARIABLES
  fbUser,         \* Firebase's current user in each tab
  authPending,    \* AuthProvider "loading": a settled user not yet bootstrapped
  page,           \* PlanState and the module variables of usePlan.ts, per tab
  save,           \* the PUT /api/profile of each tab
  boots,          \* cloud bootstraps waiting for their reads
  accountOps,     \* account operations waiting for a reply
  orphanSaves,    \* PUT requests nobody waits for any more
  orphanOps,      \* account requests nobody waits for any more
  cloudProfile,   \* user_profiles
  cloudAccounts,  \* accounts
  localProfile,   \* retireplan:profile:<owner> of each browser
  localAccounts,  \* retireplan:accounts:<owner> of each browser
  prefs,          \* cloudSyncEnabled in retirement-planner:preferences
  issued,         \* history: the data mode in which an edit was made
  faults          \* bound: faults so far

cloudVars == <<cloudProfile, cloudAccounts>>
localVars == <<localProfile, localAccounts>>
orphanVars == <<orphanSaves, orphanOps>>
authVars == <<fbUser, authPending>>
vars == <<authVars, page, save, boots, accountOps, orphanVars, cloudVars,
          localVars, prefs, issued, faults>>

-----------------------------------------------------------------------------
(* State *)

Row == [edits : SUBSET Edits, rev : Revisions,
        schema : {"absent", "older", "current", "unusable"}]
AbsentRow == [edits |-> {}, rev |-> NoRevision, schema |-> "absent"]

Page == [authUser : Owners, cloudAccountReady : BOOLEAN,
         cloudAvailable : BOOLEAN, cloudSyncEnabled : BOOLEAN,
         profileRevision : Revisions, profile : SUBSET Edits,
         accounts : SUBSET Edits, localPlanOrigin : {"starter", "user"},
         localPersistenceAvailable : BOOLEAN, bootstrapped : BOOLEAN,
         generation : Nat, profileDirty : BOOLEAN,
         profileConflictDetected : BOOLEAN]

Save == [status : {"none", "sent", "saved", "conflict", "failed"},
         owner : Owners, generation : Nat, profile : SUBSET Edits,
         expected : Revisions, revision : Revisions]
NoSave == [status |-> "none", owner |-> Anonymous, generation |-> 0,
           profile |-> {}, expected |-> NoRevision, revision |-> NoRevision]

Boot == [tab : Tabs, generation : Nat, owner : Users,
         profileRead : BOOLEAN, row : Row,
         accountsRead : BOOLEAN, accounts : SUBSET Edits, failed : BOOLEAN]

AccountOp == [tab : Tabs, owner : Users, edit : Edits,
              phase : {"sent", "applied", "reading", "read"},
              accounts : SUBSET Edits]

StoredProfile == [state : {"absent", "unreadable", "stored"},
                  edits : SUBSET Edits]
StoredAccounts == [state : {"absent", "unreadable", "stored"},
                   edits : SUBSET Edits, origin : {"starter", "user"}]

TypeOK ==
  /\ fbUser \in [Tabs -> Owners]
  /\ authPending \in [Tabs -> BOOLEAN]
  /\ page \in [Tabs -> Page]
  /\ save \in [Tabs -> Save]
  /\ boots \subseteq Boot
  /\ accountOps \subseteq AccountOp
  /\ orphanSaves \subseteq [owner : Owners, profile : SUBSET Edits, expected : Revisions]
  /\ orphanOps \subseteq [owner : Users, edit : Edits]
  /\ cloudProfile \in [Users -> Row]
  /\ cloudAccounts \in [Users -> SUBSET Edits]
  /\ localProfile \in [Browsers -> [Owners -> StoredProfile]]
  /\ localAccounts \in [Browsers -> [Owners -> StoredAccounts]]
  /\ prefs \in [Browsers -> BOOLEAN]
  /\ issued \in [Edits -> {"none", "local", "cloud"}]
  /\ faults \in Nat

(* The store before its first bootstrap; the generation is kept across      *)
(* reloads so that a reload looks like one more generation.                 *)
FreshPage(sync, generation) ==
  [authUser |-> Anonymous, cloudAccountReady |-> FALSE,
   cloudAvailable |-> FALSE, cloudSyncEnabled |-> sync,
   profileRevision |-> NoRevision, profile |-> {}, accounts |-> {},
   localPlanOrigin |-> "starter", localPersistenceAvailable |-> TRUE,
   bootstrapped |-> FALSE, generation |-> generation,
   profileDirty |-> FALSE, profileConflictDetected |-> FALSE]

Init ==
  /\ fbUser \in [Tabs -> Owners]
  /\ authPending = [t \in Tabs |-> TRUE]
  /\ page = [t \in Tabs |-> FreshPage(TRUE, 0)]
  /\ save = [t \in Tabs |-> NoSave]
  /\ boots = {} /\ accountOps = {}
  /\ orphanSaves = {} /\ orphanOps = {}
  /\ cloudProfile \in [Users -> {[edits |-> {}, schema |-> s,
                                  rev |-> IF s = "absent" THEN NoRevision ELSE 0] :
                                 s \in InitialSchemas}]
  /\ cloudAccounts = [u \in Users |-> {}]
  /\ localProfile \in [Browsers -> [Owners -> {[state |-> s, edits |-> {}] :
                                               s \in InitialLocal}]]
  /\ localAccounts \in [Browsers -> [Owners -> {[state |-> s, edits |-> {},
                                                 origin |-> "user"] :
                                                s \in InitialLocal}]]
  /\ prefs = [b \in Browsers |-> TRUE]
  /\ issued = [e \in Edits |-> "none"]
  /\ faults = 0

-----------------------------------------------------------------------------
(* Derived state and guards *)

DataMode(t) ==
  IF /\ page[t].authUser # Anonymous
     /\ page[t].cloudAccountReady
     /\ page[t].cloudAvailable
     /\ page[t].cloudSyncEnabled
  THEN "cloud" ELSE "local"

(* The page shows its controls only for a settled user whose plan is loaded. *)
Usable(t) ==
  ~authPending[t] /\ page[t].bootstrapped /\ page[t].authUser = fbUser[t]

Fresh(e, o) == issued[e] = "none" /\ Author[e] = o

Fault == faults < MaxFaults /\ faults' = faults + 1
NoFault == UNCHANGED faults

-----------------------------------------------------------------------------
(* localStorage *)

saveLocalProfile(b, o, edits, ok) ==
  localProfile' =
    IF ok THEN [localProfile EXCEPT ![b][o] =
                  [state |-> "stored", edits |-> edits]]
          ELSE localProfile

saveLocalAccounts(b, o, edits, origin, ok) ==
  localAccounts' =
    IF ok THEN [localAccounts EXCEPT ![b][o] =
                  [state |-> "stored", edits |-> edits, origin |-> origin]]
          ELSE localAccounts

(* Mutant: only the profile is stored. *)
saveLocalPlan_ProfileOnly(b, o, profile, accounts, origin, saved) ==
  saveLocalProfile(b, o, profile, saved.profile) /\ UNCHANGED localAccounts

saveLocalPlan(b, o, profile, accounts, origin, saved) ==
  /\ saveLocalProfile(b, o, profile, saved.profile)
  /\ saveLocalAccounts(b, o, accounts, origin, saved.accounts)

(* How the two writes of a plan may end. *)
Writes == [profile : StorageOutcomes, accounts : StorageOutcomes]
BothSaved(saved) == saved.profile /\ saved.accounts

(* Loading throws as soon as either item cannot be parsed. *)
LocalLoadFails(b, o) ==
  \/ localProfile[b][o].state = "unreadable"
  \/ localAccounts[b][o].state = "unreadable"

(* A stored starter plan is replaced by the current defaults. *)
IsStarter(b, o) ==
  localAccounts[b][o].state = "stored" /\ localAccounts[b][o].origin = "starter"
hydratedProfile(b, o) ==
  IF IsStarter(b, o) THEN {} ELSE localProfile[b][o].edits
hydratedAccounts(b, o) ==
  IF IsStarter(b, o) THEN {} ELSE localAccounts[b][o].edits
storedOrigin(b, o) ==
  IF localAccounts[b][o].state = "stored" THEN localAccounts[b][o].origin
                                          ELSE "starter"

-----------------------------------------------------------------------------
(* Bootstrap *)

(* What every bootstrap assigns before its first await. *)
Started(t, user, ready) ==
  [page[t] EXCEPT !.generation = @ + 1,
                  !.authUser = user,
                  !.cloudAccountReady = ready,
                  !.cloudAvailable = FALSE,
                  !.bootstrapped = FALSE,
                  !.profileDirty = FALSE,
                  !.profileConflictDetected = FALSE]

(* A session that could not, or need not, use the cloud. *)
(* Mutant: a failed cloud load does not leave cloud mode. *)
LocalSession_StillCloud(p) ==
  [p EXCEPT !.bootstrapped = TRUE, !.cloudAvailable = p.cloudSyncEnabled,
            !.profileRevision = NoRevision]
LocalSession(p) ==
  [p EXCEPT !.bootstrapped = TRUE, !.cloudAvailable = FALSE,
            !.profileRevision = NoRevision]

(* The tail of a bootstrap that stays local, for the store p.  Data that     *)
(* cannot be read is left where it is, under a default plan.                *)
FinishLocal(t, p) ==
  LET b == BrowserOf[t]
      o == p.authUser
  IN  \/ /\ LocalLoadFails(b, o)
         /\ page' = [page EXCEPT ![t] =
              [LocalSession(p) EXCEPT !.profile = {}, !.accounts = {},
                 !.localPlanOrigin = "starter", !.localPersistenceAvailable = TRUE]]
         /\ UNCHANGED localVars
      \/ /\ ~LocalLoadFails(b, o)
         /\ \E saved \in Writes :
              /\ saveLocalPlan(b, o, hydratedProfile(b, o), hydratedAccounts(b, o),
                               storedOrigin(b, o), saved)
              /\ page' = [page EXCEPT ![t] =
                   [LocalSession(p) EXCEPT !.profile = hydratedProfile(b, o),
                      !.accounts = hydratedAccounts(b, o),
                      !.localPlanOrigin = storedOrigin(b, o),
                      !.localPersistenceAvailable = BothSaved(saved)]]

(* The tail of a bootstrap that read the row and the accounts of the cloud.  *)
(* A row of an older schema is marked for re-saving.                        *)
FinishCloud(t, p, row, accounts) ==
  /\ \E saved \in Writes :
       saveLocalPlan(BrowserOf[t], p.authUser, row.edits, accounts, "user", saved)
  /\ page' = [page EXCEPT ![t] =
       [p EXCEPT !.profile = row.edits, !.accounts = accounts,
                 !.cloudAvailable = TRUE,
                 !.profileRevision = row.rev,
                 !.localPlanOrigin = "user",
                 !.localPersistenceAvailable = TRUE,
                 !.bootstrapped = TRUE,
                 !.profileDirty = @ \/ row.schema = "older"]]

(* bootstrap(user, ready) up to its reads, or to its end when none is needed. *)
Bootstrap(t, p) ==
  IF p.authUser # Anonymous /\ p.cloudAccountReady /\ p.cloudSyncEnabled
  THEN /\ page' = [page EXCEPT ![t] = p]
       /\ boots' = boots \cup
            {[tab |-> t, generation |-> p.generation, owner |-> p.authUser,
              profileRead |-> FALSE, row |-> AbsentRow,
              accountsRead |-> FALSE, accounts |-> {}, failed |-> FALSE]}
       /\ UNCHANGED localVars
  ELSE /\ FinishLocal(t, p)
       /\ UNCHANGED boots

(* Firebase changes the current user; AuthProvider starts synchronising it. *)
AuthStateChanged(t, user) ==
  /\ user # fbUser[t]
  /\ page[t].generation < MaxGeneration
  /\ fbUser' = [fbUser EXCEPT ![t] = user]
  /\ authPending' = [authPending EXCEPT ![t] = TRUE]
  /\ UNCHANGED <<page, save, boots, accountOps, orphanVars, cloudVars,
                 localVars, prefs, issued, faults>>

(* The user row is synchronised, or could not be, and the page's effect      *)
(* bootstraps the plan of the settled user.                                 *)
AuthSettled(t) ==
  /\ authPending[t]
  /\ authPending' = [authPending EXCEPT ![t] = FALSE]
  /\ \/ Bootstrap(t, Started(t, fbUser[t], fbUser[t] # Anonymous)) /\ NoFault
     \/ fbUser[t] # Anonymous /\ Bootstrap(t, Started(t, fbUser[t], FALSE)) /\ Fault
  /\ UNCHANGED <<fbUser, save, accountOps, orphanVars, cloudVars, prefs, issued>>

(* "Retry cloud" on the settings page. *)
RetryCloud(t) ==
  /\ Usable(t)
  /\ page[t].generation < MaxGeneration
  /\ page[t].authUser # Anonymous
  /\ page[t].cloudAccountReady /\ page[t].cloudSyncEnabled
  /\ ~page[t].cloudAvailable
  /\ Bootstrap(t, Started(t, page[t].authUser, TRUE))
  /\ UNCHANGED <<authVars, save, accountOps, orphanVars, cloudVars, prefs,
                 issued, faults>>

Replace(set, old, new) == (set \ {old}) \cup {new}

(* The server answers one of the two reads, each at a moment of its own. *)
GetProfile(bt) ==
  /\ ~bt.failed /\ ~bt.profileRead
  /\ boots' = Replace(boots, bt, [bt EXCEPT !.profileRead = TRUE,
                                            !.row = cloudProfile[bt.owner]])
  /\ UNCHANGED <<authVars, page, save, accountOps, orphanVars, cloudVars,
                 localVars, prefs, issued, faults>>

GetAccounts(bt) ==
  /\ ~bt.failed /\ ~bt.accountsRead
  /\ boots' = Replace(boots, bt, [bt EXCEPT !.accountsRead = TRUE,
                                            !.accounts = cloudAccounts[bt.owner]])
  /\ UNCHANGED <<authVars, page, save, accountOps, orphanVars, cloudVars,
                 localVars, prefs, issued, faults>>

ReadFails(bt) ==
  /\ ~bt.failed /\ ~(bt.profileRead /\ bt.accountsRead)
  /\ Fault
  /\ boots' = Replace(boots, bt, [bt EXCEPT !.failed = TRUE])
  /\ UNCHANGED <<authVars, page, save, accountOps, orphanVars, cloudVars,
                 localVars, prefs, issued>>

(* Promise.all: both reads, or the first failure. *)
(* Mutant: a rejected read is not caught. *)
ReadsSettled_OnlyBoth(bt) == bt.profileRead /\ bt.accountsRead
ReadsSettled(bt) == bt.failed \/ (bt.profileRead /\ bt.accountsRead)

(* Mutant: the generation is not compared after the await. *)
Superseded_Never(bt) == FALSE
Superseded(bt) == bt.generation # page[bt.tab].generation

(* bootstrap after its await: a superseded bootstrap returns; a failed read  *)
(* or an unusable row leaves the session local.                             *)
BootstrapResume(bt) ==
  LET t == bt.tab IN
  /\ ReadsSettled(bt)
  /\ boots' = boots \ {bt}
  /\ \/ Superseded(bt) /\ UNCHANGED <<page, localVars>>
     \/ /\ ~Superseded(bt) /\ ~bt.failed /\ bt.row.schema # "unusable"
        /\ FinishCloud(t, page[t], bt.row, bt.accounts)
     \/ /\ ~Superseded(bt) /\ (bt.failed \/ bt.row.schema = "unusable")
        /\ FinishLocal(t, page[t])
  /\ UNCHANGED <<authVars, save, accountOps, orphanVars, cloudVars, prefs,
                 issued, faults>>

-----------------------------------------------------------------------------
(* Profile edits and their flush *)

updatePlan(t, e) ==
  LET o == page[t].authUser
      b == BrowserOf[t]
      profile == page[t].profile \cup {e}
      edited == [page[t] EXCEPT !.profile = profile, !.profileDirty = TRUE]
  IN  /\ Usable(t) /\ Fresh(e, o)
      /\ \E saved \in Writes :
           \/ /\ DataMode(t) = "local"
              /\ saveLocalPlan(b, o, profile, page[t].accounts, "user", saved)
              /\ page' = [page EXCEPT ![t] =
                   [edited EXCEPT !.localPlanOrigin = "user",
                                  !.localPersistenceAvailable = BothSaved(saved)]]
           \/ /\ DataMode(t) = "cloud"
              /\ saveLocalProfile(b, o, profile, saved.profile)
              /\ page' = [page EXCEPT ![t] =
                   [edited EXCEPT !.localPersistenceAvailable = TRUE]]
              /\ UNCHANGED localAccounts
      /\ issued' = [issued EXCEPT ![e] = DataMode(t)]
      /\ UNCHANGED <<authVars, save, boots, accountOps, orphanVars, cloudVars,
                     prefs, faults>>

(* flushProfileToDb up to the request: the 30 s interval, a hidden tab or an *)
(* unload.  The API client sends nothing unless Firebase's user is the owner, *)
(* and the failed attempt then leaves the flags as they were.               *)
flushProfileToDb(t) ==
  /\ page[t].profileDirty
  /\ save[t].status = "none"
  /\ ~page[t].profileConflictDetected
  /\ DataMode(t) = "cloud"
  /\ fbUser[t] = page[t].authUser
  /\ page' = [page EXCEPT ![t].profileDirty = FALSE]
  /\ save' = [save EXCEPT ![t] =
       [status |-> "sent", owner |-> page[t].authUser,
        generation |-> page[t].generation, profile |-> page[t].profile,
        expected |-> page[t].profileRevision, revision |-> NoRevision]]
  /\ UNCHANGED <<authVars, boots, accountOps, orphanVars, cloudVars, localVars,
                 prefs, issued, faults>>

(* The row saveUserProfile leaves for a matching revision. *)
SavedRow(row, profile) ==
  [edits |-> profile, rev |-> row.rev + 1, schema |-> "current"]
(* Mutant: the row is overwritten whatever its revision. *)
Matches_Always(row, expected) == TRUE
Matches(row, expected) == row.rev = expected

saveUserProfile(t) ==
  LET s == save[t] IN
  /\ s.status = "sent"
  /\ IF Matches(cloudProfile[s.owner], s.expected)
     THEN /\ cloudProfile' = [cloudProfile EXCEPT ![s.owner] = SavedRow(@, s.profile)]
          /\ save' = [save EXCEPT ![t] = [@ EXCEPT !.status = "saved",
                                                   !.revision = s.expected + 1]]
     ELSE /\ save' = [save EXCEPT ![t] = [@ EXCEPT !.status = "conflict"]]
          /\ UNCHANGED cloudProfile
  /\ UNCHANGED <<authVars, page, boots, accountOps, orphanVars, cloudAccounts,
                 localVars, prefs, issued, faults>>

Orphan(s) == [owner |-> s.owner, profile |-> s.profile, expected |-> s.expected]

(* The request or its reply is lost; a request the client gave up on may     *)
(* still reach the server.                                                  *)
SaveLost(t) ==
  /\ save[t].status \in {"sent", "saved", "conflict"}
  /\ Fault
  /\ save' = [save EXCEPT ![t] = [@ EXCEPT !.status = "failed"]]
  /\ orphanSaves' = IF save[t].status = "sent"
                    THEN orphanSaves \cup {Orphan(save[t])} ELSE orphanSaves
  /\ UNCHANGED <<authVars, page, boots, accountOps, orphanOps, cloudVars,
                 localVars, prefs, issued>>

(* Mutant: only the owner is compared after the await. *)
ReplyIsCurrent_OwnerOnly(t) == save[t].owner = page[t].authUser
ReplyIsCurrent(t) ==
  /\ save[t].generation = page[t].generation
  /\ save[t].owner = page[t].authUser

(* Mutant: a transient failure is not marked for a retry. *)
AfterReply_NoRetry(p, s) ==
  CASE s.status = "saved"    -> [p EXCEPT !.profileRevision = s.revision]
    [] s.status = "conflict" -> [p EXCEPT !.profileConflictDetected = TRUE]
    [] s.status = "failed"   -> p
AfterReply(p, s) ==
  CASE s.status = "saved"    -> [p EXCEPT !.profileRevision = s.revision]
    [] s.status = "conflict" -> [p EXCEPT !.profileConflictDetected = TRUE]
    [] s.status = "failed"   -> [p EXCEPT !.profileDirty = TRUE]

(* flushProfileToDb after its await. *)
SaveReply(t) ==
  /\ save[t].status \in {"saved", "conflict", "failed"}
  /\ save' = [save EXCEPT ![t] = NoSave]
  /\ page' = IF ReplyIsCurrent(t)
             THEN [page EXCEPT ![t] = AfterReply(@, save[t])] ELSE page
  /\ UNCHANGED <<authVars, boots, accountOps, orphanVars, cloudVars,
                 localVars, prefs, issued, faults>>

OrphanSave(r) ==
  /\ orphanSaves' = orphanSaves \ {r}
  /\ cloudProfile' = IF Matches(cloudProfile[r.owner], r.expected)
                     THEN [cloudProfile EXCEPT ![r.owner] = SavedRow(@, r.profile)]
                     ELSE cloudProfile
  /\ UNCHANGED <<authVars, page, save, boots, accountOps, orphanOps,
                 cloudAccounts, localVars, prefs, issued, faults>>

-----------------------------------------------------------------------------
(* Account operations: createAccount, updateAccount, deleteAccount *)

OpsOf(t) == {op \in accountOps : op.tab = t}

LocalAccountOp(t, e) ==
  LET o == page[t].authUser
      accounts == page[t].accounts \cup {e}
  IN  /\ Usable(t) /\ Fresh(e, o) /\ DataMode(t) = "local"
      /\ \E saved \in Writes :
           /\ saveLocalPlan(BrowserOf[t], o, page[t].profile, accounts, "user", saved)
           /\ page' = [page EXCEPT ![t] =
                [@ EXCEPT !.accounts = accounts, !.localPlanOrigin = "user",
                          !.localPersistenceAvailable = BothSaved(saved)]]
      /\ issued' = [issued EXCEPT ![e] = "local"]
      /\ UNCHANGED <<authVars, save, boots, accountOps, orphanVars, cloudVars,
                     prefs, faults>>

CloudAccountOp(t, e) ==
  /\ Usable(t) /\ Fresh(e, page[t].authUser) /\ DataMode(t) = "cloud"
  /\ Cardinality(OpsOf(t)) < MaxAccountOps
  /\ accountOps' = accountOps \cup
       {[tab |-> t, owner |-> page[t].authUser, edit |-> e, phase |-> "sent",
         accounts |-> {}]}
  /\ issued' = [issued EXCEPT ![e] = "cloud"]
  /\ UNCHANGED <<authVars, page, save, boots, orphanVars, cloudVars, localVars,
                 prefs, faults>>

(* The route handler commits the operation. *)
ApplyAccountOp(op) ==
  /\ op.phase = "sent"
  /\ cloudAccounts' = [cloudAccounts EXCEPT ![op.owner] = @ \cup {op.edit}]
  /\ accountOps' = Replace(accountOps, op, [op EXCEPT !.phase = "applied"])
  /\ UNCHANGED <<authVars, page, save, boots, orphanVars, cloudProfile,
                 localVars, prefs, issued, faults>>

(* Its reply arrives: a changed owner ends the operation, a changed Firebase *)
(* user makes the re-read throw, and otherwise getAccounts is requested.    *)
AccountOpReply(op) ==
  /\ op.phase = "applied"
  /\ accountOps' =
       IF page[op.tab].authUser = op.owner /\ fbUser[op.tab] = op.owner
       THEN Replace(accountOps, op, [op EXCEPT !.phase = "reading"])
       ELSE accountOps \ {op}
  /\ UNCHANGED <<authVars, page, save, boots, orphanVars, cloudVars, localVars,
                 prefs, issued, faults>>

ReadAccountsAgain(op) ==
  /\ op.phase = "reading"
  /\ accountOps' = Replace(accountOps, op,
       [op EXCEPT !.phase = "read", !.accounts = cloudAccounts[op.owner]])
  /\ UNCHANGED <<authVars, page, save, boots, orphanVars, cloudVars, localVars,
                 prefs, issued, faults>>

(* The re-read accounts replace the plan's, whatever the data mode is now. *)
AccountsReply(op) ==
  LET t == op.tab IN
  /\ op.phase = "read"
  /\ accountOps' = accountOps \ {op}
  /\ IF page[t].authUser = op.owner
     THEN /\ \E ok \in StorageOutcomes :
               saveLocalAccounts(BrowserOf[t], op.owner, op.accounts, "user", ok)
          /\ page' = [page EXCEPT ![t] =
               [@ EXCEPT !.accounts = op.accounts, !.localPlanOrigin = "user",
                         !.localPersistenceAvailable = TRUE]]
     ELSE UNCHANGED <<page, localAccounts>>
  /\ UNCHANGED <<authVars, save, boots, orphanVars, cloudVars, localProfile,
                 prefs, issued, faults>>

(* A request or a reply of the operation is lost: the handler rethrows. *)
AccountOpLost(op) ==
  /\ Fault
  /\ accountOps' = accountOps \ {op}
  /\ orphanOps' = IF op.phase = "sent"
                  THEN orphanOps \cup {[owner |-> op.owner, edit |-> op.edit]}
                  ELSE orphanOps
  /\ UNCHANGED <<authVars, page, save, boots, orphanSaves, cloudVars, localVars,
                 prefs, issued>>

OrphanOp(r) ==
  /\ orphanOps' = orphanOps \ {r}
  /\ cloudAccounts' = [cloudAccounts EXCEPT ![r.owner] = @ \cup {r.edit}]
  /\ UNCHANGED <<authVars, page, save, boots, accountOps, orphanSaves,
                 cloudProfile, localVars, prefs, issued, faults>>

-----------------------------------------------------------------------------
(* Settings and reloads *)

(* Mutant: sync is turned on without loading the cloud plan. *)
SyncOn_NoBootstrap(t) ==
  /\ page' = [page EXCEPT ![t].cloudSyncEnabled = TRUE]
  /\ UNCHANGED <<boots, localVars>>
SyncOn(t) ==
  Bootstrap(t, [Started(t, page[t].authUser, page[t].cloudAccountReady) EXCEPT
                  !.cloudSyncEnabled = TRUE])

(* Turning sync off first copies the plan to localStorage and then runs a    *)
(* local bootstrap, which loads and stores the same plan again; when the     *)
(* copy fails the session turns local without a bootstrap.                  *)
SyncOff(t) ==
  LET o == page[t].authUser
      off == [page[t] EXCEPT !.cloudSyncEnabled = FALSE, !.localPlanOrigin = "user"]
      restarted == LocalSession(Started(t, o, page[t].cloudAccountReady))
  IN  /\ \E saved, savedAgain \in Writes :
           /\ saveLocalPlan(BrowserOf[t], o, page[t].profile, page[t].accounts,
                            "user", saved)
           /\ page' = [page EXCEPT ![t] =
                IF BothSaved(saved)
                THEN [restarted EXCEPT !.cloudSyncEnabled = FALSE,
                        !.localPlanOrigin = "user",
                        !.localPersistenceAvailable = BothSaved(savedAgain)]
                ELSE [off EXCEPT !.localPersistenceAvailable = FALSE]]
      /\ UNCHANGED boots

setCloudSyncEnabled(t, enabled) ==
  /\ Usable(t)
  /\ page[t].generation < MaxGeneration
  /\ page[t].authUser # Anonymous /\ page[t].cloudAccountReady
  /\ page[t].cloudSyncEnabled # enabled
  /\ \E ok \in StorageOutcomes :
       prefs' = IF ok THEN [prefs EXCEPT ![BrowserOf[t]] = enabled] ELSE prefs
  /\ \/ enabled /\ SyncOn(t)
     \/ ~enabled /\ SyncOff(t)
  /\ UNCHANGED <<authVars, save, accountOps, orphanVars, cloudVars, issued,
                 faults>>

(* The page is closed or crashes and is opened again: replies are lost,      *)
(* requests already sent may still reach the server.                        *)
Reload(t) ==
  /\ page[t].generation < MaxGeneration
  /\ page' = [page EXCEPT ![t] = FreshPage(prefs[BrowserOf[t]], @.generation)]
  /\ authPending' = [authPending EXCEPT ![t] = TRUE]
  /\ save' = [save EXCEPT ![t] = NoSave]
  /\ orphanSaves' = IF save[t].status = "sent"
                    THEN orphanSaves \cup {Orphan(save[t])} ELSE orphanSaves
  /\ orphanOps' = orphanOps \cup
       {[owner |-> op.owner, edit |-> op.edit] :
          op \in {x \in OpsOf(t) : x.phase = "sent"}}
  /\ boots' = {bt \in boots : bt.tab # t}
  /\ accountOps' = accountOps \ OpsOf(t)
  /\ UNCHANGED <<fbUser, cloudVars, localVars, prefs, issued, faults>>

-----------------------------------------------------------------------------

UserStep(t) ==
  \/ \E u \in Owners : AuthStateChanged(t, u)
  \/ \E e \in Edits : updatePlan(t, e) \/ LocalAccountOp(t, e) \/ CloudAccountOp(t, e)
  \/ \E enabled \in BOOLEAN : setCloudSyncEnabled(t, enabled)
  \/ RetryCloud(t)
  \/ Reload(t)

SaveStep(t) ==
  flushProfileToDb(t) \/ saveUserProfile(t) \/ SaveLost(t) \/ SaveReply(t)

BootStep(bt) ==
  GetProfile(bt) \/ GetAccounts(bt) \/ ReadFails(bt) \/ BootstrapResume(bt)

AccountOpStep(op) ==
  \/ ApplyAccountOp(op) \/ AccountOpReply(op) \/ ReadAccountsAgain(op)
  \/ AccountsReply(op) \/ AccountOpLost(op)

Next ==
  \/ \E t \in Tabs : UserStep(t) \/ AuthSettled(t) \/ SaveStep(t)
  \/ \E bt \in boots : BootStep(bt)
  \/ \E op \in accountOps : AccountOpStep(op)
  \/ \E r \in orphanSaves : OrphanSave(r)
  \/ \E r \in orphanOps : OrphanOp(r)

Spec == Init /\ [][Next]_vars

(* A settled user is bootstrapped, a request that is not lost is answered,   *)
(* a resumed await runs, and the 30 s interval keeps firing.                *)
Fairness ==
  /\ \A t \in Tabs : /\ WF_vars(AuthSettled(t))
                     /\ WF_vars(flushProfileToDb(t))
                     /\ WF_vars(saveUserProfile(t))
                     /\ WF_vars(SaveReply(t))
  /\ WF_vars(\E bt \in boots : GetProfile(bt))
  /\ WF_vars(\E bt \in boots : GetAccounts(bt))
  /\ WF_vars(\E bt \in boots : BootstrapResume(bt))

FairSpec == Spec /\ Fairness

-----------------------------------------------------------------------------
(* Properties *)

(* No edit the cloud row of a user holds is ever removed from it: the        *)
(* revision check of saveUserProfile and the generation check of            *)
(* flushProfileToDb together keep a stale plan from being written over a    *)
(* newer one (usePlan.ts flushProfileToDb, database.ts saveUserProfile).    *)
NoSavedEditLost ==
  [][\A u \in Users : cloudProfile[u].edits \subseteq cloudProfile'[u].edits]_vars

(* A copy of u's profile that knows revision rev holds everything the row    *)
(* holds unless the row has moved on since.                                 *)
Knows(profile, rev, u) ==
  /\ rev <= cloudProfile[u].rev
  /\ rev = cloudProfile[u].rev => cloudProfile[u].edits \subseteq profile

PageKnows(t) ==
  page[t].cloudAvailable =>
    /\ page[t].bootstrapped
    /\ page[t].authUser \in Users
    /\ Knows(page[t].profile, page[t].profileRevision, page[t].authUser)

BootKnows(bt) ==
  /\ bt.generation <= page[bt.tab].generation
  /\ bt.generation = page[bt.tab].generation =>
        bt.owner = page[bt.tab].authUser /\ ~page[bt.tab].bootstrapped
  /\ bt.profileRead => Knows(bt.row.edits, bt.row.rev, bt.owner)
  /\ \A other \in boots :
        other.tab = bt.tab /\ other.generation = bt.generation => other = bt

SaveKnows(t) ==
  LET s == save[t] IN
  s.status # "none" =>
    /\ s.owner \in Users
    /\ s.generation <= page[t].generation
    /\ s.generation = page[t].generation =>
         /\ page[t].bootstrapped /\ page[t].authUser = s.owner
         /\ s.profile \subseteq page[t].profile
         /\ s.status = "saved" => Knows(page[t].profile, s.revision, s.owner)
    /\ s.status = "sent" => Knows(s.profile, s.expected, s.owner)

OrphanKnows(r) ==
  r.owner \in Users /\ Knows(r.profile, r.expected, r.owner)

(* Every copy of a profile anywhere in the system - on a page, in a request, *)
(* in a reply, in a request outliving its page - that carries the current   *)
(* revision of a row contains all of the row: why a matching revision is    *)
(* enough to overwrite the row (saveUserProfile's WHERE clause).            *)
RevisionInv ==
  /\ \A t \in Tabs : PageKnows(t) /\ SaveKnows(t)
  /\ \A bt \in boots : BootKnows(bt)
  /\ \A r \in orphanSaves : OrphanKnows(r)

(* Whatever the order of sign-ins, replies and reloads, a plan on screen, a  *)
(* browser item and a cloud row hold edits of their own owner only          *)
(* (bootstrap's generation check, ownerKey, expectedUserId).                *)
OwnerIsolation ==
  /\ \A u \in Users : \A e \in cloudProfile[u].edits \cup cloudAccounts[u] :
        Author[e] = u
  /\ \A b \in Browsers, o \in Owners :
        \A e \in localProfile[b][o].edits \cup localAccounts[b][o].edits :
           Author[e] = o
  /\ \A t \in Tabs : page[t].bootstrapped =>
        \A e \in page[t].profile \cup page[t].accounts :
           Author[e] = page[t].authUser

(* An edit made in local mode is never uploaded, however sync is switched    *)
(* afterwards (settings page: "never uploads later edits"; bootstrap clears *)
(* profileDirty).                                                           *)
LocalStaysLocal ==
  \A u \in Users : \A e \in cloudProfile[u].edits \cup cloudAccounts[u] :
     issued[e] = "cloud"

SaveInFlight(t) ==
  save[t].status # "none" /\ save[t].generation = page[t].generation

(* A cloud session with nothing left to flush has saved everything it shows: *)
(* profileDirty is never cleared for an edit that did not reach the row     *)
(* (flushProfileToDb's handling of transient failures and late replies).    *)
CleanMeansSaved ==
  \A t \in Tabs :
     /\ page[t].bootstrapped /\ DataMode(t) = "cloud"
     /\ ~page[t].profileDirty /\ ~page[t].profileConflictDetected
     /\ ~SaveInFlight(t)
     => page[t].profile \subseteq cloudProfile[page[t].authUser].edits

(* A cloud session never mixes in local data: its accounts are on the server *)
(* and its profile holds edits made in cloud mode only (bootstrap is        *)
(* all-or-nothing).                                                         *)
CloudAllOrNothing ==
  \A t \in Tabs :
     page[t].bootstrapped /\ DataMode(t) = "cloud" =>
        /\ page[t].accounts \subseteq cloudAccounts[page[t].authUser]
        /\ \A e \in page[t].profile : issued[e] = "cloud"

(* In local mode with no storage warning on screen, bootstrapping again from *)
(* localStorage gives back exactly the plan on screen (saveLocalPlan and    *)
(* the origin marker agree with hydrateLocalPlan).                          *)
LocalDurable ==
  \A t \in Tabs :
     LET b == BrowserOf[t]
         o == page[t].authUser
     IN  /\ page[t].bootstrapped /\ DataMode(t) = "local"
         /\ page[t].localPersistenceAvailable
         /\ ~LocalLoadFails(b, o)
         => /\ hydratedProfile(b, o) = page[t].profile
            /\ hydratedAccounts(b, o) = page[t].accounts

(* An edit shown in a cloud session reaches the row of its owner, unless a   *)
(* conflict stops saving or the session leaves cloud mode.                  *)
EditReachesCloud ==
  \A t \in Tabs, e \in Edits, u \in Users :
     /\ DataMode(t) = "cloud" /\ page[t].authUser = u /\ e \in page[t].profile
     ~> \/ e \in cloudProfile[u].edits
        \/ page[t].profileConflictDetected
        \/ DataMode(t) = "local" \/ page[t].authUser # u

(* The page never stays on "Loading": whatever fails, a bootstrap ends. *)
EventuallyUsable ==
  \A t \in Tabs : ~page[t].bootstrapped ~> page[t].bootstrapped
=============================================================================
