---------------------- MODULE PlanSyncIsolationProofs ----------------------
(* Whatever tabs, sign-ins, late replies, failures and reloads interleave, a  *)
(* plan never ends up with another owner, and what was typed in local mode    *)
(* never reaches the cloud: the owner and the mode of every copy of a plan    *)
(* are inductive beside the revision protocol.                               *)
(* The last part is about one browser: what a page shows is what its items    *)
(* hold, as long as they can be written and belong to one tab.               *)
EXTENDS PlanSyncProofs

Owned(edits, o) == \A e \in edits : Author[e] = o

CloudOwned ==
  \A u \in Users : Owned(cloudProfile[u].edits, u) /\ Owned(cloudAccounts[u], u)
LocalOwned ==
  \A b \in Browsers, o \in Owners :
    Owned(localProfile[b][o].edits, o) /\ Owned(localAccounts[b][o].edits, o)

(* A page between two owners may still hold the plan of the first. *)
PageOwned(p) ==
  p.bootstrapped => Owned(p.profile, p.authUser) /\ Owned(p.accounts, p.authUser)
PagesOwned == \A t \in Tabs : PageOwned(page[t])

(* The copies under way: requests, reads, and requests outliving their page. *)
SavesOwned == \A t \in Tabs : Owned(save[t].profile, save[t].owner)
BootsOwned ==
  \A bt \in boots : Owned(bt.row.edits, bt.owner) /\ Owned(bt.accounts, bt.owner)
OpsOwned ==
  \A op \in accountOps : Author[op.edit] = op.owner /\ Owned(op.accounts, op.owner)
OrphansOwned ==
  /\ \A r \in orphanSaves : Owned(r.profile, r.owner)
  /\ \A r \in orphanOps : Author[r.edit] = r.owner

OwnInv ==
  CloudOwned /\ LocalOwned /\ PagesOwned /\ SavesOwned /\ BootsOwned /\ OpsOwned /\ OrphansOwned

LEMMA OwnedIsIsolated == ASSUME OwnInv PROVE OwnerIsolation
BY DEF OwnInv, OwnerIsolation, CloudOwned, LocalOwned, PagesOwned, PageOwned, Owned

-----------------------------------------------------------------------------
(* The browser's items and the pages *)

LEMMA PageReplaced ==
  ASSUME TypeOK, PagesOwned, NEW t \in Tabs, NEW q, PageOwned(q),
         page' = [page EXCEPT ![t] = q]
  PROVE  PagesOwned'
BY DEF TypeOK, PagesOwned, PageOwned

LEMMA ProfileStored ==
  ASSUME TypeOK, LocalOwned, NEW b \in Browsers, NEW o \in Owners, NEW edits, Owned(edits, o),
         NEW ok, saveLocalProfile(b, o, edits, ok)
  PROVE  \A c \in Browsers, p \in Owners : Owned(localProfile'[c][p].edits, p)
<1>1. CASE ok
  <2>1. localProfile' = [localProfile EXCEPT ![b][o] = [state |-> "stored", edits |-> edits]]
    BY <1>1 DEF saveLocalProfile
  <2>2. \A c \in Browsers, p \in Owners : localProfile'[c][p] =
          IF c = b /\ p = o THEN [state |-> "stored", edits |-> edits] ELSE localProfile[c][p]
    BY <2>1 DEF TypeOK
  <2> QED BY <2>2 DEF LocalOwned
<1>2. CASE ~ok
  BY <1>2 DEF saveLocalProfile, LocalOwned
<1> QED BY <1>1, <1>2

LEMMA AccountsStored ==
  ASSUME TypeOK, LocalOwned, NEW b \in Browsers, NEW o \in Owners, NEW edits, Owned(edits, o),
         NEW origin, NEW ok, saveLocalAccounts(b, o, edits, origin, ok)
  PROVE  \A c \in Browsers, p \in Owners : Owned(localAccounts'[c][p].edits, p)
<1> DEFINE item == [state |-> "stored", edits |-> edits, origin |-> origin]
<1>1. CASE ok
  <2>1. localAccounts' = [localAccounts EXCEPT ![b][o] = item]
    BY <1>1 DEF saveLocalAccounts
  <2>2. \A c \in Browsers, p \in Owners : localAccounts'[c][p] =
          IF c = b /\ p = o THEN item ELSE localAccounts[c][p]
    BY <2>1 DEF TypeOK
  <2> QED BY <2>2 DEF LocalOwned
<1>2. CASE ~ok
  BY <1>2 DEF saveLocalAccounts, LocalOwned
<1> QED BY <1>1, <1>2

LEMMA PlanStored ==
  ASSUME TypeOK, LocalOwned, NEW b \in Browsers, NEW o \in Owners,
         NEW profile, NEW accounts, Owned(profile, o), Owned(accounts, o),
         NEW origin, NEW saved, saveLocalPlan(b, o, profile, accounts, origin, saved)
  PROVE  LocalOwned'
<1>1. \A c \in Browsers, p \in Owners : Owned(localProfile'[c][p].edits, p)
  BY ProfileStored DEF saveLocalPlan
<1>2. \A c \in Browsers, p \in Owners : Owned(localAccounts'[c][p].edits, p)
  BY AccountsStored DEF saveLocalPlan
<1> QED BY <1>1, <1>2 DEF LocalOwned, Owned

(* hydrateLocalPlan reads the items of the page's owner. *)
LEMMA FinishLocalOwned ==
  ASSUME TypeOK, LocalOwned, PagesOwned, NEW t \in Tabs, NEW p \in Page, FinishLocal(t, p)
  PROVE  LocalOwned' /\ PagesOwned'
<1> DEFINE b == BrowserOf[t]
           o == p.authUser
<1>1. b \in Browsers /\ o \in Owners
  BY BrowserAssumption DEF Page
<1>2. LocalSession(p) \in Page /\ LocalSession(p).authUser = o
  BY LocalSessionType DEF LocalSession, Page
<1>3. CASE LocalLoadFails(b, o)
  <2> DEFINE q == [LocalSession(p) EXCEPT !.profile = {}, !.accounts = {},
                     !.localPlanOrigin = "starter", !.localPersistenceAvailable = TRUE]
  <2>1. page' = [page EXCEPT ![t] = q] /\ UNCHANGED <<localProfile, localAccounts>>
    BY <1>3 DEF FinishLocal, localVars
  <2>2. PageOwned(q)
    BY <1>2 DEF PageOwned, Owned, Page
  <2> QED BY <2>1, <2>2, PageReplaced DEF LocalOwned
<1>4. CASE ~LocalLoadFails(b, o)
  <2>1. PICK saved \in Writes :
          /\ saveLocalPlan(b, o, hydratedProfile(b, o), hydratedAccounts(b, o),
                           storedOrigin(b, o), saved)
          /\ page' = [page EXCEPT ![t] =
               [LocalSession(p) EXCEPT !.profile = hydratedProfile(b, o),
                  !.accounts = hydratedAccounts(b, o),
                  !.localPlanOrigin = storedOrigin(b, o),
                  !.localPersistenceAvailable = BothSaved(saved)]]
    BY <1>4 DEF FinishLocal
  <2> DEFINE q == [LocalSession(p) EXCEPT !.profile = hydratedProfile(b, o),
                     !.accounts = hydratedAccounts(b, o), !.localPlanOrigin = storedOrigin(b, o),
                     !.localPersistenceAvailable = BothSaved(saved)]
  <2>2. Owned(hydratedProfile(b, o), o) /\ Owned(hydratedAccounts(b, o), o)
    BY <1>1 DEF LocalOwned, Owned, hydratedProfile, hydratedAccounts
  <2>3. /\ q.authUser = o /\ q.profile = hydratedProfile(b, o)
        /\ q.accounts = hydratedAccounts(b, o)
    BY <1>2 DEF Page
  <2>4. PageOwned(q)
    BY <2>2, <2>3 DEF PageOwned
  <2> QED BY <1>1, <2>1, <2>2, <2>4, PageReplaced, PlanStored
<1> QED BY <1>3, <1>4

LEMMA FinishCloudOwned ==
  ASSUME TypeOK, LocalOwned, PagesOwned, NEW t \in Tabs, NEW p \in Page, NEW row \in Row,
         NEW accounts, Owned(row.edits, p.authUser), Owned(accounts, p.authUser),
         FinishCloud(t, p, row, accounts)
  PROVE  LocalOwned' /\ PagesOwned'
<1> DEFINE q == [p EXCEPT !.profile = row.edits, !.accounts = accounts, !.cloudAvailable = TRUE,
                   !.profileRevision = row.rev, !.localPlanOrigin = "user",
                   !.localPersistenceAvailable = TRUE, !.bootstrapped = TRUE,
                   !.profileDirty = @ \/ row.schema = "older"]
<1>1. BrowserOf[t] \in Browsers /\ p.authUser \in Owners
  BY BrowserAssumption DEF Page
<1>2. PICK saved \in Writes :
        saveLocalPlan(BrowserOf[t], p.authUser, row.edits, accounts, "user", saved)
  BY DEF FinishCloud
<1>3. page' = [page EXCEPT ![t] = q]
  BY DEF FinishCloud
<1>4. q.authUser = p.authUser /\ q.profile = row.edits /\ q.accounts = accounts
  BY DEF Page
<1>5. PageOwned(q)
  BY <1>4 DEF PageOwned
<1> QED BY <1>1, <1>2, <1>3, <1>5, PageReplaced, PlanStored

LEMMA BootstrapOwned ==
  ASSUME TypeOK, LocalOwned, PagesOwned, BootsOwned, NEW t \in Tabs, NEW p \in Page,
         ~p.bootstrapped, Bootstrap(t, p)
  PROVE  LocalOwned' /\ PagesOwned' /\ BootsOwned'
<1> DEFINE bt == [tab |-> t, generation |-> p.generation, owner |-> p.authUser,
                  profileRead |-> FALSE, row |-> AbsentRow,
                  accountsRead |-> FALSE, accounts |-> {}, failed |-> FALSE]
<1>1. CASE p.authUser # Anonymous /\ p.cloudAccountReady /\ p.cloudSyncEnabled
  <2>1. /\ page' = [page EXCEPT ![t] = p] /\ boots' = boots \cup {bt}
        /\ UNCHANGED <<localProfile, localAccounts>>
    BY <1>1 DEF Bootstrap, localVars
  <2>2. PageOwned(p)
    BY DEF PageOwned
  <2>3. Owned(bt.row.edits, bt.owner) /\ Owned(bt.accounts, bt.owner)
    BY DEF Owned, AbsentRow
  <2>4. BootsOwned'
    BY <2>1, <2>3 DEF BootsOwned, Owned
  <2> QED BY <2>1, <2>2, <2>4, PageReplaced DEF LocalOwned
<1>2. CASE ~(p.authUser # Anonymous /\ p.cloudAccountReady /\ p.cloudSyncEnabled)
  <2>1. FinishLocal(t, p) /\ UNCHANGED boots
    BY <1>2 DEF Bootstrap
  <2> QED BY <2>1, FinishLocalOwned DEF BootsOwned
<1> QED BY <1>1, <1>2

-----------------------------------------------------------------------------
(* Sign-ins and bootstraps *)

LEMMA AuthSettledOwned ==
  ASSUME TypeOK, OwnInv, NEW t \in Tabs, AuthSettled(t) PROVE OwnInv'
<1>1. UNCHANGED <<save, accountOps, orphanSaves, orphanOps, cloudProfile, cloudAccounts>>
  BY DEF AuthSettled, orphanVars, cloudVars
<1>2. fbUser[t] \in Owners /\ (fbUser[t] # Anonymous) \in BOOLEAN /\ FALSE \in BOOLEAN
  BY DEF TypeOK
<1>3. PICK ready \in BOOLEAN : Bootstrap(t, Started(t, fbUser[t], ready))
  BY <1>2 DEF AuthSettled
<1>4. Started(t, fbUser[t], ready) \in Page
  BY <1>2, StartedType
<1>5. ~Started(t, fbUser[t], ready).bootstrapped
  BY DEF Started, TypeOK, Page
<1>6. LocalOwned' /\ PagesOwned' /\ BootsOwned'
  BY <1>3, <1>4, <1>5, BootstrapOwned DEF OwnInv
<1> QED BY <1>1, <1>6 DEF OwnInv, CloudOwned, SavesOwned, OpsOwned, OrphansOwned

LEMMA RetryCloudOwned ==
  ASSUME TypeOK, OwnInv, NEW t \in Tabs, RetryCloud(t) PROVE OwnInv'
<1> DEFINE p == Started(t, page[t].authUser, TRUE)
<1>1. UNCHANGED <<save, accountOps, orphanSaves, orphanOps, cloudProfile, cloudAccounts>>
  BY DEF RetryCloud, orphanVars, cloudVars
<1>2. Bootstrap(t, p) /\ page[t].authUser \in Owners
  BY DEF RetryCloud, TypeOK, Page
<1>3. p \in Page
  BY <1>2, StartedType
<1>4. ~p.bootstrapped
  BY DEF Started, TypeOK, Page
<1>5. LocalOwned' /\ PagesOwned' /\ BootsOwned'
  BY <1>2, <1>3, <1>4, BootstrapOwned DEF OwnInv
<1> QED BY <1>1, <1>5 DEF OwnInv, CloudOwned, SavesOwned, OpsOwned, OrphansOwned

(* A resumed bootstrap of the current generation read the plan of the page's *)
(* owner; an older one leaves the page alone.                                *)
LEMMA ResumeOwned ==
  ASSUME TypeOK, RevisionInv, OwnInv, NEW bt \in boots, BootstrapResume(bt) PROVE OwnInv'
<1> DEFINE t == bt.tab
<1>1. /\ boots' = boots \ {bt}
      /\ UNCHANGED <<save, accountOps, orphanSaves, orphanOps, cloudProfile, cloudAccounts>>
  BY DEF BootstrapResume, orphanVars, cloudVars
<1>2. t \in Tabs /\ bt.row \in Row /\ page[t] \in Page
  BY DEF TypeOK, Boot
<1>3. Owned(bt.row.edits, bt.owner) /\ Owned(bt.accounts, bt.owner)
  BY DEF OwnInv, BootsOwned
<1>4. LocalOwned' /\ PagesOwned'
  <2>1. CASE Superseded(bt) /\ UNCHANGED <<page, localVars>>
    BY <2>1 DEF OwnInv, LocalOwned, PagesOwned, localVars
  <2>2. CASE ~Superseded(bt) /\ FinishCloud(t, page[t], bt.row, bt.accounts)
    <3>1. bt.owner = page[t].authUser
      BY <2>2 DEF RevisionInv, BootKnows, Superseded
    <3> QED BY <1>2, <1>3, <2>2, <3>1, FinishCloudOwned DEF OwnInv
  <2>3. CASE FinishLocal(t, page[t])
    BY <1>2, <2>3, FinishLocalOwned DEF OwnInv
  <2> QED BY <2>1, <2>2, <2>3 DEF BootstrapResume
<1> QED BY <1>1, <1>4 DEF OwnInv, CloudOwned, SavesOwned, BootsOwned, OpsOwned, OrphansOwned

(* The two reads answer with what the cloud holds of the owner. *)
LEMMA ReadOwned ==
  ASSUME TypeOK, OwnInv, NEW bt \in boots, GetProfile(bt) \/ GetAccounts(bt) \/ ReadFails(bt)
  PROVE  OwnInv'
<1>1. UNCHANGED <<page, save, accountOps, orphanSaves, orphanOps, cloudProfile, cloudAccounts,
                  localProfile, localAccounts>>
  BY DEF GetProfile, GetAccounts, ReadFails, orphanVars, cloudVars, localVars
<1>2. bt \in Boot /\ bt.owner \in Users
  BY DEF TypeOK, Boot
<1>3. \E new : /\ boots' = Replace(boots, bt, new)
               /\ Owned(new.row.edits, new.owner) /\ Owned(new.accounts, new.owner)
  <2>1. /\ Owned(bt.row.edits, bt.owner) /\ Owned(bt.accounts, bt.owner)
        /\ Owned(cloudProfile[bt.owner].edits, bt.owner) /\ Owned(cloudAccounts[bt.owner], bt.owner)
    BY <1>2 DEF OwnInv, BootsOwned, CloudOwned
  <2>2. CASE GetProfile(bt)
    <3> DEFINE new == [bt EXCEPT !.profileRead = TRUE, !.row = cloudProfile[bt.owner]]
    <3>1. new.row = cloudProfile[bt.owner] /\ new.owner = bt.owner /\ new.accounts = bt.accounts
      BY <1>2 DEF Boot
    <3> QED BY <2>1, <2>2, <3>1 DEF GetProfile
  <2>3. CASE GetAccounts(bt)
    <3> DEFINE new == [bt EXCEPT !.accountsRead = TRUE, !.accounts = cloudAccounts[bt.owner]]
    <3>1. new.row = bt.row /\ new.owner = bt.owner /\ new.accounts = cloudAccounts[bt.owner]
      BY <1>2 DEF Boot
    <3> QED BY <2>1, <2>3, <3>1 DEF GetAccounts
  <2>4. CASE ReadFails(bt)
    <3> DEFINE new == [bt EXCEPT !.failed = TRUE]
    <3>1. new.row = bt.row /\ new.owner = bt.owner /\ new.accounts = bt.accounts
      BY <1>2 DEF Boot
    <3> QED BY <2>1, <2>4, <3>1 DEF ReadFails
  <2> QED BY <2>2, <2>3, <2>4
<1>4. BootsOwned'
  BY <1>3 DEF OwnInv, BootsOwned, Owned, Replace
<1> QED BY <1>1, <1>4 DEF OwnInv, CloudOwned, LocalOwned, PagesOwned, SavesOwned, OpsOwned,
                          OrphansOwned

-----------------------------------------------------------------------------
(* Edits *)

LEMMA UpdatePlanOwned ==
  ASSUME TypeOK, OwnInv, NEW t \in Tabs, NEW e \in Edits, updatePlan(t, e) PROVE OwnInv'
<1> DEFINE o == page[t].authUser
           b == BrowserOf[t]
           profile == page[t].profile \cup {e}
           edited == [page[t] EXCEPT !.profile = profile, !.profileDirty = TRUE]
<1>1. /\ UNCHANGED <<save, boots, accountOps, orphanSaves, orphanOps, cloudProfile, cloudAccounts>>
      /\ Usable(t) /\ Fresh(e, o)
  BY DEF updatePlan, orphanVars, cloudVars
<1>2. b \in Browsers /\ o \in Owners /\ page[t] \in Page
  BY BrowserAssumption DEF TypeOK, Page
<1>3. Owned(profile, o) /\ Owned(page[t].accounts, o)
  BY <1>1 DEF OwnInv, PagesOwned, PageOwned, Owned, Usable, Fresh
<1>4. edited.profile = profile /\ edited.accounts = page[t].accounts /\ edited.authUser = o
  BY <1>2 DEF Page
<1>5. edited \in Page
  BY <1>2 DEF Page
<1>6. LocalOwned' /\ PagesOwned'
  <2>1. PICK saved \in Writes :
          \/ /\ saveLocalPlan(b, o, profile, page[t].accounts, "user", saved)
             /\ page' = [page EXCEPT ![t] =
                  [edited EXCEPT !.localPlanOrigin = "user",
                                 !.localPersistenceAvailable = BothSaved(saved)]]
          \/ /\ saveLocalProfile(b, o, profile, saved.profile)
             /\ page' = [page EXCEPT ![t] = [edited EXCEPT !.localPersistenceAvailable = TRUE]]
             /\ UNCHANGED localAccounts
    BY DEF updatePlan
  <2>2. \A flag : PageOwned([edited EXCEPT !.localPlanOrigin = "user",
                                          !.localPersistenceAvailable = flag])
    BY <1>3, <1>4, <1>5 DEF PageOwned, Page
  <2>3. PageOwned([edited EXCEPT !.localPersistenceAvailable = TRUE])
    BY <1>3, <1>4, <1>5 DEF PageOwned, Page
  <2>4. PagesOwned'
    BY <2>1, <2>2, <2>3, PageReplaced DEF OwnInv
  <2>5. CASE saveLocalPlan(b, o, profile, page[t].accounts, "user", saved)
    BY <1>2, <1>3, <2>4, <2>5, PlanStored DEF OwnInv
  <2>6. CASE saveLocalProfile(b, o, profile, saved.profile) /\ UNCHANGED localAccounts
    <3>1. \A c \in Browsers, p \in Owners : Owned(localProfile'[c][p].edits, p)
      BY <1>2, <1>3, <2>6, ProfileStored DEF OwnInv
    <3> QED BY <2>4, <2>6, <3>1 DEF OwnInv, LocalOwned, Owned
  <2> QED BY <2>1, <2>5, <2>6
<1> QED BY <1>1, <1>6 DEF OwnInv, CloudOwned, SavesOwned, BootsOwned, OpsOwned, OrphansOwned

LEMMA LocalAccountOpOwned ==
  ASSUME TypeOK, OwnInv, NEW t \in Tabs, NEW e \in Edits, LocalAccountOp(t, e) PROVE OwnInv'
<1> DEFINE o == page[t].authUser
           accounts == page[t].accounts \cup {e}
<1>1. /\ UNCHANGED <<save, boots, accountOps, orphanSaves, orphanOps, cloudProfile, cloudAccounts>>
      /\ Usable(t) /\ Fresh(e, o)
  BY DEF LocalAccountOp, orphanVars, cloudVars
<1>2. BrowserOf[t] \in Browsers /\ o \in Owners /\ page[t] \in Page
  BY BrowserAssumption DEF TypeOK, Page
<1>3. Owned(page[t].profile, o) /\ Owned(accounts, o)
  BY <1>1 DEF OwnInv, PagesOwned, PageOwned, Owned, Usable, Fresh
<1>4. PICK saved \in Writes :
        /\ saveLocalPlan(BrowserOf[t], o, page[t].profile, accounts, "user", saved)
        /\ page' = [page EXCEPT ![t] =
             [@ EXCEPT !.accounts = accounts, !.localPlanOrigin = "user",
                       !.localPersistenceAvailable = BothSaved(saved)]]
  BY DEF LocalAccountOp
<1> DEFINE q == [page[t] EXCEPT !.accounts = accounts, !.localPlanOrigin = "user",
                   !.localPersistenceAvailable = BothSaved(saved)]
<1>5. page' = [page EXCEPT ![t] = q]
  BY <1>4
<1>6. PageOwned(q)
  BY <1>2, <1>3 DEF PageOwned, Page
<1>7. LocalOwned' /\ PagesOwned'
  BY <1>2, <1>3, <1>4, <1>5, <1>6, PageReplaced, PlanStored DEF OwnInv
<1> QED BY <1>1, <1>7 DEF OwnInv, CloudOwned, SavesOwned, BootsOwned, OpsOwned, OrphansOwned

(* setCloudSyncEnabled *)
LEMMA SyncOwned ==
  ASSUME TypeOK, OwnInv, NEW t \in Tabs, NEW enabled \in BOOLEAN,
         setCloudSyncEnabled(t, enabled)
  PROVE  OwnInv'
<1> DEFINE o == page[t].authUser
           ready == page[t].cloudAccountReady
<1>1. /\ UNCHANGED <<save, accountOps, orphanSaves, orphanOps, cloudProfile, cloudAccounts>>
      /\ Usable(t)
  BY DEF setCloudSyncEnabled, orphanVars, cloudVars
<1>2. BrowserOf[t] \in Browsers /\ o \in Owners /\ ready \in BOOLEAN /\ page[t] \in Page
  BY BrowserAssumption DEF TypeOK, Page
<1>3. Owned(page[t].profile, o) /\ Owned(page[t].accounts, o)
  BY <1>1 DEF OwnInv, PagesOwned, PageOwned, Usable
<1>4. CASE SyncOn(t)
  <2> DEFINE p == [Started(t, o, ready) EXCEPT !.cloudSyncEnabled = TRUE]
  <2>1. p \in Page
    BY <1>2, StartedType
  <2>2. ~p.bootstrapped
    BY <1>2 DEF Started, Page
  <2>3. LocalOwned' /\ PagesOwned' /\ BootsOwned'
    BY <1>4, <2>1, <2>2, BootstrapOwned DEF OwnInv, SyncOn
  <2> QED BY <1>1, <2>3 DEF OwnInv, CloudOwned, SavesOwned, OpsOwned, OrphansOwned
<1>5. CASE SyncOff(t)
  <2> DEFINE off == [page[t] EXCEPT !.cloudSyncEnabled = FALSE, !.localPlanOrigin = "user"]
             restarted == LocalSession(Started(t, o, ready))
  <2>1. PICK saved \in Writes, savedAgain \in Writes :
          /\ saveLocalPlan(BrowserOf[t], o, page[t].profile, page[t].accounts, "user", saved)
          /\ page' = [page EXCEPT ![t] =
               IF BothSaved(saved)
               THEN [restarted EXCEPT !.cloudSyncEnabled = FALSE, !.localPlanOrigin = "user",
                       !.localPersistenceAvailable = BothSaved(savedAgain)]
               ELSE [off EXCEPT !.localPersistenceAvailable = FALSE]]
    BY <1>5 DEF SyncOff
  <2>2. LocalOwned'
    BY <1>2, <1>3, <2>1, PlanStored DEF OwnInv
  <2>3. /\ restarted \in Page /\ restarted.authUser = o
        /\ restarted.profile = page[t].profile /\ restarted.accounts = page[t].accounts
    <3>1. Started(t, o, ready) \in Page
      BY <1>2, StartedType
    <3>2. /\ Started(t, o, ready).authUser = o /\ Started(t, o, ready).profile = page[t].profile
          /\ Started(t, o, ready).accounts = page[t].accounts
      BY <1>2 DEF Started, Page
    <3>3. restarted \in Page
      BY <3>1, LocalSessionType
    <3> QED BY <3>1, <3>2, <3>3 DEF LocalSession, Page
  <2>4. \A flag : PageOwned([restarted EXCEPT !.cloudSyncEnabled = FALSE,
                    !.localPlanOrigin = "user", !.localPersistenceAvailable = flag])
    BY <1>3, <2>3 DEF PageOwned, Page
  <2>5. PageOwned([off EXCEPT !.localPersistenceAvailable = FALSE])
    BY <1>2, <1>3 DEF PageOwned, Page
  <2>6. PagesOwned'
    BY <2>1, <2>4, <2>5, PageReplaced DEF OwnInv
  <2>7. UNCHANGED boots
    BY <1>5 DEF SyncOff
  <2> QED BY <1>1, <2>2, <2>6, <2>7 DEF OwnInv, CloudOwned, SavesOwned, BootsOwned, OpsOwned,
                                       OrphansOwned
<1> QED BY <1>4, <1>5 DEF setCloudSyncEnabled

-----------------------------------------------------------------------------
(* The flush and the requests under way *)

LEMMA FlushOwned ==
  ASSUME TypeOK, RevisionInv, OwnInv, NEW t \in Tabs, flushProfileToDb(t) PROVE OwnInv'
<1> DEFINE sent == [status |-> "sent", owner |-> page[t].authUser,
                    generation |-> page[t].generation, profile |-> page[t].profile,
                    expected |-> page[t].profileRevision, revision |-> NoRevision]
           q == [page[t] EXCEPT !.profileDirty = FALSE]
<1>1. /\ UNCHANGED <<boots, accountOps, orphanSaves, orphanOps, cloudProfile, cloudAccounts,
                     localProfile, localAccounts>>
      /\ DataMode(t) = "cloud" /\ save' = [save EXCEPT ![t] = sent]
      /\ page' = [page EXCEPT ![t] = q]
  BY DEF flushProfileToDb, orphanVars, cloudVars, localVars
<1>2. page[t].bootstrapped
  BY <1>1 DEF DataMode, RevisionInv, PageKnows
<1>3. Owned(page[t].profile, page[t].authUser) /\ PageOwned(page[t])
  BY <1>2 DEF OwnInv, PagesOwned, PageOwned
<1>4. PageOwned(q)
  BY <1>3 DEF PageOwned, TypeOK, Page
<1>5. PagesOwned'
  BY <1>1, <1>4, PageReplaced DEF OwnInv
<1>6. \A x \in Tabs : save'[x] = IF x = t THEN sent ELSE save[x]
  BY <1>1 DEF TypeOK
<1>7. SavesOwned'
  BY <1>3, <1>6 DEF OwnInv, SavesOwned, Owned
<1> QED BY <1>1, <1>5, <1>7 DEF OwnInv, CloudOwned, LocalOwned, BootsOwned, OpsOwned, OrphansOwned

(* A save of the owner's plan goes into the owner's row. *)
LEMMA RowSaved ==
  ASSUME TypeOK, OwnInv, NEW u \in Users, NEW profile, Owned(profile, u),
         \/ cloudProfile' = [cloudProfile EXCEPT ![u] = SavedRow(@, profile)]
         \/ UNCHANGED cloudProfile,
         UNCHANGED cloudAccounts
  PROVE  CloudOwned'
<1>1. CASE UNCHANGED cloudProfile
  BY <1>1 DEF OwnInv, CloudOwned
<1>2. CASE cloudProfile' = [cloudProfile EXCEPT ![u] = SavedRow(@, profile)]
  <2>1. \A v \in Users : cloudProfile'[v].edits = IF v = u THEN profile ELSE cloudProfile[v].edits
    BY <1>2 DEF TypeOK, SavedRow
  <2> QED BY <2>1 DEF OwnInv, CloudOwned
<1> QED BY <1>1, <1>2

LEMMA SavesKeepOwned ==
  ASSUME OwnInv, TypeOK, NEW t \in Tabs, NEW new, save' = [save EXCEPT ![t] = new],
         Owned(new.profile, new.owner)
  PROVE  SavesOwned'
<1>1. \A x \in Tabs : save'[x] = IF x = t THEN new ELSE save[x]
  BY DEF TypeOK
<1> QED BY <1>1 DEF OwnInv, SavesOwned, Owned

LEMMA NoSaveOwned == Owned(NoSave.profile, NoSave.owner)
BY DEF NoSave, Owned

LEMMA SaveUserProfileOwned ==
  ASSUME TypeOK, RevisionInv, OwnInv, NEW t \in Tabs, saveUserProfile(t) PROVE OwnInv'
<1> DEFINE s == save[t]
<1>1. /\ UNCHANGED <<page, boots, accountOps, orphanSaves, orphanOps, cloudAccounts,
                     localProfile, localAccounts>>
      /\ s.status = "sent"
  BY DEF saveUserProfile, orphanVars, localVars
<1>2. s \in Save /\ s.owner \in Users /\ Owned(s.profile, s.owner)
  BY <1>1 DEF TypeOK, RevisionInv, SaveKnows, OwnInv, SavesOwned
<1>3. CloudOwned'
  BY <1>1, <1>2, RowSaved DEF saveUserProfile
<1>4. \E new : /\ save' = [save EXCEPT ![t] = new]
               /\ new.profile = s.profile /\ new.owner = s.owner
  <2>1. CASE save' = [save EXCEPT ![t] = [@ EXCEPT !.status = "saved", !.revision = s.expected + 1]]
    <3> DEFINE new == [s EXCEPT !.status = "saved", !.revision = s.expected + 1]
    <3>1. new.profile = s.profile /\ new.owner = s.owner
      BY <1>2 DEF Save
    <3> QED BY <2>1, <3>1
  <2>2. CASE save' = [save EXCEPT ![t] = [@ EXCEPT !.status = "conflict"]]
    <3> DEFINE new == [s EXCEPT !.status = "conflict"]
    <3>1. new.profile = s.profile /\ new.owner = s.owner
      BY <1>2 DEF Save
    <3> QED BY <2>2, <3>1
  <2> QED BY <2>1, <2>2 DEF saveUserProfile
<1>5. SavesOwned'
  BY <1>2, <1>4, SavesKeepOwned
<1> QED BY <1>1, <1>3, <1>5 DEF OwnInv, LocalOwned, PagesOwned, BootsOwned, OpsOwned, OrphansOwned

LEMMA SaveLostOwned ==
  ASSUME TypeOK, OwnInv, NEW t \in Tabs, SaveLost(t) PROVE OwnInv'
<1> DEFINE new == [save[t] EXCEPT !.status = "failed"]
<1>1. /\ UNCHANGED <<page, boots, accountOps, orphanOps, cloudProfile, cloudAccounts,
                     localProfile, localAccounts>>
      /\ save' = [save EXCEPT ![t] = new]
      /\ orphanSaves' \subseteq orphanSaves \cup {Orphan(save[t])}
  BY DEF SaveLost, cloudVars, localVars
<1>2. Owned(save[t].profile, save[t].owner) /\ save[t] \in Save
  BY DEF TypeOK, OwnInv, SavesOwned
<1>3. new.profile = save[t].profile /\ new.owner = save[t].owner
  BY <1>2 DEF Save
<1>4. SavesOwned'
  BY <1>1, <1>2, <1>3, SavesKeepOwned
<1>5. OrphansOwned'
  BY <1>1, <1>2 DEF OwnInv, OrphansOwned, Owned, Orphan
<1> QED BY <1>1, <1>4, <1>5 DEF OwnInv, CloudOwned, LocalOwned, PagesOwned, BootsOwned, OpsOwned

LEMMA SaveReplyOwned ==
  ASSUME TypeOK, OwnInv, NEW t \in Tabs, SaveReply(t) PROVE OwnInv'
<1>1. /\ UNCHANGED <<boots, accountOps, orphanSaves, orphanOps, cloudProfile, cloudAccounts,
                     localProfile, localAccounts>>
      /\ save' = [save EXCEPT ![t] = NoSave]
      /\ save[t].status \in {"saved", "conflict", "failed"}
  BY DEF SaveReply, orphanVars, cloudVars, localVars
<1>2. SavesOwned'
  BY <1>1, NoSaveOwned, SavesKeepOwned
<1>3. PagesOwned'
  <2>1. CASE UNCHANGED page
    BY <2>1 DEF OwnInv, PagesOwned
  <2>2. CASE page' = [page EXCEPT ![t] = AfterReply(@, save[t])]
    <3>1. page[t] \in Page /\ PageOwned(page[t])
      BY DEF TypeOK, OwnInv, PagesOwned
    <3>2. PageOwned(AfterReply(page[t], save[t]))
      BY <1>1, <3>1 DEF AfterReply, PageOwned, Page
    <3>3. page' = [page EXCEPT ![t] = AfterReply(page[t], save[t])]
      BY <2>2
    <3> QED BY <3>2, <3>3, PageReplaced DEF OwnInv
  <2> QED BY <2>1, <2>2 DEF SaveReply
<1> QED BY <1>1, <1>2, <1>3 DEF OwnInv, CloudOwned, LocalOwned, BootsOwned, OpsOwned, OrphansOwned

LEMMA OrphanSaveOwned ==
  ASSUME TypeOK, RevisionInv, OwnInv, NEW r \in orphanSaves, OrphanSave(r) PROVE OwnInv'
<1>1. /\ UNCHANGED <<page, save, boots, accountOps, orphanOps, cloudAccounts,
                     localProfile, localAccounts>>
      /\ orphanSaves' \subseteq orphanSaves
  BY DEF OrphanSave, localVars
<1>2. r.owner \in Users /\ Owned(r.profile, r.owner)
  BY DEF RevisionInv, OrphanKnows, OwnInv, OrphansOwned
<1>3. CloudOwned'
  BY <1>1, <1>2, RowSaved DEF OrphanSave
<1> QED BY <1>1, <1>3 DEF OwnInv, LocalOwned, PagesOwned, SavesOwned, BootsOwned, OpsOwned,
                          OrphansOwned

-----------------------------------------------------------------------------
(* Account operations *)

(* An operation is added, moves on or is dropped. *)
LEMMA OpsMove ==
  ASSUME OwnInv, NEW new, Author[new.edit] = new.owner, Owned(new.accounts, new.owner),
         accountOps' \subseteq accountOps \cup {new}
  PROVE  OpsOwned'
BY DEF OwnInv, OpsOwned, Owned

LEMMA AccountAdded ==
  ASSUME TypeOK, OwnInv, NEW u \in Users, NEW e, Author[e] = u, UNCHANGED cloudProfile,
         cloudAccounts' = [cloudAccounts EXCEPT ![u] = @ \cup {e}]
  PROVE  CloudOwned'
<1>1. \A v \in Users : cloudAccounts'[v] =
        IF v = u THEN cloudAccounts[u] \cup {e} ELSE cloudAccounts[v]
  BY DEF TypeOK
<1> QED BY <1>1 DEF OwnInv, CloudOwned, Owned

LEMMA CloudAccountOpOwned ==
  ASSUME TypeOK, OwnInv, NEW t \in Tabs, NEW e \in Edits, CloudAccountOp(t, e) PROVE OwnInv'
<1> DEFINE new == [tab |-> t, owner |-> page[t].authUser, edit |-> e, phase |-> "sent",
                   accounts |-> {}]
<1>1. /\ UNCHANGED <<page, save, boots, orphanSaves, orphanOps, cloudProfile, cloudAccounts,
                     localProfile, localAccounts>>
      /\ accountOps' = accountOps \cup {new} /\ Author[e] = page[t].authUser
  BY DEF CloudAccountOp, Fresh, orphanVars, cloudVars, localVars
<1>2. Author[new.edit] = new.owner /\ Owned(new.accounts, new.owner)
  BY <1>1 DEF Owned
<1>3. OpsOwned'
  BY <1>1, <1>2, OpsMove
<1> QED BY <1>1, <1>3 DEF OwnInv, CloudOwned, LocalOwned, PagesOwned, SavesOwned, BootsOwned,
                          OrphansOwned

LEMMA AccountOpStepOwned ==
  ASSUME TypeOK, OwnInv, NEW op \in accountOps, AccountOpStep(op) PROVE OwnInv'
<1>1. /\ op \in AccountOp /\ op.owner \in Users /\ op.tab \in Tabs
      /\ Author[op.edit] = op.owner /\ Owned(op.accounts, op.owner)
      /\ Owned(cloudAccounts[op.owner], op.owner)
  BY DEF TypeOK, AccountOp, OwnInv, OpsOwned, CloudOwned
<1>2. UNCHANGED <<save, boots, orphanSaves, cloudProfile>>
  BY DEF AccountOpStep, ApplyAccountOp, AccountOpReply, ReadAccountsAgain, AccountsReply,
         AccountOpLost, orphanVars, cloudVars
<1>3. OpsOwned'
  <2>1. \A place : LET new == [op EXCEPT !.phase = place] IN
          Author[new.edit] = new.owner /\ Owned(new.accounts, new.owner)
    BY <1>1 DEF AccountOp
  <2>2. LET new == [op EXCEPT !.phase = "read", !.accounts = cloudAccounts[op.owner]] IN
          Author[new.edit] = new.owner /\ Owned(new.accounts, new.owner)
    BY <1>1 DEF AccountOp
  <2>3. CASE ApplyAccountOp(op)
    <3>1. accountOps' \subseteq accountOps \cup {[op EXCEPT !.phase = "applied"]}
      BY <2>3 DEF ApplyAccountOp, Replace
    <3> QED BY <2>1, <3>1, OpsMove
  <2>4. CASE AccountOpReply(op)
    <3>1. accountOps' \subseteq accountOps \cup {[op EXCEPT !.phase = "reading"]}
      BY <2>4 DEF AccountOpReply, Replace
    <3> QED BY <2>1, <3>1, OpsMove
  <2>5. CASE ReadAccountsAgain(op)
    <3>1. accountOps' \subseteq accountOps \cup
            {[op EXCEPT !.phase = "read", !.accounts = cloudAccounts[op.owner]]}
      BY <2>5 DEF ReadAccountsAgain, Replace
    <3> QED BY <2>2, <3>1, OpsMove
  <2>6. CASE AccountsReply(op) \/ AccountOpLost(op)
    <3>1. accountOps' \subseteq accountOps
      BY <2>6 DEF AccountsReply, AccountOpLost
    <3> QED BY <3>1 DEF OwnInv, OpsOwned
  <2> QED BY <2>3, <2>4, <2>5, <2>6 DEF AccountOpStep
<1>4. CloudOwned'
  <2>1. CASE ApplyAccountOp(op)
    BY <1>1, <1>2, <2>1, AccountAdded DEF ApplyAccountOp
  <2>2. CASE ~ApplyAccountOp(op)
    <3>1. UNCHANGED cloudAccounts
      BY <2>2 DEF AccountOpStep, AccountOpReply, ReadAccountsAgain, AccountsReply,
                  AccountOpLost, cloudVars
    <3> QED BY <1>2, <3>1 DEF OwnInv, CloudOwned
  <2> QED BY <2>1, <2>2
<1>5. LocalOwned' /\ PagesOwned'
  <2>1. CASE AccountsReply(op) /\ page[op.tab].authUser = op.owner
    <3> DEFINE t == op.tab
               q == [page[t] EXCEPT !.accounts = op.accounts, !.localPlanOrigin = "user",
                                    !.localPersistenceAvailable = TRUE]
    <3>1. PICK ok \in StorageOutcomes :
            saveLocalAccounts(BrowserOf[t], op.owner, op.accounts, "user", ok)
      BY <2>1 DEF AccountsReply
    <3>2. page' = [page EXCEPT ![t] = q] /\ UNCHANGED localProfile
      BY <2>1 DEF AccountsReply
    <3>3. page[t] \in Page /\ PageOwned(page[t]) /\ BrowserOf[t] \in Browsers /\ op.owner \in Owners
      BY <1>1, BrowserAssumption DEF TypeOK, OwnInv, PagesOwned, Owners
    <3>4. PageOwned(q)
      BY <1>1, <2>1, <3>3 DEF PageOwned, Page
    <3>5. \A c \in Browsers, p \in Owners : Owned(localAccounts'[c][p].edits, p)
      BY <1>1, <3>1, <3>3, AccountsStored DEF OwnInv
    <3> QED BY <1>1, <3>2, <3>4, <3>5, PageReplaced DEF OwnInv, LocalOwned, Owned
  <2>2. CASE ~(AccountsReply(op) /\ page[op.tab].authUser = op.owner)
    <3>1. UNCHANGED <<page, localProfile, localAccounts>>
      BY <2>2 DEF AccountOpStep, ApplyAccountOp, AccountOpReply, ReadAccountsAgain, AccountsReply,
                  AccountOpLost, localVars
    <3> QED BY <3>1 DEF OwnInv, LocalOwned, PagesOwned
  <2> QED BY <2>1, <2>2
<1>6. OrphansOwned'
  <2>1. orphanOps' \subseteq orphanOps \cup {[owner |-> op.owner, edit |-> op.edit]}
    BY DEF AccountOpStep, ApplyAccountOp, AccountOpReply, ReadAccountsAgain, AccountsReply,
           AccountOpLost, orphanVars
  <2> QED BY <1>1, <1>2, <2>1 DEF OwnInv, OrphansOwned
<1> QED BY <1>2, <1>3, <1>4, <1>5, <1>6 DEF OwnInv, SavesOwned, BootsOwned

LEMMA OrphanOpOwned ==
  ASSUME TypeOK, OwnInv, NEW r \in orphanOps, OrphanOp(r) PROVE OwnInv'
<1>1. /\ UNCHANGED <<page, save, boots, accountOps, orphanSaves, cloudProfile,
                     localProfile, localAccounts>>
      /\ orphanOps' \subseteq orphanOps
      /\ cloudAccounts' = [cloudAccounts EXCEPT ![r.owner] = @ \cup {r.edit}]
  BY DEF OrphanOp, localVars
<1>2. r.owner \in Users /\ Author[r.edit] = r.owner
  BY DEF TypeOK, OwnInv, OrphansOwned
<1>3. CloudOwned'
  BY <1>1, <1>2, AccountAdded
<1> QED BY <1>1, <1>3 DEF OwnInv, LocalOwned, PagesOwned, SavesOwned, BootsOwned, OpsOwned,
                          OrphansOwned

LEMMA ReloadOwned ==
  ASSUME TypeOK, OwnInv, NEW t \in Tabs, Reload(t) PROVE OwnInv'
<1> DEFINE q == FreshPage(prefs[BrowserOf[t]], page[t].generation)
<1>1. /\ UNCHANGED <<cloudProfile, cloudAccounts, localProfile, localAccounts>>
      /\ page' = [page EXCEPT ![t] = q] /\ save' = [save EXCEPT ![t] = NoSave]
      /\ boots' \subseteq boots /\ accountOps' \subseteq accountOps
      /\ orphanSaves' \subseteq orphanSaves \cup {Orphan(save[t])}
      /\ orphanOps' \subseteq orphanOps \cup {[owner |-> op.owner, edit |-> op.edit] : op \in OpsOf(t)}
  BY DEF Reload, cloudVars, localVars
<1>2. PagesOwned'
  <2>1. PageOwned(q)
    BY DEF FreshPage, PageOwned
  <2> QED BY <1>1, <2>1, PageReplaced DEF OwnInv
<1>3. SavesOwned'
  BY <1>1, NoSaveOwned, SavesKeepOwned
<1>4. OrphansOwned'
  <2>1. Owned(save[t].profile, save[t].owner)
    BY DEF OwnInv, SavesOwned
  <2>2. \A op \in OpsOf(t) : Author[op.edit] = op.owner
    BY DEF OpsOf, OwnInv, OpsOwned
  <2> QED BY <1>1, <2>1, <2>2 DEF OwnInv, OrphansOwned, Owned, Orphan
<1> QED BY <1>1, <1>2, <1>3, <1>4 DEF OwnInv, CloudOwned, LocalOwned, BootsOwned, OpsOwned

-----------------------------------------------------------------------------

LEMMA InitOwned == ASSUME Init PROVE OwnInv
<1>1. CloudOwned
  BY DEF Init, CloudOwned, Owned
<1>2. LocalOwned
  BY DEF Init, LocalOwned, Owned
<1>3. PagesOwned /\ SavesOwned
  BY DEF Init, PagesOwned, PageOwned, SavesOwned, FreshPage, NoSave, Owned
<1>4. BootsOwned /\ OpsOwned /\ OrphansOwned
  BY DEF Init, BootsOwned, OpsOwned, OrphansOwned
<1> QED BY <1>1, <1>2, <1>3, <1>4 DEF OwnInv

LEMMA StepOwned == ASSUME TypeOK, RevisionInv, OwnInv, [Next]_vars PROVE OwnInv'
<1>1. CASE UNCHANGED vars
  BY <1>1 DEF vars, orphanVars, cloudVars, localVars, OwnInv, CloudOwned, LocalOwned, PagesOwned,
              SavesOwned, BootsOwned, OpsOwned, OrphansOwned
<1>2. ASSUME NEW t \in Tabs, UserStep(t) PROVE OwnInv'
  <2>1. ASSUME NEW u \in Owners, AuthStateChanged(t, u) PROVE OwnInv'
    BY <2>1 DEF AuthStateChanged, orphanVars, cloudVars, localVars, OwnInv, CloudOwned, LocalOwned,
                PagesOwned, SavesOwned, BootsOwned, OpsOwned, OrphansOwned
  <2> QED BY <1>2, <2>1, UpdatePlanOwned, LocalAccountOpOwned, CloudAccountOpOwned, SyncOwned,
             RetryCloudOwned, ReloadOwned DEF UserStep
<1>3. ASSUME NEW t \in Tabs, AuthSettled(t) \/ SaveStep(t) PROVE OwnInv'
  BY <1>3, AuthSettledOwned, FlushOwned, SaveUserProfileOwned, SaveLostOwned, SaveReplyOwned
     DEF SaveStep
<1>4. ASSUME NEW bt \in boots, BootStep(bt) PROVE OwnInv'
  BY <1>4, ReadOwned, ResumeOwned DEF BootStep
<1>5. ASSUME NEW op \in accountOps, AccountOpStep(op) PROVE OwnInv'
  BY <1>5, AccountOpStepOwned
<1>6. ASSUME NEW r \in orphanSaves, OrphanSave(r) PROVE OwnInv'
  BY <1>6, OrphanSaveOwned
<1>7. ASSUME NEW r \in orphanOps, OrphanOp(r) PROVE OwnInv'
  BY <1>7, OrphanOpOwned
<1> QED BY <1>1, <1>2, <1>3, <1>4, <1>5, <1>6, <1>7 DEF Next

(* Whatever the order of sign-ins, replies, failures and reloads in any       *)
(* number of tabs and browsers, a plan on screen, a browser's item and a row *)
(* of the cloud hold edits of their own owner only (usePlan.ts: bootstrap's   *)
(* generation check, ownerKey, expectedUserId).                              *)
THEOREM OwnersAreIsolated == Spec => []OwnerIsolation
<1>1. Init => OwnInv
  BY InitOwned
<1>2. TypeOK /\ RevisionInv /\ OwnInv /\ [Next]_vars => OwnInv'
  BY StepOwned
<1>3. OwnInv => OwnerIsolation
  BY OwnedIsIsolated
<1> QED BY <1>1, <1>2, <1>3, TypeCorrect, RevisionSafe, PTL DEF Spec

-----------------------------------------------------------------------------
(* Local edits *)

Uploaded(edits) == \A e \in edits : issued[e] = "cloud"
PageUploaded(p) ==
  p.authUser # Anonymous /\ p.cloudAccountReady /\ p.cloudAvailable /\ p.cloudSyncEnabled =>
    Uploaded(p.profile) /\ p.accounts \subseteq cloudAccounts[p.authUser]

CloudUploaded == \A u \in Users : Uploaded(cloudProfile[u].edits) /\ Uploaded(cloudAccounts[u])
PagesUploaded == \A t \in Tabs : PageUploaded(page[t])
SavesUploaded == \A t \in Tabs : Uploaded(save[t].profile)
BootsUploaded ==
  \A bt \in boots : Uploaded(bt.row.edits) /\ bt.accounts \subseteq cloudAccounts[bt.owner]
OpsUploaded ==
  \A op \in accountOps :
    issued[op.edit] = "cloud" /\ op.accounts \subseteq cloudAccounts[op.owner]
OrphansUploaded ==
  /\ \A r \in orphanSaves : Uploaded(r.profile)
  /\ \A r \in orphanOps : issued[r.edit] = "cloud"

CopiesUploaded == PagesUploaded /\ SavesUploaded /\ BootsUploaded /\ OpsUploaded /\ OrphansUploaded
UpInv == CloudUploaded /\ CopiesUploaded

(* What is in the cloud, or on its way there, stays. *)
Grows ==
  /\ \A e : issued[e] = "cloud" => issued'[e] = "cloud"
  /\ \A u \in Users : cloudAccounts[u] \subseteq cloudAccounts'[u]

LEMMA UploadedIsSound == ASSUME TypeOK, UpInv PROVE LocalStaysLocal /\ CloudAllOrNothing
<1>1. LocalStaysLocal
  BY DEF UpInv, CloudUploaded, Uploaded, LocalStaysLocal
<1>2. CloudAllOrNothing
  BY DEF UpInv, CopiesUploaded, PagesUploaded, PageUploaded, Uploaded, CloudAllOrNothing, DataMode
<1> QED BY <1>1, <1>2

LEMMA Issued ==
  ASSUME TypeOK, NEW e \in Edits, issued[e] = "none", NEW mode,
         issued' = [issued EXCEPT ![e] = mode]
  PROVE  /\ \A x : issued[x] = "cloud" => issued'[x] = "cloud"
         /\ issued'[e] = mode
BY DEF TypeOK

LEMMA AccountGrows ==
  ASSUME TypeOK, NEW u \in Users, NEW e, cloudAccounts' = [cloudAccounts EXCEPT ![u] = @ \cup {e}]
  PROVE  /\ \A v \in Users : cloudAccounts[v] \subseteq cloudAccounts'[v]
         /\ \A v \in Users : cloudAccounts'[v] \subseteq cloudAccounts[v] \cup {e}
BY DEF TypeOK

(* Copies that do not change stay uploaded. *)
LEMMA CopiesStay ==
  ASSUME TypeOK, UpInv, Grows
  PROVE  /\ \A t \in Tabs : PageUploaded(page[t]) =>
              \A q : q = page[t] => (page'[t] = q => PageUploaded(page[t])')
         /\ save' = save => SavesUploaded'
         /\ boots' \subseteq boots => BootsUploaded'
         /\ accountOps' \subseteq accountOps => OpsUploaded'
         /\ (orphanSaves' \subseteq orphanSaves /\ orphanOps' \subseteq orphanOps) => OrphansUploaded'
<1>1. ASSUME NEW t \in Tabs, page'[t] = page[t], PageUploaded(page[t]) PROVE PageUploaded(page[t])'
  <2>1. page[t].authUser # Anonymous => page[t].authUser \in Users
    BY DEF TypeOK, Page, Owners
  <2> QED BY <1>1, <2>1 DEF PageUploaded, Uploaded, Grows
<1>2. ASSUME save' = save PROVE SavesUploaded'
  BY <1>2 DEF UpInv, CopiesUploaded, SavesUploaded, Uploaded, Grows
<1>3. ASSUME boots' \subseteq boots PROVE BootsUploaded'
  <2>1. \A bt \in boots : bt.owner \in Users
    BY DEF TypeOK, Boot
  <2> QED BY <1>3, <2>1 DEF UpInv, CopiesUploaded, BootsUploaded, Uploaded, Grows
<1>4. ASSUME accountOps' \subseteq accountOps PROVE OpsUploaded'
  <2>1. \A op \in accountOps : op.owner \in Users
    BY DEF TypeOK, AccountOp
  <2> QED BY <1>4, <2>1 DEF UpInv, CopiesUploaded, OpsUploaded, Grows
<1>5. ASSUME orphanSaves' \subseteq orphanSaves, orphanOps' \subseteq orphanOps
      PROVE  OrphansUploaded'
  BY <1>5 DEF UpInv, CopiesUploaded, OrphansUploaded, Uploaded, Grows
<1> QED BY <1>1, <1>2, <1>3, <1>4, <1>5

LEMMA PagesStay ==
  ASSUME TypeOK, UpInv, Grows, UNCHANGED page PROVE PagesUploaded'
<1>1. \A t \in Tabs : PageUploaded(page[t])
  BY DEF UpInv, CopiesUploaded, PagesUploaded
<1> QED BY <1>1, CopiesStay DEF PagesUploaded

(* One page is replaced. *)
LEMMA PageMoves ==
  ASSUME TypeOK, UpInv, Grows, NEW t \in Tabs, NEW q, page' = [page EXCEPT ![t] = q],
         q.authUser # Anonymous /\ q.cloudAccountReady /\ q.cloudAvailable /\ q.cloudSyncEnabled =>
           /\ \A e \in q.profile : issued'[e] = "cloud"
           /\ q.accounts \subseteq cloudAccounts'[q.authUser]
  PROVE  PagesUploaded'
<1>1. \A x \in Tabs : page'[x] = IF x = t THEN q ELSE page[x]
  BY DEF TypeOK
<1>2. \A x \in Tabs : PageUploaded(page[x])
  BY DEF UpInv, CopiesUploaded, PagesUploaded
<1>3. ASSUME NEW x \in Tabs PROVE PageUploaded(page[x])'
  <2>1. CASE x = t
    BY <1>1, <2>1 DEF PageUploaded, Uploaded
  <2>2. CASE x # t
    BY <1>1, <1>2, <2>2, CopiesStay
  <2> QED BY <2>1, <2>2
<1> QED BY <1>3 DEF PagesUploaded

LEMMA OffPage ==
  ASSUME TypeOK, UpInv, Grows, NEW t \in Tabs, NEW q, page' = [page EXCEPT ![t] = q],
         ~q.cloudAvailable \/ ~q.cloudSyncEnabled
  PROVE  PagesUploaded'
BY PageMoves

LEMMA FinishLocalUploads ==
  ASSUME TypeOK, UpInv, Grows, NEW t \in Tabs, NEW p \in Page, FinishLocal(t, p)
  PROVE  PagesUploaded'
<1>1. LocalSession(p) \in Page /\ ~LocalSession(p).cloudAvailable
  BY LocalSessionType DEF LocalSession, Page
<1>2. \A profile, accounts, origin, flag :
        ~[LocalSession(p) EXCEPT !.profile = profile, !.accounts = accounts,
            !.localPlanOrigin = origin, !.localPersistenceAvailable = flag].cloudAvailable
  BY <1>1 DEF Page
<1> DEFINE o == p.authUser
           b == BrowserOf[t]
           shown(profile, accounts, origin, flag) ==
             [LocalSession(p) EXCEPT !.profile = profile, !.accounts = accounts,
                !.localPlanOrigin = origin, !.localPersistenceAvailable = flag]
<1>3. CASE page' = [page EXCEPT ![t] = shown({}, {}, "starter", TRUE)]
  BY <1>2, <1>3, OffPage
<1>4. CASE \E saved \in Writes : page' = [page EXCEPT ![t] =
             shown(hydratedProfile(b, o), hydratedAccounts(b, o), storedOrigin(b, o),
                   BothSaved(saved))]
  BY <1>2, <1>4, OffPage
<1> QED BY <1>3, <1>4 DEF FinishLocal

LEMMA BootstrapUploads ==
  ASSUME TypeOK, UpInv, Grows, NEW t \in Tabs, NEW p \in Page, ~p.cloudAvailable, Bootstrap(t, p)
  PROVE  PagesUploaded' /\ BootsUploaded'
<1> DEFINE bt == [tab |-> t, generation |-> p.generation, owner |-> p.authUser,
                  profileRead |-> FALSE, row |-> AbsentRow,
                  accountsRead |-> FALSE, accounts |-> {}, failed |-> FALSE]
<1>1. CASE p.authUser # Anonymous /\ p.cloudAccountReady /\ p.cloudSyncEnabled
  <2>1. page' = [page EXCEPT ![t] = p] /\ boots' = boots \cup {bt}
    BY <1>1 DEF Bootstrap
  <2>2. \A old \in boots : old.owner \in Users
    BY DEF TypeOK, Boot
  <2>3. BootsUploaded'
    BY <2>1, <2>2 DEF UpInv, CopiesUploaded, BootsUploaded, Uploaded, Grows, AbsentRow
  <2> QED BY <2>1, <2>3, OffPage
<1>2. CASE ~(p.authUser # Anonymous /\ p.cloudAccountReady /\ p.cloudSyncEnabled)
  <2>1. FinishLocal(t, p) /\ UNCHANGED boots
    BY <1>2 DEF Bootstrap
  <2> QED BY <2>1, FinishLocalUploads, CopiesStay
<1> QED BY <1>1, <1>2

(* Steps that touch neither the cloud nor the history. *)
LEMMA CloudStays ==
  ASSUME TypeOK, UpInv, UNCHANGED <<cloudProfile, cloudAccounts, issued>>
  PROVE  Grows /\ CloudUploaded'
BY DEF Grows, UpInv, CloudUploaded, Uploaded

LEMMA BootstrapsUpload ==
  ASSUME TypeOK, UpInv, NEW t \in Tabs,
         AuthSettled(t) \/ RetryCloud(t) \/ \E on \in BOOLEAN : setCloudSyncEnabled(t, on)
  PROVE  UpInv'
<1>1. UNCHANGED <<cloudProfile, cloudAccounts, issued, save, accountOps, orphanSaves, orphanOps>>
  BY DEF AuthSettled, RetryCloud, setCloudSyncEnabled, orphanVars, cloudVars
<1>2. Grows /\ CloudUploaded'
  BY <1>1, CloudStays
<1>3. PagesUploaded' /\ BootsUploaded'
  <2>1. \A u \in Owners, ready \in BOOLEAN : LET p == Started(t, u, ready) IN
          /\ p \in Page /\ [p EXCEPT !.cloudSyncEnabled = TRUE] \in Page
          /\ ~p.cloudAvailable /\ ~[p EXCEPT !.cloudSyncEnabled = TRUE].cloudAvailable
    <3>1. ASSUME NEW u \in Owners, NEW ready \in BOOLEAN
          PROVE  LET p == Started(t, u, ready) IN
                 /\ p \in Page /\ [p EXCEPT !.cloudSyncEnabled = TRUE] \in Page
                 /\ ~p.cloudAvailable /\ ~[p EXCEPT !.cloudSyncEnabled = TRUE].cloudAvailable
      <4>1. /\ Started(t, u, ready) \in Page
            /\ [Started(t, u, ready) EXCEPT !.cloudSyncEnabled = TRUE] \in Page
        BY StartedType
      <4>2. ~Started(t, u, ready).cloudAvailable
        BY DEF Started, TypeOK, Page
      <4> QED BY <4>1, <4>2 DEF Page
    <3> QED BY <3>1
  <2>2. /\ fbUser[t] \in Owners /\ page[t].authUser \in Owners
        /\ page[t].cloudAccountReady \in BOOLEAN /\ (fbUser[t] # Anonymous) \in BOOLEAN
    BY DEF TypeOK, Page
  <2>3. ASSUME NEW p \in Page, ~p.cloudAvailable, Bootstrap(t, p)
        PROVE  PagesUploaded' /\ BootsUploaded'
    BY <1>2, <2>3, BootstrapUploads
  <2>4. CASE AuthSettled(t)
    <3>1. PICK ready \in BOOLEAN : Bootstrap(t, Started(t, fbUser[t], ready))
      BY <2>2, <2>4 DEF AuthSettled
    <3> QED BY <2>1, <2>2, <2>3, <3>1
  <2>5. CASE RetryCloud(t)
    <3>1. Bootstrap(t, Started(t, page[t].authUser, TRUE))
      BY <2>5 DEF RetryCloud
    <3> QED BY <2>1, <2>2, <2>3, <3>1
  <2>6. CASE SyncOn(t)
    <3>1. Bootstrap(t, [Started(t, page[t].authUser, page[t].cloudAccountReady) EXCEPT
                          !.cloudSyncEnabled = TRUE])
      BY <2>6 DEF SyncOn
    <3> QED BY <2>1, <2>2, <2>3, <3>1
  <2>7. CASE SyncOff(t)
    <3> DEFINE off == [page[t] EXCEPT !.cloudSyncEnabled = FALSE, !.localPlanOrigin = "user"]
               restarted == LocalSession(Started(t, page[t].authUser, page[t].cloudAccountReady))
    <3>1. off \in Page /\ ~off.cloudSyncEnabled /\ restarted \in Page
      <4>1. off \in Page /\ ~off.cloudSyncEnabled
        <5>1. page[t] \in Page
          BY DEF TypeOK
        <5> QED BY <5>1 DEF Page
      <4>2. Started(t, page[t].authUser, page[t].cloudAccountReady) \in Page
        BY <2>1, <2>2
      <4> QED BY <4>1, <4>2, LocalSessionType
    <3>2. \A flag : /\ ~[off EXCEPT !.localPersistenceAvailable = flag].cloudSyncEnabled
                    /\ ~[restarted EXCEPT !.cloudSyncEnabled = FALSE, !.localPlanOrigin = "user",
                           !.localPersistenceAvailable = flag].cloudSyncEnabled
      BY <3>1 DEF Page
    <3>3. \E q : page' = [page EXCEPT ![t] = q] /\ ~q.cloudSyncEnabled
      BY <2>7, <3>2 DEF SyncOff
    <3>4. UNCHANGED boots
      BY <2>7 DEF SyncOff
    <3> QED BY <1>2, <3>3, <3>4, OffPage, CopiesStay
  <2> QED BY <2>4, <2>5, <2>6, <2>7 DEF setCloudSyncEnabled
<1> QED BY <1>1, <1>2, <1>3, CopiesStay DEF UpInv, CopiesUploaded

LEMMA BootStepsUpload ==
  ASSUME TypeOK, RevisionInv, UpInv, NEW bt \in boots, BootStep(bt) PROVE UpInv'
<1>1. UNCHANGED <<cloudProfile, cloudAccounts, issued, save, accountOps, orphanSaves, orphanOps>>
  BY DEF BootStep, GetProfile, GetAccounts, ReadFails, BootstrapResume, orphanVars, cloudVars
<1>2. Grows /\ CloudUploaded'
  BY <1>1, CloudStays
<1>3. /\ bt \in Boot /\ bt.owner \in Users /\ bt.tab \in Tabs /\ bt.row \in Row
      /\ Uploaded(bt.row.edits) /\ bt.accounts \subseteq cloudAccounts[bt.owner]
      /\ Uploaded(cloudProfile[bt.owner].edits)
  BY DEF TypeOK, Boot, UpInv, CloudUploaded, CopiesUploaded, BootsUploaded
<1>4. CASE GetProfile(bt) \/ GetAccounts(bt) \/ ReadFails(bt)
  <2>1. UNCHANGED page
    BY <1>4 DEF GetProfile, GetAccounts, ReadFails
  <2>2. \E new : /\ boots' = Replace(boots, bt, new) /\ new.owner = bt.owner
                 /\ Uploaded(new.row.edits) /\ new.accounts \subseteq cloudAccounts[bt.owner]
    <3>1. CASE GetProfile(bt)
      <4> DEFINE new == [bt EXCEPT !.profileRead = TRUE, !.row = cloudProfile[bt.owner]]
      <4>1. new.row = cloudProfile[bt.owner] /\ new.owner = bt.owner /\ new.accounts = bt.accounts
        BY <1>3 DEF Boot
      <4> QED BY <1>3, <3>1, <4>1 DEF GetProfile
    <3>2. CASE GetAccounts(bt)
      <4> DEFINE new == [bt EXCEPT !.accountsRead = TRUE, !.accounts = cloudAccounts[bt.owner]]
      <4>1. new.row = bt.row /\ new.owner = bt.owner /\ new.accounts = cloudAccounts[bt.owner]
        BY <1>3 DEF Boot
      <4> QED BY <1>3, <3>2, <4>1 DEF GetAccounts
    <3>3. CASE ReadFails(bt)
      <4> DEFINE new == [bt EXCEPT !.failed = TRUE]
      <4>1. new.row = bt.row /\ new.owner = bt.owner /\ new.accounts = bt.accounts
        BY <1>3 DEF Boot
      <4> QED BY <1>3, <3>3, <4>1 DEF ReadFails
    <3> QED BY <1>4, <3>1, <3>2, <3>3
  <2>3. BootsUploaded'
    BY <1>1, <1>3, <2>2 DEF UpInv, CopiesUploaded, BootsUploaded, Uploaded, Replace
  <2> QED BY <1>1, <1>2, <2>1, <2>3, PagesStay, CopiesStay DEF UpInv, CopiesUploaded
<1>5. CASE BootstrapResume(bt)
  <2> DEFINE t == bt.tab
  <2>1. boots' \subseteq boots
    BY <1>5 DEF BootstrapResume
  <2>2. page[t] \in Page
    BY <1>3 DEF TypeOK
  <2>3. PagesUploaded'
    <3>1. CASE UNCHANGED page
      BY <1>2, <3>1, PagesStay
    <3>2. CASE ~Superseded(bt) /\ FinishCloud(t, page[t], bt.row, bt.accounts)
      <4> DEFINE q == [page[t] EXCEPT !.profile = bt.row.edits, !.accounts = bt.accounts,
                         !.cloudAvailable = TRUE, !.profileRevision = bt.row.rev,
                         !.localPlanOrigin = "user", !.localPersistenceAvailable = TRUE,
                         !.bootstrapped = TRUE, !.profileDirty = @ \/ bt.row.schema = "older"]
      <4>1. page' = [page EXCEPT ![t] = q]
        BY <3>2 DEF FinishCloud
      <4>2. q.authUser = page[t].authUser /\ q.profile = bt.row.edits /\ q.accounts = bt.accounts
        BY <2>2 DEF Page
      <4>3. bt.owner = page[t].authUser
        BY <3>2 DEF RevisionInv, BootKnows, Superseded
      <4>4. Uploaded(q.profile) /\ q.accounts \subseteq cloudAccounts'[q.authUser] /\ issued' = issued
        BY <1>1, <1>3, <4>2, <4>3
      <4> QED BY <1>2, <1>3, <4>1, <4>4, PageMoves DEF Uploaded
    <3>3. CASE FinishLocal(t, page[t])
      BY <1>2, <1>3, <2>2, <3>3, FinishLocalUploads
    <3> QED BY <1>5, <3>1, <3>2, <3>3 DEF BootstrapResume
  <2> QED BY <1>1, <1>2, <2>1, <2>3, CopiesStay DEF UpInv, CopiesUploaded
<1> QED BY <1>4, <1>5 DEF BootStep

LEMMA EditsUpload ==
  ASSUME TypeOK, UpInv, NEW t \in Tabs, NEW e \in Edits, updatePlan(t, e) \/ LocalAccountOp(t, e)
  PROVE  UpInv'
<1> DEFINE o == page[t].authUser
<1>1. UNCHANGED <<cloudProfile, cloudAccounts, save, boots, accountOps, orphanSaves, orphanOps>>
  BY DEF updatePlan, LocalAccountOp, orphanVars, cloudVars
<1>2. issued[e] = "none" /\ issued' = [issued EXCEPT ![e] = DataMode(t)]
  <2>1. CASE updatePlan(t, e)
    BY <2>1 DEF updatePlan, Fresh
  <2>2. CASE LocalAccountOp(t, e)
    BY <2>2 DEF LocalAccountOp, Fresh
  <2> QED BY <2>1, <2>2
<1>3. Grows /\ issued'[e] = DataMode(t)
  BY <1>1, <1>2, Issued DEF Grows
<1>4. CloudUploaded'
  BY <1>1, <1>3 DEF UpInv, CloudUploaded, Uploaded, Grows
<1>5. page[t] \in Page /\ PageUploaded(page[t])
  BY DEF TypeOK, UpInv, CopiesUploaded, PagesUploaded
<1>6. PagesUploaded'
  <2>1. CASE updatePlan(t, e)
    <3> DEFINE edited == [page[t] EXCEPT !.profile = page[t].profile \cup {e}, !.profileDirty = TRUE]
    <3>1. \/ DataMode(t) = "local" /\ \E flag : page' = [page EXCEPT ![t] =
               [edited EXCEPT !.localPlanOrigin = "user", !.localPersistenceAvailable = flag]]
          \/ /\ DataMode(t) = "cloud"
             /\ page' = [page EXCEPT ![t] = [edited EXCEPT !.localPersistenceAvailable = TRUE]]
      <4>1. PICK saved \in Writes :
              \/ DataMode(t) = "local" /\ page' = [page EXCEPT ![t] =
                   [edited EXCEPT !.localPlanOrigin = "user",
                                  !.localPersistenceAvailable = BothSaved(saved)]]
              \/ /\ DataMode(t) = "cloud"
                 /\ page' = [page EXCEPT ![t] = [edited EXCEPT !.localPersistenceAvailable = TRUE]]
        BY <2>1 DEF updatePlan
      <4> QED BY <4>1
    <3>2. edited \in Page
      BY <1>5 DEF Page
    <3>3. CASE /\ DataMode(t) = "cloud"
               /\ page' = [page EXCEPT ![t] = [edited EXCEPT !.localPersistenceAvailable = TRUE]]
      <4> DEFINE q == [edited EXCEPT !.localPersistenceAvailable = TRUE]
      <4>1. q.profile = page[t].profile \cup {e} /\ q.accounts = page[t].accounts /\ q.authUser = o
        BY <1>5 DEF Page
      <4>2. Uploaded(page[t].profile) /\ page[t].accounts \subseteq cloudAccounts[o]
        BY <1>5, <3>3 DEF DataMode, PageUploaded
      <4>3. (\A x \in q.profile : issued'[x] = "cloud") /\ q.accounts \subseteq cloudAccounts'[q.authUser]
        BY <1>1, <1>3, <3>3, <4>1, <4>2 DEF Uploaded, Grows
      <4> QED BY <1>3, <3>3, <4>3, PageMoves
    <3>4. CASE DataMode(t) = "local" /\ \E flag : page' = [page EXCEPT ![t] =
                 [edited EXCEPT !.localPlanOrigin = "user", !.localPersistenceAvailable = flag]]
      <4>1. PICK flag : page' = [page EXCEPT ![t] =
                 [edited EXCEPT !.localPlanOrigin = "user", !.localPersistenceAvailable = flag]]
        BY <3>4
      <4> DEFINE q == [edited EXCEPT !.localPlanOrigin = "user", !.localPersistenceAvailable = flag]
      <4>2. /\ q.authUser = o /\ q.cloudAccountReady = page[t].cloudAccountReady
            /\ q.cloudAvailable = page[t].cloudAvailable
            /\ q.cloudSyncEnabled = page[t].cloudSyncEnabled
        BY <1>5 DEF Page
      <4>3. ~(q.authUser # Anonymous /\ q.cloudAccountReady /\ q.cloudAvailable /\ q.cloudSyncEnabled)
        BY <3>4, <4>2 DEF DataMode
      <4> QED BY <1>3, <4>1, <4>3, PageMoves
    <3> QED BY <3>1, <3>3, <3>4
  <2>2. CASE LocalAccountOp(t, e)
    <3>1. PICK saved \in Writes : page' = [page EXCEPT ![t] =
             [@ EXCEPT !.accounts = page[t].accounts \cup {e}, !.localPlanOrigin = "user",
                       !.localPersistenceAvailable = BothSaved(saved)]]
      BY <2>2 DEF LocalAccountOp
    <3> DEFINE q == [page[t] EXCEPT !.accounts = page[t].accounts \cup {e}, !.localPlanOrigin = "user",
                       !.localPersistenceAvailable = BothSaved(saved)]
    <3>2. /\ q.authUser = o /\ q.cloudAccountReady = page[t].cloudAccountReady
          /\ q.cloudAvailable = page[t].cloudAvailable
          /\ q.cloudSyncEnabled = page[t].cloudSyncEnabled /\ DataMode(t) = "local"
      BY <1>5, <2>2 DEF Page, LocalAccountOp
    <3>3. ~(q.authUser # Anonymous /\ q.cloudAccountReady /\ q.cloudAvailable /\ q.cloudSyncEnabled)
      BY <3>2 DEF DataMode
    <3>4. page' = [page EXCEPT ![t] = q]
      BY <3>1
    <3> QED BY <1>3, <3>3, <3>4, PageMoves
  <2> QED BY <2>1, <2>2
<1> QED BY <1>1, <1>3, <1>4, <1>6, CopiesStay DEF UpInv, CopiesUploaded

LEMMA CloudAccountOpUploads ==
  ASSUME TypeOK, UpInv, NEW t \in Tabs, NEW e \in Edits, CloudAccountOp(t, e) PROVE UpInv'
<1> DEFINE new == [tab |-> t, owner |-> page[t].authUser, edit |-> e, phase |-> "sent",
                   accounts |-> {}]
<1>1. /\ UNCHANGED <<cloudProfile, cloudAccounts, page, save, boots, orphanSaves, orphanOps>>
      /\ accountOps' = accountOps \cup {new}
      /\ issued[e] = "none" /\ issued' = [issued EXCEPT ![e] = "cloud"]
  BY DEF CloudAccountOp, Fresh, orphanVars, cloudVars
<1>2. Grows /\ issued'[e] = "cloud"
  BY <1>1, Issued DEF Grows
<1>3. CloudUploaded'
  BY <1>1, <1>2 DEF UpInv, CloudUploaded, Uploaded, Grows
<1>4. OpsUploaded'
  BY <1>1, <1>2 DEF UpInv, CopiesUploaded, OpsUploaded, Grows
<1> QED BY <1>1, <1>2, <1>3, <1>4, PagesStay, CopiesStay DEF UpInv, CopiesUploaded

LEMMA SaveStepsUpload ==
  ASSUME TypeOK, RevisionInv, UpInv, NEW t \in Tabs, SaveStep(t) PROVE UpInv'
<1>1. UNCHANGED <<cloudAccounts, issued, boots, accountOps, orphanOps>>
  BY DEF SaveStep, flushProfileToDb, saveUserProfile, SaveLost, SaveReply, orphanVars, cloudVars
<1>2. Grows
  BY <1>1 DEF Grows
<1>3. page[t] \in Page /\ PageUploaded(page[t]) /\ save[t] \in Save /\ Uploaded(save[t].profile)
  BY DEF TypeOK, UpInv, CopiesUploaded, PagesUploaded, SavesUploaded
<1>4. CloudUploaded'
  <2>1. CASE saveUserProfile(t)
    <3>1. save[t].owner \in Users
      BY <2>1 DEF saveUserProfile, RevisionInv, SaveKnows
    <3>2. CASE cloudProfile' = [cloudProfile EXCEPT ![save[t].owner] = SavedRow(@, save[t].profile)]
      <4>1. \A v \in Users : cloudProfile'[v].edits =
              IF v = save[t].owner THEN save[t].profile ELSE cloudProfile[v].edits
        BY <3>2 DEF TypeOK, SavedRow
      <4> QED BY <1>1, <1>3, <4>1 DEF UpInv, CloudUploaded, Uploaded
    <3>3. CASE UNCHANGED cloudProfile
      BY <1>1, <3>3 DEF UpInv, CloudUploaded, Uploaded
    <3> QED BY <2>1, <3>2, <3>3 DEF saveUserProfile
  <2>2. CASE flushProfileToDb(t) \/ SaveLost(t) \/ SaveReply(t)
    BY <1>1, <2>2 DEF flushProfileToDb, SaveLost, SaveReply, cloudVars, UpInv, CloudUploaded, Uploaded
  <2> QED BY <2>1, <2>2 DEF SaveStep
<1>5. PagesUploaded' /\ SavesUploaded' /\ OrphansUploaded'
  <2>1. ASSUME NEW new, save' = [save EXCEPT ![t] = new], Uploaded(new.profile) PROVE SavesUploaded'
    <3>1. \A x \in Tabs : save'[x] = IF x = t THEN new ELSE save[x]
      BY <2>1 DEF TypeOK
    <3> QED BY <1>1, <2>1, <3>1 DEF UpInv, CopiesUploaded, SavesUploaded, Uploaded
  <2>2. \A status, revision :
          /\ [save[t] EXCEPT !.status = status].profile = save[t].profile
          /\ [save[t] EXCEPT !.status = status, !.revision = revision].profile = save[t].profile
    BY <1>3 DEF Save
  <2>3. CASE flushProfileToDb(t)
    <3> DEFINE q == [page[t] EXCEPT !.profileDirty = FALSE]
               new == [status |-> "sent", owner |-> page[t].authUser,
                       generation |-> page[t].generation, profile |-> page[t].profile,
                       expected |-> page[t].profileRevision, revision |-> NoRevision]
    <3>1. /\ page' = [page EXCEPT ![t] = q] /\ save' = [save EXCEPT ![t] = new]
          /\ UNCHANGED orphanSaves /\ DataMode(t) = "cloud"
      BY <2>3 DEF flushProfileToDb, orphanVars
    <3>2. Uploaded(page[t].profile) /\ page[t].accounts \subseteq cloudAccounts[page[t].authUser]
      BY <1>3, <3>1 DEF DataMode, PageUploaded
    <3>3. /\ q.profile = page[t].profile /\ q.accounts = page[t].accounts
          /\ q.authUser = page[t].authUser /\ new.profile = page[t].profile
      BY <1>3 DEF Page
    <3>4. (\A x \in q.profile : issued'[x] = "cloud") /\ q.accounts \subseteq cloudAccounts'[q.authUser]
      BY <1>1, <3>2, <3>3 DEF Uploaded
    <3>5. PagesUploaded'
      BY <1>2, <3>1, <3>4, PageMoves
    <3>6. SavesUploaded'
      BY <2>1, <3>1, <3>2, <3>3
    <3> QED BY <1>1, <1>2, <3>1, <3>5, <3>6, CopiesStay
  <2>4. CASE saveUserProfile(t)
    <3>1. UNCHANGED <<page, orphanSaves>>
      BY <2>4 DEF saveUserProfile, orphanVars
    <3>2. CASE save' = [save EXCEPT ![t] = [@ EXCEPT !.status = "conflict"]]
      <4>1. save' = [save EXCEPT ![t] = [save[t] EXCEPT !.status = "conflict"]]
        BY <3>2
      <4> QED BY <1>1, <1>2, <1>3, <2>1, <2>2, <3>1, <4>1, PagesStay, CopiesStay
    <3>3. CASE save' = [save EXCEPT ![t] =
                 [@ EXCEPT !.status = "saved", !.revision = save[t].expected + 1]]
      <4>1. save' = [save EXCEPT ![t] =
              [save[t] EXCEPT !.status = "saved", !.revision = save[t].expected + 1]]
        BY <3>3
      <4> QED BY <1>1, <1>2, <1>3, <2>1, <2>2, <3>1, <4>1, PagesStay, CopiesStay
    <3> QED BY <2>4, <3>2, <3>3 DEF saveUserProfile
  <2>5. CASE SaveLost(t)
    <3>1. UNCHANGED page /\ orphanSaves' \subseteq orphanSaves \cup {Orphan(save[t])}
      BY <2>5 DEF SaveLost
    <3>2. SavesUploaded'
      BY <1>3, <2>1, <2>2, <2>5 DEF SaveLost
    <3>3. OrphansUploaded'
      BY <1>1, <1>3, <3>1 DEF UpInv, CopiesUploaded, OrphansUploaded, Uploaded, Orphan
    <3> QED BY <1>2, <3>1, <3>2, <3>3, PagesStay
  <2>6. CASE SaveReply(t)
    <3>1. /\ UNCHANGED orphanSaves /\ save' = [save EXCEPT ![t] = NoSave]
          /\ save[t].status \in {"saved", "conflict", "failed"}
      BY <2>6 DEF SaveReply, orphanVars
    <3>2. Uploaded(NoSave.profile)
      BY DEF NoSave, Uploaded
    <3>3. SavesUploaded'
      BY <2>1, <3>1, <3>2
    <3>4. CASE UNCHANGED page
      BY <1>1, <1>2, <3>1, <3>3, <3>4, PagesStay, CopiesStay
    <3>5. CASE page' = [page EXCEPT ![t] = AfterReply(@, save[t])]
      <4> DEFINE q == AfterReply(page[t], save[t])
      <4>1. /\ q.authUser = page[t].authUser /\ q.profile = page[t].profile
            /\ q.accounts = page[t].accounts /\ q.cloudAccountReady = page[t].cloudAccountReady
            /\ q.cloudAvailable = page[t].cloudAvailable
            /\ q.cloudSyncEnabled = page[t].cloudSyncEnabled
        BY <1>3, <3>1 DEF AfterReply, Page
      <4>2. q.authUser # Anonymous /\ q.cloudAccountReady /\ q.cloudAvailable /\ q.cloudSyncEnabled =>
              /\ \A x \in q.profile : issued'[x] = "cloud"
              /\ q.accounts \subseteq cloudAccounts'[q.authUser]
        BY <1>1, <1>3, <4>1 DEF PageUploaded, Uploaded
      <4>3. page' = [page EXCEPT ![t] = q]
        BY <3>5
      <4>4. PagesUploaded'
        BY <1>2, <4>2, <4>3, PageMoves
      <4> QED BY <1>1, <1>2, <3>1, <3>3, <4>4, CopiesStay
    <3> QED BY <2>6, <3>4, <3>5 DEF SaveReply
  <2> QED BY <2>3, <2>4, <2>5, <2>6 DEF SaveStep
<1> QED BY <1>1, <1>2, <1>4, <1>5, CopiesStay DEF UpInv, CopiesUploaded

LEMMA AccountOpsUpload ==
  ASSUME TypeOK, UpInv, NEW op \in accountOps, AccountOpStep(op) PROVE UpInv'
<1>1. UNCHANGED <<cloudProfile, issued, save, boots, orphanSaves>>
  BY DEF AccountOpStep, ApplyAccountOp, AccountOpReply, ReadAccountsAgain, AccountsReply,
         AccountOpLost, orphanVars, cloudVars
<1>2. /\ op \in AccountOp /\ op.owner \in Users /\ op.tab \in Tabs
      /\ issued[op.edit] = "cloud" /\ op.accounts \subseteq cloudAccounts[op.owner]
  BY DEF TypeOK, AccountOp, UpInv, CopiesUploaded, OpsUploaded
<1>3. /\ \A u \in Users : cloudAccounts[u] \subseteq cloudAccounts'[u]
      /\ \A u \in Users : cloudAccounts'[u] \subseteq cloudAccounts[u] \cup {op.edit}
  <2>1. CASE ApplyAccountOp(op)
    BY <1>2, <2>1, AccountGrows DEF ApplyAccountOp
  <2>2. CASE ~ApplyAccountOp(op)
    BY <2>2 DEF AccountOpStep, AccountOpReply, ReadAccountsAgain, AccountsReply, AccountOpLost,
                cloudVars
  <2> QED BY <2>1, <2>2
<1>4. Grows /\ CloudUploaded'
  BY <1>1, <1>2, <1>3 DEF Grows, UpInv, CloudUploaded, Uploaded
<1>5. OpsUploaded'
  <2>1. ASSUME NEW new, new.edit = op.edit, new.owner = op.owner,
               new.accounts \subseteq cloudAccounts[op.owner],
               accountOps' \subseteq accountOps \cup {new}
        PROVE  OpsUploaded'
    <3>1. \A old \in accountOps : old.owner \in Users
      BY DEF TypeOK, AccountOp
    <3> QED BY <1>2, <1>4, <2>1, <3>1 DEF UpInv, CopiesUploaded, OpsUploaded, Grows
  <2>2. \A place : LET new == [op EXCEPT !.phase = place] IN
          new.edit = op.edit /\ new.owner = op.owner /\ new.accounts = op.accounts
    BY <1>2 DEF AccountOp
  <2>3. CASE ApplyAccountOp(op)
    <3>1. accountOps' \subseteq accountOps \cup {[op EXCEPT !.phase = "applied"]}
      BY <2>3 DEF ApplyAccountOp, Replace
    <3> QED BY <1>2, <2>1, <2>2, <3>1
  <2>4. CASE AccountOpReply(op)
    <3>1. accountOps' \subseteq accountOps \cup {[op EXCEPT !.phase = "reading"]}
      BY <2>4 DEF AccountOpReply, Replace
    <3> QED BY <1>2, <2>1, <2>2, <3>1
  <2>5. CASE ReadAccountsAgain(op)
    <3> DEFINE new == [op EXCEPT !.phase = "read", !.accounts = cloudAccounts[op.owner]]
    <3>1. accountOps' \subseteq accountOps \cup {new}
      BY <2>5 DEF ReadAccountsAgain, Replace
    <3>2. new.edit = op.edit /\ new.owner = op.owner /\ new.accounts = cloudAccounts[op.owner]
      BY <1>2 DEF AccountOp
    <3> QED BY <2>1, <3>1, <3>2
  <2>6. CASE AccountsReply(op) \/ AccountOpLost(op)
    BY <1>4, <2>6, CopiesStay DEF AccountsReply, AccountOpLost
  <2> QED BY <2>3, <2>4, <2>5, <2>6 DEF AccountOpStep
<1>6. PagesUploaded'
  <2>1. CASE AccountsReply(op) /\ page[op.tab].authUser = op.owner
    <3> DEFINE t == op.tab
               q == [page[t] EXCEPT !.accounts = op.accounts, !.localPlanOrigin = "user",
                                    !.localPersistenceAvailable = TRUE]
    <3>1. page' = [page EXCEPT ![t] = q]
      BY <2>1 DEF AccountsReply
    <3>2. page[t] \in Page /\ PageUploaded(page[t])
      BY <1>2 DEF TypeOK, UpInv, CopiesUploaded, PagesUploaded
    <3>3. /\ q.authUser = op.owner /\ q.profile = page[t].profile /\ q.accounts = op.accounts
          /\ q.cloudAccountReady = page[t].cloudAccountReady
          /\ q.cloudAvailable = page[t].cloudAvailable
          /\ q.cloudSyncEnabled = page[t].cloudSyncEnabled
      BY <2>1, <3>2 DEF Page
    <3>4. q.authUser # Anonymous /\ q.cloudAccountReady /\ q.cloudAvailable /\ q.cloudSyncEnabled =>
            /\ \A x \in q.profile : issued'[x] = "cloud"
            /\ q.accounts \subseteq cloudAccounts'[q.authUser]
      BY <1>1, <1>2, <1>3, <2>1, <3>2, <3>3 DEF PageUploaded, Uploaded
    <3> QED BY <1>2, <1>4, <3>1, <3>4, PageMoves
  <2>2. CASE ~(AccountsReply(op) /\ page[op.tab].authUser = op.owner)
    <3>1. UNCHANGED page
      BY <2>2 DEF AccountOpStep, ApplyAccountOp, AccountOpReply, ReadAccountsAgain, AccountsReply,
                  AccountOpLost
    <3> QED BY <1>4, <3>1, PagesStay
  <2> QED BY <2>1, <2>2
<1>7. OrphansUploaded'
  <2>1. orphanOps' \subseteq orphanOps \cup {[owner |-> op.owner, edit |-> op.edit]}
    BY DEF AccountOpStep, ApplyAccountOp, AccountOpReply, ReadAccountsAgain, AccountsReply,
           AccountOpLost, orphanVars
  <2> QED BY <1>1, <1>2, <2>1 DEF UpInv, CopiesUploaded, OrphansUploaded, Uploaded
<1> QED BY <1>1, <1>4, <1>5, <1>6, <1>7, CopiesStay DEF UpInv, CopiesUploaded

LEMMA OrphansUpload ==
  ASSUME TypeOK, RevisionInv, UpInv,
         (\E r \in orphanSaves : OrphanSave(r)) \/ \E r \in orphanOps : OrphanOp(r)
  PROVE  UpInv'
<1>1. ASSUME NEW r \in orphanSaves, OrphanSave(r) PROVE UpInv'
  <2>1. /\ UNCHANGED <<cloudAccounts, issued, page, save, boots, accountOps, orphanOps>>
        /\ orphanSaves' \subseteq orphanSaves
    BY <1>1 DEF OrphanSave
  <2>2. r.owner \in Users /\ Uploaded(r.profile)
    BY DEF RevisionInv, OrphanKnows, UpInv, CopiesUploaded, OrphansUploaded
  <2>3. Grows
    BY <2>1 DEF Grows
  <2>4. CloudUploaded'
    <3>1. CASE cloudProfile' = [cloudProfile EXCEPT ![r.owner] = SavedRow(@, r.profile)]
      <4>1. \A v \in Users : cloudProfile'[v].edits =
              IF v = r.owner THEN r.profile ELSE cloudProfile[v].edits
        BY <3>1 DEF TypeOK, SavedRow
      <4> QED BY <2>1, <2>2, <4>1 DEF UpInv, CloudUploaded, Uploaded
    <3>2. CASE UNCHANGED cloudProfile
      BY <2>1, <3>2 DEF UpInv, CloudUploaded, Uploaded
    <3> QED BY <1>1, <3>1, <3>2 DEF OrphanSave
  <2> QED BY <2>1, <2>3, <2>4, PagesStay, CopiesStay DEF UpInv, CopiesUploaded
<1>2. ASSUME NEW r \in orphanOps, OrphanOp(r) PROVE UpInv'
  <2>1. /\ UNCHANGED <<cloudProfile, issued, page, save, boots, accountOps, orphanSaves>>
        /\ orphanOps' \subseteq orphanOps
        /\ cloudAccounts' = [cloudAccounts EXCEPT ![r.owner] = @ \cup {r.edit}]
    BY <1>2 DEF OrphanOp
  <2>2. r.owner \in Users /\ issued[r.edit] = "cloud"
    BY DEF TypeOK, UpInv, CopiesUploaded, OrphansUploaded
  <2>3. /\ \A u \in Users : cloudAccounts[u] \subseteq cloudAccounts'[u]
        /\ \A u \in Users : cloudAccounts'[u] \subseteq cloudAccounts[u] \cup {r.edit}
    BY <2>1, <2>2, AccountGrows
  <2>4. Grows /\ CloudUploaded'
    BY <2>1, <2>2, <2>3 DEF Grows, UpInv, CloudUploaded, Uploaded
  <2> QED BY <2>1, <2>4, PagesStay, CopiesStay DEF UpInv, CopiesUploaded
<1> QED BY <1>1, <1>2

LEMMA ReloadUploads ==
  ASSUME TypeOK, UpInv, NEW t \in Tabs, Reload(t) PROVE UpInv'
<1> DEFINE q == FreshPage(prefs[BrowserOf[t]], page[t].generation)
<1>1. /\ UNCHANGED <<cloudProfile, cloudAccounts, issued>>
      /\ page' = [page EXCEPT ![t] = q] /\ save' = [save EXCEPT ![t] = NoSave]
      /\ boots' \subseteq boots /\ accountOps' \subseteq accountOps
      /\ orphanSaves' \subseteq orphanSaves \cup {Orphan(save[t])}
      /\ orphanOps' \subseteq orphanOps \cup {[owner |-> op.owner, edit |-> op.edit] : op \in OpsOf(t)}
  BY DEF Reload, cloudVars
<1>2. Grows /\ CloudUploaded'
  BY <1>1, CloudStays
<1>3. PagesUploaded'
  <2>1. ~q.cloudAvailable
    BY DEF FreshPage
  <2> QED BY <1>1, <1>2, <2>1, OffPage
<1>4. SavesUploaded'
  <2>1. \A x \in Tabs : save'[x] = IF x = t THEN NoSave ELSE save[x]
    BY <1>1 DEF TypeOK
  <2> QED BY <1>1, <2>1 DEF UpInv, CopiesUploaded, SavesUploaded, Uploaded, NoSave
<1>5. OrphansUploaded'
  <2>1. Uploaded(save[t].profile) /\ \A op \in OpsOf(t) : issued[op.edit] = "cloud"
    BY DEF UpInv, CopiesUploaded, SavesUploaded, OpsUploaded, OpsOf
  <2> QED BY <1>1, <2>1 DEF UpInv, CopiesUploaded, OrphansUploaded, Uploaded, Orphan
<1> QED BY <1>1, <1>2, <1>3, <1>4, <1>5, CopiesStay DEF UpInv, CopiesUploaded

LEMMA InitUploaded == ASSUME Init PROVE UpInv
<1>1. CloudUploaded
  BY DEF Init, CloudUploaded, Uploaded
<1>2. PagesUploaded /\ SavesUploaded
  BY DEF Init, PagesUploaded, PageUploaded, SavesUploaded, FreshPage, NoSave, Uploaded
<1>3. BootsUploaded /\ OpsUploaded /\ OrphansUploaded
  BY DEF Init, BootsUploaded, OpsUploaded, OrphansUploaded
<1> QED BY <1>1, <1>2, <1>3 DEF UpInv, CopiesUploaded

LEMMA StepUploaded == ASSUME TypeOK, RevisionInv, UpInv, [Next]_vars PROVE UpInv'
<1>1. ASSUME UNCHANGED <<cloudProfile, cloudAccounts, issued, page, save, boots, accountOps,
                         orphanSaves, orphanOps>>
      PROVE  UpInv'
  BY <1>1, CloudStays, PagesStay, CopiesStay DEF UpInv, CopiesUploaded
<1>2. CASE UNCHANGED vars
  BY <1>1, <1>2 DEF vars, orphanVars, cloudVars
<1>3. ASSUME NEW t \in Tabs, UserStep(t) PROVE UpInv'
  <2>1. ASSUME NEW u \in Owners, AuthStateChanged(t, u) PROVE UpInv'
    BY <1>1, <2>1 DEF AuthStateChanged, orphanVars, cloudVars
  <2> QED BY <1>3, <2>1, EditsUpload, CloudAccountOpUploads, BootstrapsUpload, ReloadUploads
     DEF UserStep
<1>4. ASSUME NEW t \in Tabs, AuthSettled(t) \/ SaveStep(t) PROVE UpInv'
  BY <1>4, BootstrapsUpload, SaveStepsUpload
<1> QED BY <1>2, <1>3, <1>4, BootStepsUpload, AccountOpsUpload, OrphansUpload DEF Next

(* An edit made in local mode never reaches the cloud, however sync is       *)
(* switched, signed in and reloaded afterwards: "never uploads later edits"  *)
(* on the settings page, bootstrap's reset of profileDirty in usePlan.ts.    *)
THEOREM LocalEditsStayLocal == Spec => []LocalStaysLocal
<1>1. Init => UpInv
  BY InitUploaded
<1>2. TypeOK /\ RevisionInv /\ UpInv /\ [Next]_vars => UpInv'
  BY StepUploaded
<1>3. TypeOK /\ UpInv => LocalStaysLocal
  BY UploadedIsSound
<1> QED BY <1>1, <1>2, <1>3, TypeCorrect, RevisionSafe, PTL DEF Spec

(* A cloud session never mixes in local data: bootstrap (usePlan.ts) takes    *)
(* all of the cloud plan or none of it, in any interleaving.                 *)
THEOREM CloudSessionsArePure == Spec => []CloudAllOrNothing
<1>1. Init => UpInv
  BY InitUploaded
<1>2. TypeOK /\ RevisionInv /\ UpInv /\ [Next]_vars => UpInv'
  BY StepUploaded
<1>3. TypeOK /\ UpInv => CloudAllOrNothing
  BY UploadedIsSound
<1> QED BY <1>1, <1>2, <1>3, TypeCorrect, RevisionSafe, PTL DEF Spec

-----------------------------------------------------------------------------
(* With storage that works and a browser of its own, a tab's plan is always  *)
(* in the browser, whichever mode the session is in.                        *)

WorkingStorage == StorageOutcomes = {TRUE}
OneTabEach == \A t, x \in Tabs : BrowserOf[t] = BrowserOf[x] => t = x

(* Both items hold a plan that is not the starter's. *)
UserStored(b, o) ==
  /\ localProfile[b][o].state = "stored"
  /\ localAccounts[b][o].state = "stored" /\ localAccounts[b][o].origin = "user"

(* Nothing typed is in one item only. *)
BothOrNone ==
  \A b \in Browsers, o \in Owners :
     ~UserStored(b, o) => localProfile[b][o].edits = {} /\ localAccounts[b][o].edits = {}

(* A plan on screen is the one in the browser; a cloud session's is there too. *)
Kept(t) ==
  LET b == BrowserOf[t]
      o == page[t].authUser
  IN  /\ page[t].bootstrapped => /\ page[t].profile = localProfile[b][o].edits
                                 /\ page[t].accounts = localAccounts[b][o].edits
      /\ page[t].cloudAvailable => UserStored(b, o)

(* An account request was made by a cloud session, whose plan is stored. *)
OpStored(op) == UserStored(BrowserOf[op.tab], op.owner)

KeptInv ==
  /\ BothOrNone
  /\ \A t \in Tabs : Kept(t)
  /\ \A op \in accountOps : OpStored(op)

LEMMA KeptIsDurable == ASSUME TypeOK, KeptInv PROVE LocalDurable
<1> SUFFICES ASSUME NEW t \in Tabs, page[t].bootstrapped
             PROVE  /\ hydratedProfile(BrowserOf[t], page[t].authUser) = page[t].profile
                    /\ hydratedAccounts(BrowserOf[t], page[t].authUser) = page[t].accounts
  BY DEF LocalDurable
<1>1. BrowserOf[t] \in Browsers /\ page[t].authUser \in Owners
  BY BrowserAssumption DEF TypeOK, Page
<1>2. Kept(t)
  BY DEF KeptInv
<1> QED BY <1>1, <1>2 DEF KeptInv, BothOrNone, Kept, UserStored, IsStarter, hydratedProfile,
                          hydratedAccounts

LEMMA InitKept == Init => KeptInv
BY BrowserAssumption DEF Init, KeptInv, BothOrNone, Kept, OpStored, UserStored, FreshPage

(* What a step does to the items of the others' browsers and to the stored   *)
(* plans: nothing is unstored, and only t's browser is written.             *)
StoresKeep(t) ==
  /\ BothOrNone'
  /\ \A b \in Browsers, o \in Owners : UserStored(b, o) => UserStored(b, o)'
  /\ \A b \in Browsers : b # BrowserOf[t] =>
       localProfile'[b] = localProfile[b] /\ localAccounts'[b] = localAccounts[b]

LEMMA NothingStored ==
  ASSUME KeptInv, NEW t \in Tabs, UNCHANGED <<localProfile, localAccounts>>
  PROVE  StoresKeep(t)
BY DEF KeptInv, StoresKeep, BothOrNone, UserStored

(* saveLocalPlan writes both items of one owner. *)
LEMMA PlanKept ==
  ASSUME WorkingStorage, TypeOK, KeptInv, NEW t \in Tabs, NEW o \in Owners,
         NEW profile, NEW accounts, NEW origin, NEW saved \in Writes,
         saveLocalPlan(BrowserOf[t], o, profile, accounts, origin, saved),
         origin # "user" => profile = {} /\ accounts = {} /\ ~UserStored(BrowserOf[t], o)
  PROVE  /\ StoresKeep(t) /\ BothSaved(saved)
         /\ localProfile'[BrowserOf[t]][o].edits = profile
         /\ localAccounts'[BrowserOf[t]][o].edits = accounts
         /\ origin = "user" => UserStored(BrowserOf[t], o)'
<1> DEFINE b == BrowserOf[t]
<1>1. b \in Browsers
  BY BrowserAssumption
<1>2. saved.profile = TRUE /\ saved.accounts = TRUE
  BY DEF Writes, WorkingStorage
<1> HIDE DEF b
<1>3. /\ localProfile' = [localProfile EXCEPT ![b][o] = [state |-> "stored", edits |-> profile]]
      /\ localAccounts' = [localAccounts EXCEPT ![b][o] =
           [state |-> "stored", edits |-> accounts, origin |-> origin]]
  BY <1>2 DEF saveLocalPlan, saveLocalProfile, saveLocalAccounts, b
<1>4. \A c \in Browsers, p \in Owners :
        /\ localProfile'[c][p] = IF c = b /\ p = o THEN [state |-> "stored", edits |-> profile]
                                                   ELSE localProfile[c][p]
        /\ localAccounts'[c][p] =
             IF c = b /\ p = o THEN [state |-> "stored", edits |-> accounts, origin |-> origin]
                               ELSE localAccounts[c][p]
  BY <1>3 DEF TypeOK
<1>5. \A c \in Browsers : c # b => localProfile'[c] = localProfile[c]
                                   /\ localAccounts'[c] = localAccounts[c]
  BY <1>3 DEF TypeOK
<1>6. ASSUME NEW c \in Browsers, NEW p \in Owners
      PROVE  /\ UserStored(c, p) => UserStored(c, p)'
             /\ ~UserStored(c, p)' => localProfile'[c][p].edits = {}
                                      /\ localAccounts'[c][p].edits = {}
  BY <1>4 DEF KeptInv, BothOrNone, UserStored, b
<1>7. StoresKeep(t)
  BY <1>5, <1>6 DEF StoresKeep, BothOrNone, b
<1>8. /\ localProfile'[b][o].edits = profile /\ localAccounts'[b][o].edits = accounts
      /\ origin = "user" => UserStored(b, o)'
  BY <1>1, <1>4 DEF UserStored
<1> QED BY <1>2, <1>7, <1>8 DEF BothSaved, b

UserPlanSaved(t, o, profile, accounts) ==
  \E saved \in Writes : saveLocalPlan(BrowserOf[t], o, profile, accounts, "user", saved)

LEMMA UserPlanKept ==
  ASSUME WorkingStorage, TypeOK, KeptInv, NEW t \in Tabs, NEW o \in Owners,
         NEW profile, NEW accounts, UserPlanSaved(t, o, profile, accounts)
  PROVE  /\ StoresKeep(t) /\ UserStored(BrowserOf[t], o)'
         /\ localProfile'[BrowserOf[t]][o].edits = profile
         /\ localAccounts'[BrowserOf[t]][o].edits = accounts
<1>1. PICK saved \in Writes, origin \in {"user"} :
        saveLocalPlan(BrowserOf[t], o, profile, accounts, origin, saved)
  BY DEF UserPlanSaved
<1>2. origin # "user" => profile = {} /\ accounts = {} /\ ~UserStored(BrowserOf[t], o)
  OBVIOUS
<1>3. /\ StoresKeep(t)
      /\ localProfile'[BrowserOf[t]][o].edits = profile
      /\ localAccounts'[BrowserOf[t]][o].edits = accounts
      /\ origin = "user" => UserStored(BrowserOf[t], o)'
  BY <1>1, <1>2, PlanKept
<1> QED BY <1>3

LEMMA WritesSucceed == ASSUME WorkingStorage, NEW saved \in Writes PROVE BothSaved(saved)
BY DEF WorkingStorage, Writes, BothSaved

(* A step of one tab. *)
LEMMA TabKeeps ==
  ASSUME OneTabEach, TypeOK, KeptInv, NEW t \in Tabs, StoresKeep(t),
         \A x \in Tabs : x # t => page'[x] = page[x], Kept(t)',
         \A op \in accountOps' : op.tab \in Tabs /\ op.owner \in Owners /\ OpStored(op)
  PROVE  KeptInv'
<1>1. \A x \in Tabs : BrowserOf[x] \in Browsers
  BY BrowserAssumption
<1>2. ASSUME NEW x \in Tabs, x # t PROVE Kept(x)'
  <2>1. BrowserOf[x] # BrowserOf[t] /\ page[x].authUser \in Owners
    BY <1>2 DEF OneTabEach, TypeOK, Page
  <2>2. Kept(x)
    BY DEF KeptInv
  <2>3. /\ localProfile'[BrowserOf[x]] = localProfile[BrowserOf[x]]
        /\ localAccounts'[BrowserOf[x]] = localAccounts[BrowserOf[x]]
    BY <1>1, <2>1 DEF StoresKeep
  <2> QED BY <1>2, <2>2, <2>3 DEF Kept, UserStored
<1>3. ASSUME NEW op \in accountOps' PROVE OpStored(op)'
  <2>1. BrowserOf[op.tab] \in Browsers /\ op.owner \in Owners /\ OpStored(op)
    BY <1>1
  <2> QED BY <2>1 DEF StoresKeep, OpStored
<1> QED BY <1>2, <1>3 DEF KeptInv, StoresKeep

(* The requests under way when none is made. *)
LEMMA OpsKept ==
  ASSUME TypeOK, KeptInv, accountOps' \subseteq accountOps
  PROVE  \A op \in accountOps' : op.tab \in Tabs /\ op.owner \in Owners /\ OpStored(op)
BY DEF TypeOK, AccountOp, Owners, KeptInv

(* Nothing shown or stored changes. *)
LEMMA FrameKept ==
  ASSUME TypeOK, KeptInv, UNCHANGED <<page, localProfile, localAccounts>>,
         \A op \in accountOps' : OpStored(op)
  PROVE  KeptInv'
BY DEF KeptInv, BothOrNone, Kept, OpStored, UserStored

(* A page replaced by one that is not shown yet, or shows the same. *)
LEMMA PageKept ==
  ASSUME OneTabEach, TypeOK, KeptInv, NEW t \in Tabs, NEW q, page' = [page EXCEPT ![t] = q],
         StoresKeep(t), accountOps' = accountOps,
         q.bootstrapped => /\ q.profile = localProfile'[BrowserOf[t]][q.authUser].edits
                           /\ q.accounts = localAccounts'[BrowserOf[t]][q.authUser].edits,
         q.cloudAvailable => UserStored(BrowserOf[t], q.authUser)'
  PROVE  KeptInv'
<1>1. page'[t] = q /\ \A x \in Tabs : x # t => page'[x] = page[x]
  BY DEF TypeOK
<1>2. Kept(t)'
  BY <1>1 DEF Kept, UserStored
<1> QED BY <1>1, <1>2, TabKeeps, OpsKept

(* The tail of a local bootstrap stores again what it read. *)
LEMMA FinishLocalKept ==
  ASSUME WorkingStorage, OneTabEach, TypeOK, KeptInv, NEW t \in Tabs, NEW p \in Page,
         FinishLocal(t, p), accountOps' = accountOps
  PROVE  KeptInv'
<1> DEFINE b == BrowserOf[t]
           o == p.authUser
<1>1. b \in Browsers /\ o \in Owners
  BY BrowserAssumption DEF Page
<1>2. /\ LocalSession(p) \in Page /\ LocalSession(p).authUser = o
      /\ ~LocalSession(p).cloudAvailable
  BY LocalSessionType DEF LocalSession, Page
<1>3. CASE LocalLoadFails(b, o)
  <2>1. PICK q : q = [LocalSession(p) EXCEPT !.profile = {}, !.accounts = {},
                        !.localPlanOrigin = "starter", !.localPersistenceAvailable = TRUE]
    OBVIOUS
  <2>2. page' = [page EXCEPT ![t] = q] /\ UNCHANGED <<localProfile, localAccounts>>
    BY <1>3, <2>1 DEF FinishLocal, localVars
  <2>3. /\ q.profile = {} /\ q.accounts = {} /\ q.authUser = o
        /\ ~q.cloudAvailable
    BY <1>2, <2>1 DEF Page
  <2>4. localProfile[b][o].edits = {} /\ localAccounts[b][o].edits = {}
    BY <1>1, <1>3 DEF KeptInv, BothOrNone, UserStored, LocalLoadFails
  <2>5. StoresKeep(t)
    BY <2>2, NothingStored
  <2> QED BY <2>2, <2>3, <2>4, <2>5, PageKept
<1>4. CASE ~LocalLoadFails(b, o)
  <2>1. PICK saved \in Writes :
          /\ saveLocalPlan(b, o, hydratedProfile(b, o), hydratedAccounts(b, o),
                           storedOrigin(b, o), saved)
          /\ page' = [page EXCEPT ![t] =
               [LocalSession(p) EXCEPT !.profile = hydratedProfile(b, o),
                  !.accounts = hydratedAccounts(b, o),
                  !.localPlanOrigin = storedOrigin(b, o),
                  !.localPersistenceAvailable = BothSaved(saved)]]
    BY <1>4 DEF FinishLocal
  <2>2. PICK q : q = [LocalSession(p) EXCEPT !.profile = hydratedProfile(b, o),
                        !.accounts = hydratedAccounts(b, o), !.localPlanOrigin = storedOrigin(b, o),
                        !.localPersistenceAvailable = BothSaved(saved)]
    OBVIOUS
  <2>3. /\ q.authUser = o /\ q.profile = hydratedProfile(b, o)
        /\ q.accounts = hydratedAccounts(b, o) /\ ~q.cloudAvailable
    BY <1>2, <2>2 DEF Page
  <2>4. storedOrigin(b, o) # "user" =>
          hydratedProfile(b, o) = {} /\ hydratedAccounts(b, o) = {} /\ ~UserStored(b, o)
    BY <1>1 DEF KeptInv, BothOrNone, UserStored, storedOrigin, hydratedProfile,
                hydratedAccounts, IsStarter
  <2>5. PICK profile, accounts, origin :
          /\ profile = hydratedProfile(b, o) /\ accounts = hydratedAccounts(b, o)
          /\ origin = storedOrigin(b, o)
    OBVIOUS
  <2>6. /\ saveLocalPlan(b, o, profile, accounts, origin, saved)
        /\ origin # "user" => profile = {} /\ accounts = {} /\ ~UserStored(b, o)
    BY <2>1, <2>4, <2>5
  <2>7. /\ StoresKeep(t) /\ localProfile'[b][o].edits = profile
        /\ localAccounts'[b][o].edits = accounts
    BY <1>1, <2>6, PlanKept
  <2>8. page' = [page EXCEPT ![t] = q]
    BY <2>1, <2>2
  <2> QED BY <2>3, <2>5, <2>7, <2>8, PageKept
<1> QED BY <1>3, <1>4

LEMMA BootstrapKept ==
  ASSUME WorkingStorage, OneTabEach, TypeOK, KeptInv, NEW t \in Tabs, NEW p \in Page,
         ~p.bootstrapped, ~p.cloudAvailable, Bootstrap(t, p), accountOps' = accountOps
  PROVE  KeptInv'
<1>1. CASE p.authUser # Anonymous /\ p.cloudAccountReady /\ p.cloudSyncEnabled
  <2>1. page' = [page EXCEPT ![t] = p] /\ UNCHANGED <<localProfile, localAccounts>>
    BY <1>1 DEF Bootstrap, localVars
  <2> QED BY <2>1, NothingStored, PageKept
<1>2. CASE ~(p.authUser # Anonymous /\ p.cloudAccountReady /\ p.cloudSyncEnabled)
  BY <1>2, FinishLocalKept DEF Bootstrap
<1> QED BY <1>1, <1>2

LEMMA StartsKept ==
  ASSUME TypeOK, NEW t \in Tabs, NEW user \in Owners, NEW ready \in BOOLEAN
  PROVE  LET p == Started(t, user, ready)
         IN  /\ p \in Page /\ ~p.bootstrapped /\ ~p.cloudAvailable
             /\ p.authUser = user /\ p.profile = page[t].profile
             /\ p.accounts = page[t].accounts
<1>1. page[t] \in Page
  BY DEF TypeOK
<1>2. Started(t, user, ready) \in Page
  BY StartedType
<1> QED BY <1>1, <1>2 DEF Started, Page

-----------------------------------------------------------------------------
(* The steps of a tab *)

LEMMA UpdatePlanKept ==
  ASSUME WorkingStorage, OneTabEach, TypeOK, KeptInv, NEW t \in Tabs, NEW e \in Edits,
         updatePlan(t, e)
  PROVE  KeptInv'
<1> DEFINE b == BrowserOf[t]
           edited == [page[t] EXCEPT !.profile = page[t].profile \cup {e},
                                     !.profileDirty = TRUE]
<1> PICK o, profile, accounts :
      o = page[t].authUser /\ profile = page[t].profile \cup {e} /\ accounts = page[t].accounts
  OBVIOUS
<1>1. b \in Browsers /\ o \in Owners /\ page[t] \in Page
  BY BrowserAssumption DEF TypeOK, Page
<1>2. Kept(t) /\ page[t].bootstrapped /\ accountOps' = accountOps
  BY DEF KeptInv, updatePlan, Usable
<1>3. /\ edited \in Page /\ edited.profile = profile /\ edited.accounts = accounts
      /\ edited.authUser = o /\ edited.cloudAvailable = page[t].cloudAvailable
  BY <1>1 DEF Page
<1>4. PICK saved \in Writes :
        \/ /\ saveLocalPlan(b, o, profile, accounts, "user", saved)
           /\ page' = [page EXCEPT ![t] =
                [edited EXCEPT !.localPlanOrigin = "user",
                               !.localPersistenceAvailable = BothSaved(saved)]]
        \/ /\ DataMode(t) = "cloud" /\ saveLocalProfile(b, o, profile, saved.profile)
           /\ page' = [page EXCEPT ![t] = [edited EXCEPT !.localPersistenceAvailable = TRUE]]
           /\ UNCHANGED localAccounts
  BY DEF updatePlan
<1> HIDE DEF edited
<1>5. CASE /\ saveLocalPlan(b, o, profile, accounts, "user", saved)
           /\ page' = [page EXCEPT ![t] =
                [edited EXCEPT !.localPlanOrigin = "user",
                               !.localPersistenceAvailable = BothSaved(saved)]]
  <2>1. PICK q : q = [edited EXCEPT !.localPlanOrigin = "user",
                                    !.localPersistenceAvailable = BothSaved(saved)]
    OBVIOUS
  <2>2. q.profile = profile /\ q.accounts = accounts /\ q.authUser = o
    BY <1>3, <2>1 DEF Page
  <2>3. /\ StoresKeep(t) /\ localProfile'[b][o].edits = profile
        /\ localAccounts'[b][o].edits = accounts /\ UserStored(b, o)'
    <3>1. UserPlanSaved(t, o, profile, accounts)
      BY <1>5 DEF UserPlanSaved
    <3> QED BY <1>1, <3>1, UserPlanKept
  <2>4. page' = [page EXCEPT ![t] = q]
    BY <1>5, <2>1
  <2> QED BY <1>2, <2>2, <2>3, <2>4, PageKept
<1>6. CASE /\ DataMode(t) = "cloud" /\ saveLocalProfile(b, o, profile, saved.profile)
           /\ page' = [page EXCEPT ![t] = [edited EXCEPT !.localPersistenceAvailable = TRUE]]
           /\ UNCHANGED localAccounts
  <2>1. PICK q : q = [edited EXCEPT !.localPersistenceAvailable = TRUE]
    OBVIOUS
  <2>2. q.profile = profile /\ q.accounts = accounts /\ q.authUser = o
    BY <1>3, <2>1 DEF Page
  <2>3. UserStored(b, o) /\ accounts = localAccounts[b][o].edits
    BY <1>2, <1>6 DEF DataMode, Kept
  <2>4. saved.profile = TRUE
    BY DEF Writes, WorkingStorage
  <2>5. PICK item : item = [state |-> "stored", edits |-> profile]
    OBVIOUS
  <2>6. localProfile' = [localProfile EXCEPT ![b][o] = item]
    BY <1>6, <2>4, <2>5 DEF saveLocalProfile
  <2>7. /\ \A c \in Browsers, x \in Owners : localProfile'[c][x] =
             IF c = b /\ x = o THEN item ELSE localProfile[c][x]
        /\ \A c \in Browsers : c # b => localProfile'[c] = localProfile[c]
    BY <2>6 DEF TypeOK
  <2>8. /\ \A c \in Browsers, x \in Owners : UserStored(c, x)' <=> UserStored(c, x)
        /\ \A c \in Browsers, x \in Owners :
             ~UserStored(c, x) => localProfile'[c][x].edits = {} /\ localAccounts'[c][x].edits = {}
    BY <1>6, <2>3, <2>5, <2>7 DEF KeptInv, BothOrNone, UserStored
  <2>9. StoresKeep(t)
    BY <1>6, <2>7, <2>8 DEF StoresKeep, BothOrNone
  <2>10. /\ localProfile'[b][o].edits = profile /\ UserStored(b, o)'
         /\ localAccounts'[b][o].edits = accounts
    BY <1>1, <1>6, <2>3, <2>5, <2>7, <2>8
  <2>11. page' = [page EXCEPT ![t] = q]
    BY <1>6, <2>1
  <2> QED BY <1>2, <2>2, <2>9, <2>10, <2>11, PageKept
<1> QED BY <1>4, <1>5, <1>6

LEMMA LocalAccountOpKept ==
  ASSUME WorkingStorage, OneTabEach, TypeOK, KeptInv, NEW t \in Tabs, NEW e \in Edits,
         LocalAccountOp(t, e)
  PROVE  KeptInv'
<1> PICK o, profile, accounts :
      o = page[t].authUser /\ profile = page[t].profile /\ accounts = page[t].accounts \cup {e}
  OBVIOUS
<1>1. page[t] \in Page /\ o \in Owners /\ accountOps' = accountOps
  BY DEF TypeOK, Page, LocalAccountOp
<1>2. PICK saved \in Writes :
        /\ saveLocalPlan(BrowserOf[t], o, profile, accounts, "user", saved)
        /\ page' = [page EXCEPT ![t] =
             [page[t] EXCEPT !.accounts = accounts, !.localPlanOrigin = "user",
                             !.localPersistenceAvailable = BothSaved(saved)]]
  BY DEF LocalAccountOp
<1>3. PICK q : q = [page[t] EXCEPT !.accounts = accounts, !.localPlanOrigin = "user",
                                   !.localPersistenceAvailable = BothSaved(saved)]
  OBVIOUS
<1>4. q.profile = profile /\ q.accounts = accounts /\ q.authUser = o
  BY <1>1, <1>3 DEF Page
<1>5. /\ StoresKeep(t) /\ localProfile'[BrowserOf[t]][o].edits = profile
      /\ localAccounts'[BrowserOf[t]][o].edits = accounts /\ UserStored(BrowserOf[t], o)'
  <2>1. UserPlanSaved(t, o, profile, accounts)
    BY <1>2 DEF UserPlanSaved
  <2> QED BY <1>1, <2>1, UserPlanKept
<1>6. page' = [page EXCEPT ![t] = q]
  BY <1>2, <1>3
<1> QED BY <1>1, <1>4, <1>5, <1>6, PageKept

(* Turning sync off copies the plan on screen; its writes cannot fail here. *)
LEMMA SyncKept ==
  ASSUME WorkingStorage, OneTabEach, TypeOK, KeptInv, NEW t \in Tabs, NEW enabled \in BOOLEAN,
         setCloudSyncEnabled(t, enabled)
  PROVE  KeptInv'
<1> PICK o, ready, profile, accounts :
      /\ o = page[t].authUser /\ ready = page[t].cloudAccountReady
      /\ profile = page[t].profile /\ accounts = page[t].accounts
  OBVIOUS
<1> DEFINE started == Started(t, o, ready)
<1>1. o \in Owners /\ ready \in BOOLEAN /\ accountOps' = accountOps
  BY DEF TypeOK, Page, setCloudSyncEnabled
<1>2. /\ started \in Page /\ ~started.bootstrapped /\ ~started.cloudAvailable
      /\ started.authUser = o /\ started.profile = profile
      /\ started.accounts = accounts
  BY <1>1, StartsKept
<1> HIDE DEF started
<1>3. CASE SyncOn(t)
  <2>1. PICK p : p = [started EXCEPT !.cloudSyncEnabled = TRUE]
    OBVIOUS
  <2>2. p \in Page /\ ~p.bootstrapped /\ ~p.cloudAvailable
    BY <1>2, <2>1 DEF Page
  <2>3. Bootstrap(t, p)
    BY <1>3, <2>1 DEF SyncOn, started
  <2> QED BY <1>1, <2>2, <2>3, BootstrapKept
<1>4. CASE SyncOff(t)
  <2>1. PICK saved \in Writes, savedAgain \in Writes :
          /\ saveLocalPlan(BrowserOf[t], o, profile, accounts, "user", saved)
          /\ BothSaved(saved) =>
               page' = [page EXCEPT ![t] =
                 [LocalSession(started) EXCEPT !.cloudSyncEnabled = FALSE,
                    !.localPlanOrigin = "user",
                    !.localPersistenceAvailable = BothSaved(savedAgain)]]
    BY <1>4 DEF SyncOff, started
  <2>2. PICK q : q = [LocalSession(started) EXCEPT !.cloudSyncEnabled = FALSE,
                        !.localPlanOrigin = "user",
                        !.localPersistenceAvailable = BothSaved(savedAgain)]
    OBVIOUS
  <2>3. /\ LocalSession(started) \in Page /\ LocalSession(started).authUser = o
        /\ LocalSession(started).profile = profile
        /\ LocalSession(started).accounts = accounts
        /\ ~LocalSession(started).cloudAvailable
    BY <1>2, LocalSessionType DEF LocalSession, Page
  <2>4. /\ q.profile = profile /\ q.accounts = accounts /\ q.authUser = o
        /\ ~q.cloudAvailable
    BY <2>2, <2>3 DEF Page
  <2>5. /\ StoresKeep(t) /\ localProfile'[BrowserOf[t]][o].edits = profile
        /\ localAccounts'[BrowserOf[t]][o].edits = accounts
    <3>1. UserPlanSaved(t, o, profile, accounts)
      BY <2>1 DEF UserPlanSaved
    <3> QED BY <1>1, <3>1, UserPlanKept
  <2>6. page' = [page EXCEPT ![t] = q]
    BY <2>1, <2>2, WritesSucceed
  <2> QED BY <1>1, <2>4, <2>5, <2>6, PageKept
<1> QED BY <1>3, <1>4 DEF setCloudSyncEnabled

LEMMA CloudAccountOpKept ==
  ASSUME TypeOK, KeptInv, NEW t \in Tabs, NEW e \in Edits, CloudAccountOp(t, e)
  PROVE  KeptInv'
<1> DEFINE new == [tab |-> t, owner |-> page[t].authUser, edit |-> e, phase |-> "sent",
                   accounts |-> {}]
<1>1. /\ accountOps' = accountOps \cup {new} /\ page[t].cloudAvailable
      /\ UNCHANGED <<page, localProfile, localAccounts>>
  BY DEF CloudAccountOp, DataMode, localVars
<1>2. OpStored(new)
  BY <1>1 DEF KeptInv, Kept, OpStored
<1>3. \A op \in accountOps' : OpStored(op)
  BY <1>1, <1>2 DEF KeptInv
<1> QED BY <1>1, <1>3, FrameKept

LEMMA ReloadKept ==
  ASSUME OneTabEach, TypeOK, KeptInv, NEW t \in Tabs, Reload(t)
  PROVE  KeptInv'
<1>1. PICK q : q = FreshPage(prefs[BrowserOf[t]], page[t].generation)
  OBVIOUS
<1>2. ~q.bootstrapped /\ ~q.cloudAvailable
  BY <1>1 DEF FreshPage
<1>3. /\ page'[t] = q /\ \A x \in Tabs : x # t => page'[x] = page[x]
      /\ UNCHANGED <<localProfile, localAccounts>> /\ accountOps' \subseteq accountOps
  BY <1>1 DEF Reload, TypeOK, localVars
<1>4. Kept(t)'
  BY <1>2, <1>3 DEF Kept
<1> QED BY <1>3, <1>4, NothingStored, OpsKept, TabKeeps

LEMMA UserStepKept ==
  ASSUME WorkingStorage, OneTabEach, TypeOK, KeptInv, NEW t \in Tabs, UserStep(t)
  PROVE  KeptInv'
<1>1. CASE \E u \in Owners : AuthStateChanged(t, u)
  BY <1>1, FrameKept DEF AuthStateChanged, localVars, KeptInv
<1>2. CASE RetryCloud(t)
  <2>1. page[t].authUser \in Owners /\ TRUE \in BOOLEAN /\ accountOps' = accountOps
    BY <1>2 DEF TypeOK, Page, RetryCloud
  <2>2. Bootstrap(t, Started(t, page[t].authUser, TRUE))
    BY <1>2 DEF RetryCloud
  <2> QED BY <2>1, <2>2, StartsKept, BootstrapKept
<1> QED BY <1>1, <1>2, UpdatePlanKept, LocalAccountOpKept, CloudAccountOpKept, SyncKept,
           ReloadKept DEF UserStep

LEMMA SettledKept ==
  ASSUME WorkingStorage, OneTabEach, TypeOK, KeptInv, NEW t \in Tabs, AuthSettled(t)
  PROVE  KeptInv'
<1>1. fbUser[t] \in Owners /\ accountOps' = accountOps
  BY DEF TypeOK, AuthSettled
<1>2. PICK ready \in BOOLEAN : Bootstrap(t, Started(t, fbUser[t], ready))
  BY DEF AuthSettled
<1> QED BY <1>1, <1>2, StartsKept, BootstrapKept

(* The flush and its replies change neither the plan shown nor its mode.     *)
LEMMA SaveStepKept ==
  ASSUME OneTabEach, TypeOK, KeptInv, NEW t \in Tabs, SaveStep(t)
  PROVE  KeptInv'
<1>1. page[t] \in Page /\ UNCHANGED <<localProfile, localAccounts, accountOps>>
  BY DEF TypeOK, SaveStep, flushProfileToDb, saveUserProfile, SaveLost, SaveReply, localVars
<1>2. \/ UNCHANGED page
      \/ \E q : /\ page' = [page EXCEPT ![t] = q]
                /\ q.profile = page[t].profile /\ q.accounts = page[t].accounts
                /\ q.authUser = page[t].authUser /\ q.bootstrapped = page[t].bootstrapped
                /\ q.cloudAvailable = page[t].cloudAvailable
  <2>1. CASE flushProfileToDb(t)
    <3>1. PICK q : q = [page[t] EXCEPT !.profileDirty = FALSE]
      OBVIOUS
    <3>2. page' = [page EXCEPT ![t] = q]
      BY <2>1, <3>1 DEF flushProfileToDb
    <3>3. /\ q.profile = page[t].profile /\ q.accounts = page[t].accounts
          /\ q.authUser = page[t].authUser /\ q.bootstrapped = page[t].bootstrapped
          /\ q.cloudAvailable = page[t].cloudAvailable
      BY <1>1, <3>1 DEF Page
    <3> QED BY <3>2, <3>3
  <2>2. CASE SaveReply(t) /\ ReplyIsCurrent(t)
    <3>1. PICK q : q = AfterReply(page[t], save[t])
      OBVIOUS
    <3>2. page' = [page EXCEPT ![t] = q] /\ save[t].status \in {"saved", "conflict", "failed"}
      BY <2>2, <3>1 DEF SaveReply
    <3>3. /\ q.profile = page[t].profile /\ q.accounts = page[t].accounts
          /\ q.authUser = page[t].authUser /\ q.bootstrapped = page[t].bootstrapped
          /\ q.cloudAvailable = page[t].cloudAvailable
      BY <1>1, <3>1, <3>2 DEF Page, AfterReply
    <3> QED BY <3>2, <3>3
  <2>3. CASE saveUserProfile(t) \/ SaveLost(t) \/ (SaveReply(t) /\ ~ReplyIsCurrent(t))
    BY <2>3 DEF saveUserProfile, SaveLost, SaveReply
  <2> QED BY <2>1, <2>2, <2>3 DEF SaveStep
<1>3. CASE UNCHANGED page
  BY <1>1, <1>3, FrameKept DEF KeptInv
<1>4. ASSUME NEW q, page' = [page EXCEPT ![t] = q],
             q.profile = page[t].profile, q.accounts = page[t].accounts,
             q.authUser = page[t].authUser, q.bootstrapped = page[t].bootstrapped,
             q.cloudAvailable = page[t].cloudAvailable
      PROVE  KeptInv'
  <2>1. Kept(t) /\ StoresKeep(t)
    BY <1>1, NothingStored DEF KeptInv
  <2>2. /\ q.bootstrapped => /\ q.profile = localProfile'[BrowserOf[t]][q.authUser].edits
                             /\ q.accounts = localAccounts'[BrowserOf[t]][q.authUser].edits
        /\ q.cloudAvailable => UserStored(BrowserOf[t], q.authUser)'
    BY <1>1, <1>4, <2>1 DEF Kept, UserStored
  <2> QED BY <1>1, <1>4, <2>1, <2>2, PageKept
<1> QED BY <1>2, <1>3, <1>4

LEMMA BootStepKept ==
  ASSUME WorkingStorage, OneTabEach, TypeOK, KeptInv, NEW bt \in boots, BootStep(bt)
  PROVE  KeptInv'
<1> DEFINE t == bt.tab
<1>1. t \in Tabs /\ page[t] \in Page /\ accountOps' = accountOps
  BY DEF TypeOK, Boot, BootStep, GetProfile, GetAccounts, ReadFails, BootstrapResume
<1>2. CASE GetProfile(bt) \/ GetAccounts(bt) \/ ReadFails(bt)
  BY <1>1, <1>2, FrameKept DEF GetProfile, GetAccounts, ReadFails, localVars, KeptInv
<1>3. CASE BootstrapResume(bt) /\ UNCHANGED <<page, localVars>>
  BY <1>1, <1>3, FrameKept DEF localVars, KeptInv
<1>4. CASE FinishCloud(t, page[t], bt.row, bt.accounts)
  <2>1. PICK o \in Owners : o = page[t].authUser
    BY <1>1 DEF Page
  <2>2. PICK saved \in Writes :
          saveLocalPlan(BrowserOf[t], o, bt.row.edits, bt.accounts, "user", saved)
    BY <1>4, <2>1 DEF FinishCloud
  <2>3. PICK q : q = [page[t] EXCEPT !.profile = bt.row.edits, !.accounts = bt.accounts,
                        !.cloudAvailable = TRUE, !.profileRevision = bt.row.rev,
                        !.localPlanOrigin = "user", !.localPersistenceAvailable = TRUE,
                        !.bootstrapped = TRUE, !.profileDirty = @ \/ bt.row.schema = "older"]
    OBVIOUS
  <2>4. q.profile = bt.row.edits /\ q.accounts = bt.accounts /\ q.authUser = o
    BY <1>1, <2>1, <2>3 DEF Page
  <2>5. page' = [page EXCEPT ![t] = q]
    BY <1>4, <2>3 DEF FinishCloud
  <2>6. /\ StoresKeep(t) /\ UserStored(BrowserOf[t], o)'
        /\ localProfile'[BrowserOf[t]][o].edits = bt.row.edits
        /\ localAccounts'[BrowserOf[t]][o].edits = bt.accounts
    <3> PICK profile, accounts : profile = bt.row.edits /\ accounts = bt.accounts
      OBVIOUS
    <3>1. UserPlanSaved(t, o, profile, accounts)
      BY <2>2 DEF UserPlanSaved
    <3> HIDE DEF t
    <3>2. /\ StoresKeep(t) /\ UserStored(BrowserOf[t], o)'
          /\ localProfile'[BrowserOf[t]][o].edits = profile
          /\ localAccounts'[BrowserOf[t]][o].edits = accounts
      BY <1>1, <3>1, UserPlanKept
    <3> QED BY <3>2
  <2> QED BY <1>1, <2>4, <2>5, <2>6, PageKept
<1>5. CASE FinishLocal(t, page[t])
  BY <1>1, <1>5, FinishLocalKept
<1> QED BY <1>2, <1>3, <1>4, <1>5 DEF BootStep, BootstrapResume

-----------------------------------------------------------------------------
(* The steps of an account request *)

LEMMA AccountsReplyKept ==
  ASSUME WorkingStorage, OneTabEach, TypeOK, KeptInv, NEW op \in accountOps, AccountsReply(op)
  PROVE  KeptInv'
<1> DEFINE t == op.tab
           b == BrowserOf[t]
<1>1. /\ t \in Tabs /\ page[t] \in Page /\ op.owner \in Owners /\ b \in Browsers
      /\ accountOps' \subseteq accountOps /\ UNCHANGED localProfile
  BY BrowserAssumption DEF TypeOK, AccountOp, Owners, AccountsReply
<1>2. OpStored(op) /\ Kept(t)
  BY <1>1 DEF KeptInv
<1>3. CASE page[t].authUser = op.owner
  <2>1. PICK ok \in StorageOutcomes : saveLocalAccounts(b, op.owner, op.accounts, "user", ok)
    BY <1>3 DEF AccountsReply
  <2>2. PICK item : item = [state |-> "stored", edits |-> op.accounts, origin |-> "user"]
    OBVIOUS
  <2>3. localAccounts' = [localAccounts EXCEPT ![b][op.owner] = item]
    BY <2>1, <2>2 DEF saveLocalAccounts, WorkingStorage
  <2>4. /\ \A c \in Browsers, o \in Owners : localAccounts'[c][o] =
             IF c = b /\ o = op.owner THEN item ELSE localAccounts[c][o]
        /\ \A c \in Browsers : c # b => localAccounts'[c] = localAccounts[c]
    BY <2>3 DEF TypeOK
  <2>5. UserStored(b, op.owner)
    BY <1>2 DEF OpStored
  <2>6. /\ \A c \in Browsers, o \in Owners : UserStored(c, o)' <=> UserStored(c, o)
        /\ \A c \in Browsers, o \in Owners :
             ~UserStored(c, o) => localProfile'[c][o].edits = {} /\ localAccounts'[c][o].edits = {}
    BY <1>1, <2>2, <2>4, <2>5 DEF KeptInv, BothOrNone, UserStored
  <2>7. StoresKeep(t)
    BY <1>1, <2>4, <2>6 DEF StoresKeep, BothOrNone
  <2>8. PICK q : q = [page[t] EXCEPT !.accounts = op.accounts, !.localPlanOrigin = "user",
                                     !.localPersistenceAvailable = TRUE]
    OBVIOUS
  <2>9. page' = [page EXCEPT ![t] = q]
    BY <1>3, <2>8 DEF AccountsReply
  <2>10. /\ q.profile = page[t].profile /\ q.accounts = op.accounts /\ q.authUser = op.owner
         /\ q.bootstrapped = page[t].bootstrapped
    BY <1>1, <1>3, <2>8 DEF Page
  <2>11. page'[t] = q /\ \A x \in Tabs : x # t => page'[x] = page[x]
    BY <1>1, <2>9 DEF TypeOK
  <2>12. localAccounts'[b][op.owner].edits = op.accounts /\ UserStored(b, op.owner)'
    BY <1>1, <2>2, <2>4, <2>5, <2>6
  <2>13. q.bootstrapped => q.profile = localProfile'[b][op.owner].edits
    BY <1>1, <1>2, <1>3, <2>10 DEF Kept
  <2>14. Kept(t)'
    BY <2>10, <2>11, <2>12, <2>13 DEF Kept, UserStored
  <2> QED BY <1>1, <2>7, <2>11, <2>14, OpsKept, TabKeeps
<1>4. CASE page[t].authUser # op.owner
  <2>1. UNCHANGED <<page, localAccounts>>
    BY <1>4 DEF AccountsReply
  <2> QED BY <1>1, <2>1, FrameKept DEF KeptInv
<1> QED BY <1>3, <1>4

LEMMA OpStepKept ==
  ASSUME WorkingStorage, OneTabEach, TypeOK, KeptInv, NEW op \in accountOps, AccountOpStep(op)
  PROVE  KeptInv'
<1>1. op \in AccountOp /\ OpStored(op)
  BY DEF TypeOK, KeptInv
<1>2. CASE AccountsReply(op)
  BY <1>2, AccountsReplyKept
<1>3. CASE ApplyAccountOp(op) \/ AccountOpReply(op) \/ ReadAccountsAgain(op) \/ AccountOpLost(op)
  <2>1. UNCHANGED <<page, localProfile, localAccounts>>
    BY <1>3 DEF ApplyAccountOp, AccountOpReply, ReadAccountsAgain, AccountOpLost, localVars
  <2>2. \/ accountOps' \subseteq accountOps
        \/ \E new : /\ accountOps' = Replace(accountOps, op, new)
                    /\ new.tab = op.tab /\ new.owner = op.owner
    <3>1. PICK applied, reading, read :
            /\ applied = [op EXCEPT !.phase = "applied"]
            /\ reading = [op EXCEPT !.phase = "reading"]
            /\ read = [op EXCEPT !.phase = "read", !.accounts = cloudAccounts[op.owner]]
      OBVIOUS
    <3>2. /\ applied.tab = op.tab /\ applied.owner = op.owner
          /\ reading.tab = op.tab /\ reading.owner = op.owner
          /\ read.tab = op.tab /\ read.owner = op.owner
      BY <1>1, <3>1 DEF AccountOp
    <3>3. \/ accountOps' \subseteq accountOps
          \/ accountOps' = Replace(accountOps, op, applied)
          \/ accountOps' = Replace(accountOps, op, reading)
          \/ accountOps' = Replace(accountOps, op, read)
      BY <1>3, <3>1 DEF ApplyAccountOp, AccountOpReply, ReadAccountsAgain, AccountOpLost
    <3> QED BY <3>2, <3>3
  <2>3. \A x \in accountOps' : OpStored(x)
    BY <1>1, <2>2 DEF KeptInv, OpStored, Replace
  <2> QED BY <2>1, <2>3, FrameKept
<1> QED BY <1>2, <1>3 DEF AccountOpStep

LEMMA StepKept ==
  ASSUME WorkingStorage, OneTabEach, TypeOK, KeptInv, [Next]_vars
  PROVE  KeptInv'
<1>1. CASE (\E r \in orphanSaves : OrphanSave(r)) \/ (\E r \in orphanOps : OrphanOp(r))
           \/ UNCHANGED vars
  <2>1. UNCHANGED <<page, localProfile, localAccounts, accountOps>>
    BY <1>1 DEF OrphanSave, OrphanOp, vars, localVars
  <2> QED BY <2>1, FrameKept DEF KeptInv
<1> QED BY <1>1, UserStepKept, SettledKept, SaveStepKept, BootStepKept, OpStepKept DEF Next

(* When the browser's storage works and holds the plans of one tab, a plan   *)
(* shown in local mode with no warning is what the next bootstrap loads.    *)
(* Both premises are needed: a second tab writes the same items, and        *)
(* runAccountOperation clears the warning when its write fails.             *)
THEOREM LocalPlanIsDurable ==
  ASSUME WorkingStorage, OneTabEach PROVE Spec => []LocalDurable
<1>1. Init => KeptInv
  BY InitKept
<1>2. TypeOK /\ KeptInv /\ [Next]_vars => KeptInv'
  BY StepKept
<1>3. TypeOK /\ KeptInv => LocalDurable
  BY KeptIsDurable
<1> QED BY <1>1, <1>2, <1>3, TypeCorrect, PTL DEF Spec

=============================================================================
