--------------------------- MODULE PlanSyncProofs ---------------------------
(* Theorems about PlanSync, for every set of tabs, users and edits and every *)
(* value of the bounds: types, and the safety of the revision protocol.     *)
EXTENDS PlanSync, TLAPS

-----------------------------------------------------------------------------
(* Type correctness *)

(* The record updates of the store stay within its type. *)
LEMMA StartedType ==
  ASSUME TypeOK, NEW t \in Tabs, NEW u \in Owners, NEW ready \in BOOLEAN
  PROVE  /\ Started(t, u, ready) \in Page
         /\ [Started(t, u, ready) EXCEPT !.cloudSyncEnabled = TRUE] \in Page
<1>1. page[t] \in Page
  BY DEF TypeOK
<1>2. page[t].generation + 1 \in Nat
  BY <1>1 DEF Page
<1>3. Started(t, u, ready) \in Page
  BY <1>1, <1>2 DEF Page, Started
<1> QED BY <1>3 DEF Page

LEMMA LocalSessionType ==
  ASSUME NEW p \in Page PROVE LocalSession(p) \in Page
  BY DEF Page, LocalSession, Revisions, NoRevision

LEMMA HydratedType ==
  ASSUME TypeOK, NEW b \in Browsers, NEW o \in Owners
  PROVE  /\ hydratedProfile(b, o) \in SUBSET Edits
         /\ hydratedAccounts(b, o) \in SUBSET Edits
         /\ storedOrigin(b, o) \in {"starter", "user"}
  BY DEF TypeOK, hydratedProfile, hydratedAccounts, storedOrigin, IsStarter,
         StoredProfile, StoredAccounts

LEMMA SaveLocalPlanType ==
  ASSUME TypeOK, NEW b \in Browsers, NEW o \in Owners,
         NEW profile \in SUBSET Edits, NEW accounts \in SUBSET Edits,
         NEW origin \in {"starter", "user"}, NEW saved \in Writes,
         saveLocalPlan(b, o, profile, accounts, origin, saved)
  PROVE  /\ localProfile' \in [Browsers -> [Owners -> StoredProfile]]
         /\ localAccounts' \in [Browsers -> [Owners -> StoredAccounts]]
         /\ BothSaved(saved) \in BOOLEAN
<1>1. [state |-> "stored", edits |-> profile] \in StoredProfile
  BY DEF StoredProfile
<1>2. [state |-> "stored", edits |-> accounts, origin |-> origin] \in StoredAccounts
  BY DEF StoredAccounts
<1>3. localProfile' \in [Browsers -> [Owners -> StoredProfile]]
  BY <1>1 DEF TypeOK, saveLocalPlan, saveLocalProfile
<1>4. localAccounts' \in [Browsers -> [Owners -> StoredAccounts]]
  BY <1>2 DEF TypeOK, saveLocalPlan, saveLocalAccounts
<1>5. BothSaved(saved) \in BOOLEAN
  BY InitialAssumption DEF BothSaved, Writes
<1> QED BY <1>3, <1>4, <1>5

LEMMA FinishLocalType ==
  ASSUME TypeOK, NEW t \in Tabs, NEW p \in Page, FinishLocal(t, p)
  PROVE  /\ page' \in [Tabs -> Page]
         /\ localProfile' \in [Browsers -> [Owners -> StoredProfile]]
         /\ localAccounts' \in [Browsers -> [Owners -> StoredAccounts]]
<1> DEFINE b == BrowserOf[t]
           o == p.authUser
<1>1. b \in Browsers /\ o \in Owners
  BY BrowserAssumption DEF Page
<1>2. LocalSession(p) \in Page
  BY LocalSessionType
<1>3. CASE LocalLoadFails(b, o)
  <2>1. [LocalSession(p) EXCEPT !.profile = {}, !.accounts = {},
           !.localPlanOrigin = "starter", !.localPersistenceAvailable = TRUE] \in Page
    BY <1>2 DEF Page
  <2>2. page' \in [Tabs -> Page] /\ UNCHANGED localVars
    BY <1>3, <2>1 DEF FinishLocal, TypeOK
  <2> QED BY <2>2 DEF TypeOK, localVars
<1>4. CASE ~LocalLoadFails(b, o)
  <2>1. PICK saved \in Writes :
          /\ saveLocalPlan(b, o, hydratedProfile(b, o), hydratedAccounts(b, o),
                           storedOrigin(b, o), saved)
          /\ page' = [page EXCEPT ![t] =
               [LocalSession(p) EXCEPT !.profile = hydratedProfile(b, o),
                  !.accounts = hydratedAccounts(b, o),
                  !.localPlanOrigin = storedOrigin(b, o),
                  !.localPersistenceAvailable = BothSaved(saved)]]
    BY <1>4 DEF FinishLocal
  <2>2. /\ hydratedProfile(b, o) \in SUBSET Edits
        /\ hydratedAccounts(b, o) \in SUBSET Edits
        /\ storedOrigin(b, o) \in {"starter", "user"}
    BY <1>1, HydratedType
  <2>3. /\ localProfile' \in [Browsers -> [Owners -> StoredProfile]]
        /\ localAccounts' \in [Browsers -> [Owners -> StoredAccounts]]
        /\ BothSaved(saved) \in BOOLEAN
    BY <1>1, <2>1, <2>2, SaveLocalPlanType
  <2>4. [LocalSession(p) EXCEPT !.profile = hydratedProfile(b, o),
           !.accounts = hydratedAccounts(b, o),
           !.localPlanOrigin = storedOrigin(b, o),
           !.localPersistenceAvailable = BothSaved(saved)] \in Page
    BY <1>2, <2>2, <2>3 DEF Page
  <2> QED BY <2>1, <2>3, <2>4 DEF TypeOK
<1> QED BY <1>3, <1>4

LEMMA FinishCloudType ==
  ASSUME TypeOK, NEW t \in Tabs, NEW p \in Page, NEW row \in Row,
         NEW accounts \in SUBSET Edits, FinishCloud(t, p, row, accounts)
  PROVE  /\ page' \in [Tabs -> Page]
         /\ localProfile' \in [Browsers -> [Owners -> StoredProfile]]
         /\ localAccounts' \in [Browsers -> [Owners -> StoredAccounts]]
<1>1. BrowserOf[t] \in Browsers /\ p.authUser \in Owners
  BY BrowserAssumption DEF Page
<1>2. row.edits \in SUBSET Edits /\ row.rev \in Revisions
  BY DEF Row
<1>3. PICK saved \in Writes :
        saveLocalPlan(BrowserOf[t], p.authUser, row.edits, accounts, "user", saved)
  BY DEF FinishCloud
<1>4. /\ localProfile' \in [Browsers -> [Owners -> StoredProfile]]
      /\ localAccounts' \in [Browsers -> [Owners -> StoredAccounts]]
  BY <1>1, <1>2, <1>3, SaveLocalPlanType
<1>5. (row.schema = "older") \in BOOLEAN
  OBVIOUS
<1>6. (p.profileDirty \/ row.schema = "older") \in BOOLEAN
  OBVIOUS
<1>7. [p EXCEPT !.profile = row.edits, !.accounts = accounts,
                !.cloudAvailable = TRUE, !.profileRevision = row.rev,
                !.localPlanOrigin = "user", !.localPersistenceAvailable = TRUE,
                !.bootstrapped = TRUE,
                !.profileDirty = @ \/ row.schema = "older"] \in Page
  BY <1>2, <1>6 DEF Page
<1> QED BY <1>4, <1>7 DEF FinishCloud, TypeOK

LEMMA BootstrapType ==
  ASSUME TypeOK, NEW t \in Tabs, NEW p \in Page, Bootstrap(t, p)
  PROVE  /\ page' \in [Tabs -> Page]
         /\ boots' \subseteq Boot
         /\ localProfile' \in [Browsers -> [Owners -> StoredProfile]]
         /\ localAccounts' \in [Browsers -> [Owners -> StoredAccounts]]
<1> DEFINE bt == [tab |-> t, generation |-> p.generation, owner |-> p.authUser,
                  profileRead |-> FALSE, row |-> AbsentRow,
                  accountsRead |-> FALSE, accounts |-> {}, failed |-> FALSE]
<1>1. CASE p.authUser # Anonymous /\ p.cloudAccountReady /\ p.cloudSyncEnabled
  <2>1. page' = [page EXCEPT ![t] = p] /\ boots' = boots \cup {bt} /\ UNCHANGED localVars
    BY <1>1 DEF Bootstrap
  <2>2. p.authUser \in Users /\ p.generation \in Nat
    BY <1>1 DEF Page, Owners
  <2>3. AbsentRow \in Row
    BY DEF AbsentRow, Row, Revisions
  <2>4. bt \in Boot
    BY <2>2, <2>3 DEF Boot
  <2> QED BY <2>1, <2>4 DEF TypeOK, localVars
<1>2. CASE ~(p.authUser # Anonymous /\ p.cloudAccountReady /\ p.cloudSyncEnabled)
  <2>1. FinishLocal(t, p) /\ UNCHANGED boots
    BY <1>2 DEF Bootstrap
  <2> QED BY <2>1, FinishLocalType DEF TypeOK
<1> QED BY <1>1, <1>2

LEMMA FaultType ==
  ASSUME TypeOK, Fault \/ NoFault PROVE faults' \in Nat
<1>1. faults \in Nat
  BY DEF TypeOK
<1>2. faults' = faults + 1 \/ faults' = faults
  BY DEF Fault, NoFault
<1> QED BY <1>1, <1>2

LEMMA InitType == Init => TypeOK
<1> SUFFICES ASSUME Init PROVE TypeOK
  OBVIOUS
<1>1. FreshPage(TRUE, 0) \in Page
  BY DEF FreshPage, Page, Owners, Revisions
<1>2. NoSave \in Save
  BY DEF NoSave, Save, Owners, Revisions
<1>3. cloudProfile \in [Users -> Row]
  <2>1. \A s \in InitialSchemas :
          [edits |-> {}, schema |-> s,
           rev |-> IF s = "absent" THEN NoRevision ELSE 0] \in Row
    BY InitialAssumption DEF Row, Revisions
  <2> QED BY <2>1 DEF Init
<1>4. localProfile \in [Browsers -> [Owners -> StoredProfile]]
  <2>1. \A s \in InitialLocal : [state |-> s, edits |-> {}] \in StoredProfile
    BY InitialAssumption DEF StoredProfile
  <2> QED BY <2>1 DEF Init
<1>5. localAccounts \in [Browsers -> [Owners -> StoredAccounts]]
  <2>1. \A s \in InitialLocal :
          [state |-> s, edits |-> {}, origin |-> "user"] \in StoredAccounts
    BY InitialAssumption DEF StoredAccounts
  <2> QED BY <2>1 DEF Init
<1> QED BY <1>1, <1>2, <1>3, <1>4, <1>5 DEF Init, TypeOK

LEMMA ReplaceType ==
  ASSUME NEW T, NEW set \in SUBSET T, NEW old, NEW new \in T
  PROVE  Replace(set, old, new) \in SUBSET T
BY DEF Replace

(* One step of bootstrap or authentication. *)
LEMMA AuthStateChangedType ==
  ASSUME TypeOK, NEW t \in Tabs, NEW u \in Owners, AuthStateChanged(t, u)
  PROVE  TypeOK'
BY DEF TypeOK, AuthStateChanged, orphanVars, cloudVars, localVars

LEMMA AuthSettledType ==
  ASSUME TypeOK, NEW t \in Tabs, AuthSettled(t)
  PROVE  TypeOK'
<1> DEFINE p(ready) == Started(t, fbUser[t], ready)
<1>1. fbUser[t] \in Owners /\ (fbUser[t] # Anonymous) \in BOOLEAN
  BY DEF TypeOK
<1>2. \A ready \in BOOLEAN : p(ready) \in Page
  BY <1>1, StartedType
<1>3. PICK ready \in BOOLEAN : Bootstrap(t, p(ready))
  BY <1>1 DEF AuthSettled
<1>4. /\ page' \in [Tabs -> Page]
      /\ boots' \subseteq Boot
      /\ localProfile' \in [Browsers -> [Owners -> StoredProfile]]
      /\ localAccounts' \in [Browsers -> [Owners -> StoredAccounts]]
  BY <1>2, <1>3, BootstrapType
<1>5. faults' \in Nat
  BY FaultType DEF AuthSettled
<1> QED BY <1>4, <1>5 DEF TypeOK, AuthSettled, orphanVars, cloudVars

LEMMA RetryCloudType ==
  ASSUME TypeOK, NEW t \in Tabs, RetryCloud(t)
  PROVE  TypeOK'
<1>1. page[t].authUser \in Owners
  BY DEF TypeOK, Page
<1>2. Started(t, page[t].authUser, TRUE) \in Page
  BY <1>1, StartedType
<1>3. /\ page' \in [Tabs -> Page]
      /\ boots' \subseteq Boot
      /\ localProfile' \in [Browsers -> [Owners -> StoredProfile]]
      /\ localAccounts' \in [Browsers -> [Owners -> StoredAccounts]]
  BY <1>2, BootstrapType DEF RetryCloud
<1> QED BY <1>3 DEF TypeOK, RetryCloud, authVars, orphanVars, cloudVars

LEMMA BootStepType ==
  ASSUME TypeOK, NEW bt \in boots, BootStep(bt)
  PROVE  TypeOK'
<1>1. /\ bt \in Boot
      /\ cloudProfile[bt.owner] \in Row
      /\ cloudAccounts[bt.owner] \in SUBSET Edits
  BY DEF TypeOK, Boot
<1>2. CASE GetProfile(bt)
  <2>1. [bt EXCEPT !.profileRead = TRUE, !.row = cloudProfile[bt.owner]] \in Boot
    BY <1>1 DEF Boot
  <2>2. boots' \subseteq Boot
    BY <1>2, <2>1, ReplaceType DEF GetProfile, TypeOK
  <2> QED BY <1>2, <2>2 DEF GetProfile, TypeOK, authVars, orphanVars, cloudVars, localVars
<1>3. CASE GetAccounts(bt)
  <2>1. [bt EXCEPT !.accountsRead = TRUE, !.accounts = cloudAccounts[bt.owner]] \in Boot
    BY <1>1 DEF Boot
  <2>2. boots' \subseteq Boot
    BY <1>3, <2>1, ReplaceType DEF GetAccounts, TypeOK
  <2> QED BY <1>3, <2>2 DEF GetAccounts, TypeOK, authVars, orphanVars, cloudVars, localVars
<1>4. CASE ReadFails(bt)
  <2>1. [bt EXCEPT !.failed = TRUE] \in Boot
    BY <1>1 DEF Boot
  <2>2. boots' \subseteq Boot
    BY <1>4, <2>1, ReplaceType DEF ReadFails, TypeOK
  <2>3. faults' \in Nat
    BY <1>4, FaultType DEF ReadFails
  <2> QED BY <1>4, <2>2, <2>3 DEF ReadFails, TypeOK, authVars, orphanVars, cloudVars, localVars
<1>5. CASE BootstrapResume(bt)
  <2>1. bt.tab \in Tabs /\ page[bt.tab] \in Page /\ bt.row \in Row
        /\ bt.accounts \in SUBSET Edits
    BY <1>1 DEF TypeOK, Boot
  <2>2. /\ page' \in [Tabs -> Page]
        /\ localProfile' \in [Browsers -> [Owners -> StoredProfile]]
        /\ localAccounts' \in [Browsers -> [Owners -> StoredAccounts]]
    <3>1. CASE UNCHANGED <<page, localVars>>
      BY <3>1 DEF TypeOK, localVars
    <3>2. CASE FinishCloud(bt.tab, page[bt.tab], bt.row, bt.accounts)
      BY <2>1, <3>2, FinishCloudType
    <3>3. CASE FinishLocal(bt.tab, page[bt.tab])
      BY <2>1, <3>3, FinishLocalType
    <3> QED BY <1>5, <3>1, <3>2, <3>3 DEF BootstrapResume
  <2> QED BY <1>5, <2>2 DEF BootstrapResume, TypeOK, authVars, orphanVars, cloudVars
<1> QED BY <1>2, <1>3, <1>4, <1>5 DEF BootStep

(* One step of an edit, a flush or its reply. *)
LEMMA UpdatePlanType ==
  ASSUME TypeOK, NEW t \in Tabs, NEW e \in Edits, updatePlan(t, e)
  PROVE  TypeOK'
<1> DEFINE o == page[t].authUser
           b == BrowserOf[t]
           profile == page[t].profile \cup {e}
           edited == [page[t] EXCEPT !.profile = profile, !.profileDirty = TRUE]
<1>1. page[t] \in Page /\ b \in Browsers /\ o \in Owners /\ profile \in SUBSET Edits
      /\ page[t].accounts \in SUBSET Edits
  BY BrowserAssumption DEF TypeOK, Page
<1>2. edited \in Page
  BY <1>1 DEF Page
<1>3. issued' \in [Edits -> {"none", "local", "cloud"}]
  BY DEF updatePlan, TypeOK, DataMode
<1>4. /\ page' \in [Tabs -> Page]
      /\ localProfile' \in [Browsers -> [Owners -> StoredProfile]]
      /\ localAccounts' \in [Browsers -> [Owners -> StoredAccounts]]
  <2>1. PICK saved \in Writes :
           \/ /\ saveLocalPlan(b, o, profile, page[t].accounts, "user", saved)
              /\ page' = [page EXCEPT ![t] =
                   [edited EXCEPT !.localPlanOrigin = "user",
                                  !.localPersistenceAvailable = BothSaved(saved)]]
           \/ /\ saveLocalProfile(b, o, profile, saved.profile)
              /\ page' = [page EXCEPT ![t] =
                   [edited EXCEPT !.localPersistenceAvailable = TRUE]]
              /\ UNCHANGED localAccounts
    BY DEF updatePlan
  <2>2. CASE /\ saveLocalPlan(b, o, profile, page[t].accounts, "user", saved)
             /\ page' = [page EXCEPT ![t] =
                   [edited EXCEPT !.localPlanOrigin = "user",
                                  !.localPersistenceAvailable = BothSaved(saved)]]
    <3>1. /\ localProfile' \in [Browsers -> [Owners -> StoredProfile]]
          /\ localAccounts' \in [Browsers -> [Owners -> StoredAccounts]]
          /\ BothSaved(saved) \in BOOLEAN
      BY <1>1, <2>2, SaveLocalPlanType
    <3>2. [edited EXCEPT !.localPlanOrigin = "user",
             !.localPersistenceAvailable = BothSaved(saved)] \in Page
      BY <1>2, <3>1 DEF Page
    <3> QED BY <2>2, <3>1, <3>2 DEF TypeOK
  <2>3. CASE /\ saveLocalProfile(b, o, profile, saved.profile)
             /\ page' = [page EXCEPT ![t] =
                   [edited EXCEPT !.localPersistenceAvailable = TRUE]]
             /\ UNCHANGED localAccounts
    <3>1. [edited EXCEPT !.localPersistenceAvailable = TRUE] \in Page
      BY <1>2 DEF Page
    <3>2. [state |-> "stored", edits |-> profile] \in StoredProfile
      BY <1>1 DEF StoredProfile
    <3> QED BY <1>1, <2>3, <3>1, <3>2 DEF TypeOK, saveLocalProfile
  <2> QED BY <2>1, <2>2, <2>3
<1> QED BY <1>3, <1>4 DEF updatePlan, TypeOK, authVars, orphanVars, cloudVars

LEMMA CloudRowType ==
  ASSUME TypeOK, NEW u \in Owners, NEW profile \in SUBSET Edits
  PROVE  [cloudProfile EXCEPT ![u] = SavedRow(@, profile)] \in [Users -> Row]
<1>1. CASE u \in Users
  <2>1. cloudProfile[u] \in Row
    BY <1>1 DEF TypeOK
  <2>2. cloudProfile[u].rev + 1 \in Revisions
    BY <2>1 DEF Row, Revisions, NoRevision
  <2>3. SavedRow(cloudProfile[u], profile) \in Row
    BY <2>2 DEF SavedRow, Row
  <2> QED BY <1>1, <2>3 DEF TypeOK
<1>2. CASE u \notin Users
  BY <1>2 DEF TypeOK
<1> QED BY <1>1, <1>2

LEMMA SaveStepType ==
  ASSUME TypeOK, NEW t \in Tabs, SaveStep(t)
  PROVE  TypeOK'
<1> DEFINE s == save[t]
<1>1. s \in Save /\ page[t] \in Page
  BY DEF TypeOK
<1>2. /\ s.owner \in Owners /\ s.profile \in SUBSET Edits
      /\ s.expected \in Revisions /\ s.revision \in Revisions
  BY <1>1 DEF Save
<1>3. s.expected + 1 \in Revisions
  BY <1>2 DEF Revisions, NoRevision
<1>4. CASE flushProfileToDb(t)
  <2>1. [page[t] EXCEPT !.profileDirty = FALSE] \in Page
    BY <1>1 DEF Page
  <2>2. [status |-> "sent", owner |-> page[t].authUser,
         generation |-> page[t].generation, profile |-> page[t].profile,
         expected |-> page[t].profileRevision, revision |-> NoRevision] \in Save
    BY <1>1 DEF Page, Save, Revisions
  <2>3. page' \in [Tabs -> Page] /\ save' \in [Tabs -> Save]
    BY <1>4, <2>1, <2>2 DEF flushProfileToDb, TypeOK
  <2> QED BY <1>4, <2>3 DEF flushProfileToDb, TypeOK, authVars, orphanVars,
                            cloudVars, localVars
<1>5. CASE saveUserProfile(t)
  <2>1. save' \in [Tabs -> Save]
    <3>1. [s EXCEPT !.status = "saved", !.revision = s.expected + 1] \in Save
      BY <1>1, <1>3 DEF Save
    <3>2. [s EXCEPT !.status = "conflict"] \in Save
      BY <1>1 DEF Save
    <3> QED BY <1>5, <3>1, <3>2 DEF saveUserProfile, TypeOK
  <2>2. cloudProfile' \in [Users -> Row]
    <3>1. \/ cloudProfile' = [cloudProfile EXCEPT ![s.owner] = SavedRow(@, s.profile)]
          \/ cloudProfile' = cloudProfile
      BY <1>5 DEF saveUserProfile
    <3>2. [cloudProfile EXCEPT ![s.owner] = SavedRow(@, s.profile)] \in [Users -> Row]
      BY <1>2, CloudRowType
    <3> QED BY <3>1, <3>2 DEF TypeOK
  <2> QED BY <1>5, <2>1, <2>2 DEF saveUserProfile, TypeOK, authVars, orphanVars, localVars
<1>6. CASE SaveLost(t)
  <2>1. [s EXCEPT !.status = "failed"] \in Save
    BY <1>1 DEF Save
  <2>2. Orphan(s) \in [owner : Owners, profile : SUBSET Edits, expected : Revisions]
    BY <1>2 DEF Orphan
  <2>3. save' \in [Tabs -> Save]
    BY <1>6, <2>1 DEF SaveLost, TypeOK
  <2>4. orphanSaves' \subseteq [owner : Owners, profile : SUBSET Edits, expected : Revisions]
    BY <1>6, <2>2 DEF SaveLost, TypeOK
  <2>5. faults' \in Nat
    BY <1>6, FaultType DEF SaveLost
  <2> QED BY <1>6, <2>3, <2>4, <2>5 DEF SaveLost, TypeOK, authVars, cloudVars, localVars
<1>7. CASE SaveReply(t)
  <2>1. NoSave \in Save
    BY DEF NoSave, Save, Owners, Revisions
  <2>2. s.status \in {"saved", "conflict", "failed"} => AfterReply(page[t], s) \in Page
    BY <1>1, <1>2 DEF AfterReply, Page
  <2>3. save' \in [Tabs -> Save] /\ page' \in [Tabs -> Page]
    BY <1>7, <2>1, <2>2 DEF SaveReply, TypeOK
  <2> QED BY <1>7, <2>3 DEF SaveReply, TypeOK, authVars, orphanVars, cloudVars, localVars
<1> QED BY <1>4, <1>5, <1>6, <1>7 DEF SaveStep

LEMMA OrphanSaveType ==
  ASSUME TypeOK, NEW r \in orphanSaves, OrphanSave(r)
  PROVE  TypeOK'
<1>1. r.owner \in Owners /\ r.profile \in SUBSET Edits
  BY DEF TypeOK
<1>2. cloudProfile' \in [Users -> Row]
  BY <1>1, CloudRowType DEF OrphanSave, TypeOK
<1> QED BY <1>2 DEF OrphanSave, TypeOK, authVars, localVars

(* One step of an account operation. *)
LEMMA LocalAccountOpType ==
  ASSUME TypeOK, NEW t \in Tabs, NEW e \in Edits, LocalAccountOp(t, e)
  PROVE  TypeOK'
<1> DEFINE o == page[t].authUser
           b == BrowserOf[t]
           accounts == page[t].accounts \cup {e}
<1>1. page[t] \in Page /\ b \in Browsers /\ o \in Owners /\ accounts \in SUBSET Edits
      /\ page[t].profile \in SUBSET Edits
  BY BrowserAssumption DEF TypeOK, Page
<1>2. PICK saved \in Writes :
        /\ saveLocalPlan(b, o, page[t].profile, accounts, "user", saved)
        /\ page' = [page EXCEPT ![t] =
             [@ EXCEPT !.accounts = accounts, !.localPlanOrigin = "user",
                       !.localPersistenceAvailable = BothSaved(saved)]]
  BY DEF LocalAccountOp
<1>3. /\ localProfile' \in [Browsers -> [Owners -> StoredProfile]]
      /\ localAccounts' \in [Browsers -> [Owners -> StoredAccounts]]
      /\ BothSaved(saved) \in BOOLEAN
  BY <1>1, <1>2, SaveLocalPlanType
<1>4. [page[t] EXCEPT !.accounts = accounts, !.localPlanOrigin = "user",
         !.localPersistenceAvailable = BothSaved(saved)] \in Page
  BY <1>1, <1>3 DEF Page
<1>5. page' \in [Tabs -> Page]
  BY <1>2, <1>4 DEF TypeOK
<1>6. issued' \in [Edits -> {"none", "local", "cloud"}]
  BY DEF LocalAccountOp, TypeOK
<1> QED BY <1>3, <1>5, <1>6 DEF LocalAccountOp, TypeOK, authVars, orphanVars, cloudVars

LEMMA CloudAccountOpType ==
  ASSUME TypeOK, NEW t \in Tabs, NEW e \in Edits, CloudAccountOp(t, e)
  PROVE  TypeOK'
<1>1. page[t].authUser \in Users
  BY DEF CloudAccountOp, DataMode, TypeOK, Page, Owners
<1>2. [tab |-> t, owner |-> page[t].authUser, edit |-> e, phase |-> "sent",
       accounts |-> {}] \in AccountOp
  BY <1>1 DEF AccountOp
<1>3. accountOps' \subseteq AccountOp
  BY <1>2 DEF CloudAccountOp, TypeOK
<1>4. issued' \in [Edits -> {"none", "local", "cloud"}]
  BY DEF CloudAccountOp, TypeOK
<1> QED BY <1>3, <1>4 DEF CloudAccountOp, TypeOK, authVars, orphanVars, cloudVars, localVars

LEMMA AccountOpStepType ==
  ASSUME TypeOK, NEW op \in accountOps, AccountOpStep(op)
  PROVE  TypeOK'
<1>1. /\ op \in AccountOp /\ op.tab \in Tabs /\ op.owner \in Users /\ op.edit \in Edits
      /\ op.accounts \in SUBSET Edits /\ cloudAccounts[op.owner] \in SUBSET Edits
      /\ page[op.tab] \in Page
  BY DEF TypeOK, AccountOp
<1>2. CASE ApplyAccountOp(op)
  <2>1. [op EXCEPT !.phase = "applied"] \in AccountOp
    BY <1>1 DEF AccountOp
  <2>2. accountOps' \subseteq AccountOp
    BY <1>2, <2>1, ReplaceType DEF ApplyAccountOp, TypeOK
  <2>3. cloudAccounts' \in [Users -> SUBSET Edits]
    BY <1>1, <1>2 DEF ApplyAccountOp, TypeOK
  <2> QED BY <1>2, <2>2, <2>3 DEF ApplyAccountOp, TypeOK, authVars, orphanVars, localVars
<1>3. CASE AccountOpReply(op)
  <2>1. [op EXCEPT !.phase = "reading"] \in AccountOp
    BY <1>1 DEF AccountOp
  <2>2. accountOps' \subseteq AccountOp
    BY <1>3, <2>1, ReplaceType DEF AccountOpReply, TypeOK
  <2> QED BY <1>3, <2>2 DEF AccountOpReply, TypeOK, authVars, orphanVars, cloudVars, localVars
<1>4. CASE ReadAccountsAgain(op)
  <2>1. [op EXCEPT !.phase = "read", !.accounts = cloudAccounts[op.owner]] \in AccountOp
    BY <1>1 DEF AccountOp
  <2>2. accountOps' \subseteq AccountOp
    BY <1>4, <2>1, ReplaceType DEF ReadAccountsAgain, TypeOK
  <2> QED BY <1>4, <2>2 DEF ReadAccountsAgain, TypeOK, authVars, orphanVars, cloudVars, localVars
<1>5. CASE AccountsReply(op)
  <2>1. BrowserOf[op.tab] \in Browsers
    BY <1>1, BrowserAssumption
  <2>2. [state |-> "stored", edits |-> op.accounts, origin |-> "user"] \in StoredAccounts
    BY <1>1 DEF StoredAccounts
  <2>3. localAccounts' \in [Browsers -> [Owners -> StoredAccounts]]
    <3>1. \/ localAccounts' = localAccounts
          \/ \E ok \in StorageOutcomes :
               saveLocalAccounts(BrowserOf[op.tab], op.owner, op.accounts, "user", ok)
      BY <1>5 DEF AccountsReply
    <3>2. ASSUME NEW ok,
                 saveLocalAccounts(BrowserOf[op.tab], op.owner, op.accounts, "user", ok)
          PROVE  localAccounts' \in [Browsers -> [Owners -> StoredAccounts]]
      BY <2>1, <2>2, <3>2 DEF saveLocalAccounts, TypeOK
    <3> QED BY <3>1, <3>2 DEF TypeOK
  <2>4. [page[op.tab] EXCEPT !.accounts = op.accounts, !.localPlanOrigin = "user",
           !.localPersistenceAvailable = TRUE] \in Page
    BY <1>1 DEF Page
  <2>5. page' \in [Tabs -> Page]
    BY <1>5, <2>4 DEF AccountsReply, TypeOK
  <2> QED BY <1>5, <2>3, <2>5 DEF AccountsReply, TypeOK, authVars, orphanVars, cloudVars
<1>6. CASE AccountOpLost(op)
  <2>1. faults' \in Nat
    BY <1>6, FaultType DEF AccountOpLost
  <2>2. orphanOps' \subseteq [owner : Users, edit : Edits]
    BY <1>1, <1>6 DEF AccountOpLost, TypeOK
  <2> QED BY <1>6, <2>1, <2>2 DEF AccountOpLost, TypeOK, authVars, cloudVars, localVars
<1> QED BY <1>2, <1>3, <1>4, <1>5, <1>6 DEF AccountOpStep

LEMMA OrphanOpType ==
  ASSUME TypeOK, NEW r \in orphanOps, OrphanOp(r)
  PROVE  TypeOK'
BY DEF OrphanOp, TypeOK, authVars, localVars

(* One step of the sync setting or a reload. *)
LEMMA SetCloudSyncType ==
  ASSUME TypeOK, NEW t \in Tabs, NEW enabled \in BOOLEAN, setCloudSyncEnabled(t, enabled)
  PROVE  TypeOK'
<1> DEFINE o == page[t].authUser
           b == BrowserOf[t]
           p == Started(t, o, page[t].cloudAccountReady)
<1>1. /\ page[t] \in Page /\ b \in Browsers /\ o \in Owners
      /\ page[t].cloudAccountReady \in BOOLEAN
      /\ page[t].profile \in SUBSET Edits /\ page[t].accounts \in SUBSET Edits
  BY BrowserAssumption DEF TypeOK, Page
<1>2. p \in Page /\ [p EXCEPT !.cloudSyncEnabled = TRUE] \in Page
  BY <1>1, StartedType
<1>3. /\ page' \in [Tabs -> Page]
      /\ boots' \subseteq Boot
      /\ localProfile' \in [Browsers -> [Owners -> StoredProfile]]
      /\ localAccounts' \in [Browsers -> [Owners -> StoredAccounts]]
  <2>1. CASE SyncOn(t)
    BY <1>2, <2>1, BootstrapType DEF SyncOn
  <2>2. CASE SyncOff(t)
    <3> DEFINE off == [page[t] EXCEPT !.cloudSyncEnabled = FALSE, !.localPlanOrigin = "user"]
               restarted == LocalSession(p)
    <3>1. PICK saved \in Writes, savedAgain \in Writes :
            /\ saveLocalPlan(b, o, page[t].profile, page[t].accounts, "user", saved)
            /\ page' = [page EXCEPT ![t] =
                 IF BothSaved(saved)
                 THEN [restarted EXCEPT !.cloudSyncEnabled = FALSE,
                         !.localPlanOrigin = "user",
                         !.localPersistenceAvailable = BothSaved(savedAgain)]
                 ELSE [off EXCEPT !.localPersistenceAvailable = FALSE]]
      BY <2>2 DEF SyncOff
    <3>2. /\ localProfile' \in [Browsers -> [Owners -> StoredProfile]]
          /\ localAccounts' \in [Browsers -> [Owners -> StoredAccounts]]
      BY <1>1, <3>1, SaveLocalPlanType
    <3>3. BothSaved(savedAgain) \in BOOLEAN
      BY InitialAssumption DEF BothSaved, Writes
    <3>4. restarted \in Page
      BY <1>2, LocalSessionType
    <3>5. [restarted EXCEPT !.cloudSyncEnabled = FALSE, !.localPlanOrigin = "user",
             !.localPersistenceAvailable = BothSaved(savedAgain)] \in Page
      BY <3>3, <3>4 DEF Page
    <3>6. [off EXCEPT !.localPersistenceAvailable = FALSE] \in Page
      BY <1>1 DEF Page
    <3>7. page' \in [Tabs -> Page]
      BY <3>1, <3>5, <3>6 DEF TypeOK
    <3> QED BY <2>2, <3>2, <3>7 DEF SyncOff, TypeOK
  <2> QED BY <2>1, <2>2 DEF setCloudSyncEnabled
<1>4. prefs' \in [Browsers -> BOOLEAN]
  BY DEF setCloudSyncEnabled, TypeOK
<1> QED BY <1>3, <1>4 DEF setCloudSyncEnabled, TypeOK, authVars, orphanVars, cloudVars

LEMMA ReloadType ==
  ASSUME TypeOK, NEW t \in Tabs, Reload(t)
  PROVE  TypeOK'
<1>1. /\ page[t] \in Page /\ save[t] \in Save
      /\ prefs[BrowserOf[t]] \in BOOLEAN
  BY BrowserAssumption DEF TypeOK
<1>2. FreshPage(prefs[BrowserOf[t]], page[t].generation) \in Page
  BY <1>1 DEF FreshPage, Page, Owners, Revisions
<1>3. NoSave \in Save
  BY DEF NoSave, Save, Owners, Revisions
<1>4. Orphan(save[t]) \in [owner : Owners, profile : SUBSET Edits, expected : Revisions]
  BY <1>1 DEF Orphan, Save
<1>5. /\ page' \in [Tabs -> Page] /\ save' \in [Tabs -> Save]
      /\ authPending' \in [Tabs -> BOOLEAN]
  BY <1>2, <1>3 DEF Reload, TypeOK
<1>6. orphanSaves' \subseteq [owner : Owners, profile : SUBSET Edits, expected : Revisions]
  BY <1>4 DEF Reload, TypeOK
<1>7. orphanOps' \subseteq [owner : Users, edit : Edits]
  BY DEF Reload, TypeOK, OpsOf, AccountOp
<1>8. boots' \subseteq Boot /\ accountOps' \subseteq AccountOp
  BY DEF Reload, TypeOK
<1> QED BY <1>5, <1>6, <1>7, <1>8 DEF Reload, TypeOK, cloudVars, localVars

(* Every variable keeps its type along every behaviour. *)
THEOREM TypeCorrect == Spec => []TypeOK
<1>1. Init => TypeOK
  BY InitType
<1>2. TypeOK /\ [Next]_vars => TypeOK'
  <2> SUFFICES ASSUME TypeOK, [Next]_vars PROVE TypeOK'
    OBVIOUS
  <2>1. ASSUME NEW t \in Tabs, UserStep(t) PROVE TypeOK'
    BY <2>1, AuthStateChangedType, UpdatePlanType, LocalAccountOpType, CloudAccountOpType,
       SetCloudSyncType, RetryCloudType, ReloadType DEF UserStep
  <2>2. ASSUME NEW t \in Tabs, AuthSettled(t) PROVE TypeOK'
    BY <2>2, AuthSettledType
  <2>3. ASSUME NEW t \in Tabs, SaveStep(t) PROVE TypeOK'
    BY <2>3, SaveStepType
  <2>4. ASSUME NEW bt \in boots, BootStep(bt) PROVE TypeOK'
    BY <2>4, BootStepType
  <2>5. ASSUME NEW op \in accountOps, AccountOpStep(op) PROVE TypeOK'
    BY <2>5, AccountOpStepType
  <2>6. ASSUME NEW r \in orphanSaves, OrphanSave(r) PROVE TypeOK'
    BY <2>6, OrphanSaveType
  <2>7. ASSUME NEW r \in orphanOps, OrphanOp(r) PROVE TypeOK'
    BY <2>7, OrphanOpType
  <2>8. CASE UNCHANGED vars
    BY <2>8 DEF TypeOK, vars, authVars, orphanVars, cloudVars, localVars
  <2> QED BY <2>1, <2>2, <2>3, <2>4, <2>5, <2>6, <2>7, <2>8 DEF Next
<1> QED BY <1>1, <1>2, PTL DEF Spec

-----------------------------------------------------------------------------
(* The revision protocol is safe: RevisionInv is inductive, and no step of a  *)
(* behaviour removes an edit from a cloud row.                               *)

-----------------------------------------------------------------------------
(* Four shapes of step preserve RevisionInv; every action has one of them.   *)

(* Nothing the invariant speaks of changes. *)
LEMMA FrameKeeps ==
  ASSUME RevisionInv, UNCHANGED <<page, save, boots, orphanSaves, cloudProfile>>
  PROVE  RevisionInv'
BY DEF RevisionInv, PageKnows, SaveKnows, BootKnows, OrphanKnows, Knows

(* A page edits its plan within its generation. *)
LEMMA PageEditKeeps ==
  ASSUME TypeOK, RevisionInv, NEW t \in Tabs, NEW q \in Page,
         page' = [page EXCEPT ![t] = q],
         q.generation = page[t].generation,
         q.authUser = page[t].authUser,
         q.bootstrapped = page[t].bootstrapped,
         q.cloudAvailable = page[t].cloudAvailable,
         q.profileRevision = page[t].profileRevision,
         page[t].profile \subseteq q.profile,
         UNCHANGED <<save, boots, orphanSaves, cloudProfile>>
  PROVE  RevisionInv'
<1>1. \A x \in Tabs : page'[x] = IF x = t THEN q ELSE page[x]
  BY DEF TypeOK
<1>2. ASSUME NEW x \in Tabs PROVE PageKnows(x)'
  BY <1>1 DEF RevisionInv, PageKnows, Knows
<1>3. ASSUME NEW x \in Tabs PROVE SaveKnows(x)'
  BY <1>1 DEF RevisionInv, SaveKnows, Knows
<1>4. ASSUME NEW bt \in boots PROVE BootKnows(bt)'
  <2>1. bt.tab \in Tabs
    BY DEF TypeOK, Boot
  <2> QED BY <1>1, <2>1 DEF RevisionInv, BootKnows, Knows
<1>5. ASSUME NEW r \in orphanSaves PROVE OrphanKnows(r)'
  BY DEF RevisionInv, OrphanKnows, Knows
<1> QED BY <1>2, <1>3, <1>4, <1>5 DEF RevisionInv

(* A page enters a new generation outside cloud mode, perhaps with reads of  *)
(* its own under way.                                                       *)
LEMMA RestartKeeps ==
  ASSUME TypeOK, RevisionInv, NEW t \in Tabs, NEW q \in Page,
         page' = [page EXCEPT ![t] = q],
         q.generation = page[t].generation + 1,
         ~q.cloudAvailable,
         NEW fresh, boots' = boots \cup fresh,
         \A bt \in fresh : /\ bt.tab = t /\ bt.generation = q.generation
                           /\ bt.owner = q.authUser /\ ~q.bootstrapped
                           /\ ~bt.profileRead,
         \A bt1, bt2 \in fresh : bt1 = bt2,
         UNCHANGED <<save, orphanSaves, cloudProfile>>
  PROVE  RevisionInv'
<1>1. \A x \in Tabs : page'[x] = IF x = t THEN q ELSE page[x]
  BY DEF TypeOK
<1>2. page[t].generation \in Nat /\ \A x \in Tabs : save[x].generation \in Nat
  BY DEF TypeOK, Page, Save
<1>3. ASSUME NEW x \in Tabs PROVE PageKnows(x)'
  BY <1>1 DEF RevisionInv, PageKnows, Knows
<1>4. ASSUME NEW x \in Tabs PROVE SaveKnows(x)'
  BY <1>1, <1>2 DEF RevisionInv, SaveKnows, Knows
<1>5. \A bt \in boots : bt.tab \in Tabs /\ bt.generation \in Nat
  BY DEF TypeOK, Boot
<1>6. ASSUME NEW bt \in boots PROVE BootKnows(bt)'
  <2>1. bt.generation <= page[bt.tab].generation
    BY DEF RevisionInv, BootKnows
  <2>2. \A other \in fresh : other.tab = bt.tab => other.generation # bt.generation
    BY <1>2, <1>5, <2>1
  <2> QED BY <1>1, <1>2, <1>5, <2>1, <2>2 DEF RevisionInv, BootKnows, Knows
<1>7. ASSUME NEW bt \in fresh PROVE BootKnows(bt)'
  <2>1. \A other \in boots : other.tab = t => other.generation # bt.generation
    BY <1>2, <1>5 DEF RevisionInv, BootKnows
  <2> QED BY <1>1, <1>2, <2>1 DEF BootKnows, Knows
<1>8. ASSUME NEW r \in orphanSaves PROVE OrphanKnows(r)'
  BY DEF RevisionInv, OrphanKnows, Knows
<1> QED BY <1>3, <1>4, <1>6, <1>7, <1>8 DEF RevisionInv

LEMMA LocalRestartKeeps ==
  ASSUME TypeOK, RevisionInv, NEW t \in Tabs, NEW q \in Page,
         page' = [page EXCEPT ![t] = q],
         q.generation = page[t].generation + 1,
         ~q.cloudAvailable,
         UNCHANGED <<boots, save, orphanSaves, cloudProfile>>
  PROVE  RevisionInv'
<1> DEFINE fresh == {}
<1>1. boots' = boots \cup fresh
  OBVIOUS
<1>2. /\ \A bt \in fresh : /\ bt.tab = t /\ bt.generation = q.generation
                           /\ bt.owner = q.authUser /\ ~q.bootstrapped
                           /\ ~bt.profileRead
      /\ \A bt1, bt2 \in fresh : bt1 = bt2
  OBVIOUS
<1> HIDE DEF fresh
<1> QED BY <1>1, <1>2, RestartKeeps

(* A write the row's revision admits keeps what the row holds, and leaves    *)
(* every other copy behind.                                                 *)
LEMMA WriteKeeps ==
  ASSUME TypeOK, NEW u \in Users, NEW profile \in SUBSET Edits,
         cloudProfile[u].edits \subseteq profile,
         cloudProfile' = [cloudProfile EXCEPT ![u] = SavedRow(@, profile)]
  PROVE  /\ cloudProfile'[u].edits = profile
         /\ cloudProfile'[u].rev = cloudProfile[u].rev + 1
         /\ \A v \in Users : cloudProfile[v].edits \subseteq cloudProfile'[v].edits
         /\ \A v \in Users, known \in SUBSET Edits, rev \in Revisions :
               Knows(known, rev, v) => Knows(known, rev, v)'
<1>1. cloudProfile'[u] = SavedRow(cloudProfile[u], profile)
  BY DEF TypeOK
<1>2. \A v \in Users : v # u => cloudProfile'[v] = cloudProfile[v]
  BY DEF TypeOK
<1>3. cloudProfile'[u].edits = profile /\ cloudProfile'[u].rev = cloudProfile[u].rev + 1
  BY <1>1 DEF SavedRow
<1>4. cloudProfile[u].rev \in Int
  BY DEF TypeOK, Row, Revisions, NoRevision
<1>5. ASSUME NEW v \in Users, NEW known \in SUBSET Edits, NEW rev \in Revisions,
             Knows(known, rev, v)
      PROVE  Knows(known, rev, v)'
  <2>1. rev \in Int
    BY DEF Revisions, NoRevision
  <2>2. CASE v = u
    BY <1>3, <1>4, <1>5, <2>1, <2>2 DEF Knows
  <2>3. CASE v # u
    BY <1>2, <1>5, <2>3 DEF Knows
  <2> QED BY <2>2, <2>3
<1> QED BY <1>2, <1>3, <1>5

-----------------------------------------------------------------------------
(* Bootstraps *)

(* The local tail of a bootstrap changes one page, outside cloud mode. *)
LEMMA FinishLocalShape ==
  ASSUME TypeOK, NEW t \in Tabs, NEW p \in Page, FinishLocal(t, p)
  PROVE  \E q \in Page :
           /\ page' = [page EXCEPT ![t] = q]
           /\ q.generation = p.generation /\ q.authUser = p.authUser
           /\ q.bootstrapped /\ ~q.cloudAvailable
<1> DEFINE b == BrowserOf[t]
           o == p.authUser
<1>1. page' \in [Tabs -> Page]
  BY FinishLocalType
<1>2. LocalSession(p) \in Page
  BY LocalSessionType
<1>3. CASE LocalLoadFails(b, o)
  <2> DEFINE q == [LocalSession(p) EXCEPT !.profile = {}, !.accounts = {},
                     !.localPlanOrigin = "starter", !.localPersistenceAvailable = TRUE]
  <2>1. page' = [page EXCEPT ![t] = q]
    BY <1>3 DEF FinishLocal
  <2>2. q \in Page
    BY <1>2 DEF Page
  <2>3. /\ q.generation = p.generation /\ q.authUser = p.authUser
        /\ q.bootstrapped /\ ~q.cloudAvailable
    BY DEF LocalSession, Page
  <2> QED BY <2>1, <2>2, <2>3
<1>4. CASE ~LocalLoadFails(b, o)
  <2>1. PICK saved \in Writes :
          page' = [page EXCEPT ![t] =
            [LocalSession(p) EXCEPT !.profile = hydratedProfile(b, o),
               !.accounts = hydratedAccounts(b, o),
               !.localPlanOrigin = storedOrigin(b, o),
               !.localPersistenceAvailable = BothSaved(saved)]]
    BY <1>4 DEF FinishLocal
  <2> DEFINE q == [LocalSession(p) EXCEPT !.profile = hydratedProfile(b, o),
                     !.accounts = hydratedAccounts(b, o),
                     !.localPlanOrigin = storedOrigin(b, o),
                     !.localPersistenceAvailable = BothSaved(saved)]
  <2>2. page' = [page EXCEPT ![t] = q]
    BY <2>1
  <2>3. q \in Page
    BY <1>1, <2>2 DEF TypeOK
  <2>4. /\ q.generation = p.generation /\ q.authUser = p.authUser
        /\ q.bootstrapped /\ ~q.cloudAvailable
    BY DEF LocalSession, Page
  <2> QED BY <2>2, <2>3, <2>4
<1> QED BY <1>3, <1>4

(* A bootstrap of a started page preserves the invariant. *)
LEMMA BootstrapKeeps ==
  ASSUME TypeOK, RevisionInv, NEW t \in Tabs, NEW p \in Page,
         p.generation = page[t].generation + 1,
         ~p.cloudAvailable, ~p.bootstrapped,
         Bootstrap(t, p), UNCHANGED <<save, orphanSaves, cloudProfile>>
  PROVE  RevisionInv'
<1>1. CASE p.authUser # Anonymous /\ p.cloudAccountReady /\ p.cloudSyncEnabled
  <2> DEFINE bt0 == [tab |-> t, generation |-> p.generation, owner |-> p.authUser,
                     profileRead |-> FALSE, row |-> AbsentRow,
                     accountsRead |-> FALSE, accounts |-> {}, failed |-> FALSE]
             fresh == {bt0}
  <2>1. page' = [page EXCEPT ![t] = p] /\ boots' = boots \cup fresh
    BY <1>1 DEF Bootstrap
  <2>2. \A bt \in fresh : /\ bt.tab = t /\ bt.generation = p.generation
                          /\ bt.owner = p.authUser /\ ~p.bootstrapped
                          /\ ~bt.profileRead
    OBVIOUS
  <2>3. \A bt1, bt2 \in fresh : bt1 = bt2
    OBVIOUS
  <2> HIDE DEF fresh
  <2> QED BY <2>1, <2>2, <2>3, RestartKeeps
<1>2. CASE ~(p.authUser # Anonymous /\ p.cloudAccountReady /\ p.cloudSyncEnabled)
  <2>1. FinishLocal(t, p) /\ UNCHANGED boots
    BY <1>2 DEF Bootstrap
  <2>2. PICK q \in Page :
           /\ page' = [page EXCEPT ![t] = q]
           /\ q.generation = p.generation /\ q.authUser = p.authUser
           /\ q.bootstrapped /\ ~q.cloudAvailable
    BY <2>1, FinishLocalShape
  <2> QED BY <2>1, <2>2, LocalRestartKeeps
<1> QED BY <1>1, <1>2

LEMMA StartedShape ==
  ASSUME TypeOK, NEW t \in Tabs, NEW u \in Owners, NEW ready \in BOOLEAN
  PROVE  /\ Started(t, u, ready).generation = page[t].generation + 1
         /\ Started(t, u, ready).authUser = u
         /\ ~Started(t, u, ready).cloudAvailable
         /\ ~Started(t, u, ready).bootstrapped
<1>1. page[t] \in Page
  BY DEF TypeOK
<1> QED BY <1>1 DEF Started, Page

LEMMA AuthSettledKeeps ==
  ASSUME TypeOK, RevisionInv, NEW t \in Tabs, AuthSettled(t)
  PROVE  RevisionInv'
<1>1. fbUser[t] \in Owners
  BY DEF TypeOK
<1>2. UNCHANGED <<save, orphanSaves, cloudProfile>>
  BY DEF AuthSettled, orphanVars, cloudVars
<1>3. ASSUME NEW ready \in BOOLEAN, Bootstrap(t, Started(t, fbUser[t], ready))
      PROVE  RevisionInv'
  <2>1. Started(t, fbUser[t], ready) \in Page
    BY <1>1, StartedType
  <2> QED BY <1>1, <1>2, <1>3, <2>1, StartedShape, BootstrapKeeps
<1>4. (fbUser[t] # Anonymous) \in BOOLEAN
  OBVIOUS
<1> QED BY <1>3, <1>4 DEF AuthSettled

LEMMA RetryCloudKeeps ==
  ASSUME TypeOK, RevisionInv, NEW t \in Tabs, RetryCloud(t)
  PROVE  RevisionInv'
<1>1. page[t].authUser \in Owners
  BY DEF TypeOK, Page
<1>2. UNCHANGED <<save, orphanSaves, cloudProfile>>
  BY DEF RetryCloud, orphanVars, cloudVars
<1>3. Bootstrap(t, Started(t, page[t].authUser, TRUE))
  BY DEF RetryCloud
<1>4. Started(t, page[t].authUser, TRUE) \in Page
  BY <1>1, StartedType
<1> QED BY <1>1, <1>2, <1>3, <1>4, StartedShape, BootstrapKeeps

LEMMA SetCloudSyncKeeps ==
  ASSUME TypeOK, RevisionInv, NEW t \in Tabs, NEW enabled \in BOOLEAN,
         setCloudSyncEnabled(t, enabled)
  PROVE  RevisionInv'
<1> DEFINE o == page[t].authUser
           ready == page[t].cloudAccountReady
<1>1. page[t] \in Page /\ o \in Owners /\ ready \in BOOLEAN
  BY DEF TypeOK, Page
<1>2. UNCHANGED <<save, orphanSaves, cloudProfile>>
  BY DEF setCloudSyncEnabled, orphanVars, cloudVars
<1>3. page' \in [Tabs -> Page]
  BY SetCloudSyncType DEF TypeOK
<1>4. CASE SyncOn(t)
  <2> DEFINE p == [Started(t, o, ready) EXCEPT !.cloudSyncEnabled = TRUE]
  <2>1. p \in Page
    BY <1>1, StartedType
  <2>2. Started(t, o, ready) \in Page
    BY <1>1, StartedType
  <2>3. /\ p.generation = page[t].generation + 1
        /\ ~p.cloudAvailable /\ ~p.bootstrapped
    BY <1>1, <2>2, StartedShape DEF Page
  <2>4. Bootstrap(t, p)
    BY <1>4 DEF SyncOn
  <2> QED BY <1>2, <2>1, <2>3, <2>4, BootstrapKeeps
<1>5. CASE SyncOff(t)
  <2> DEFINE off == [page[t] EXCEPT !.cloudSyncEnabled = FALSE, !.localPlanOrigin = "user"]
             restarted == LocalSession(Started(t, o, ready))
  <2>1. PICK saved, savedAgain \in Writes :
           page' = [page EXCEPT ![t] =
                IF BothSaved(saved)
                THEN [restarted EXCEPT !.cloudSyncEnabled = FALSE,
                        !.localPlanOrigin = "user",
                        !.localPersistenceAvailable = BothSaved(savedAgain)]
                ELSE [off EXCEPT !.localPersistenceAvailable = FALSE]]
    BY <1>5 DEF SyncOff
  <2>2. UNCHANGED boots
    BY <1>5 DEF SyncOff
  <2>3. CASE BothSaved(saved)
    <3> DEFINE q == [restarted EXCEPT !.cloudSyncEnabled = FALSE,
                        !.localPlanOrigin = "user",
                        !.localPersistenceAvailable = BothSaved(savedAgain)]
    <3>1. page' = [page EXCEPT ![t] = q]
      BY <2>1, <2>3
    <3>2. q \in Page
      BY <1>3, <3>1 DEF TypeOK
    <3>3. Started(t, o, ready) \in Page
      BY <1>1, StartedType
    <3>4. q.generation = page[t].generation + 1 /\ ~q.cloudAvailable
      BY <1>1, <3>3, StartedShape DEF LocalSession, Page
    <3> QED BY <1>2, <2>2, <3>1, <3>2, <3>4, LocalRestartKeeps
  <2>4. CASE ~BothSaved(saved)
    <3> DEFINE q == [off EXCEPT !.localPersistenceAvailable = FALSE]
    <3>1. page' = [page EXCEPT ![t] = q]
      BY <2>1, <2>4
    <3>2. q \in Page
      BY <1>3, <3>1 DEF TypeOK
    <3>3. /\ q.generation = page[t].generation
          /\ q.authUser = page[t].authUser
          /\ q.bootstrapped = page[t].bootstrapped
          /\ q.cloudAvailable = page[t].cloudAvailable
          /\ q.profileRevision = page[t].profileRevision
          /\ q.profile = page[t].profile
      BY <1>1 DEF Page
    <3> HIDE DEF q
    <3> QED BY <1>2, <2>2, <3>1, <3>2, <3>3, PageEditKeeps
  <2> QED BY <2>3, <2>4
<1> QED BY <1>4, <1>5 DEF setCloudSyncEnabled

(* A read is answered, or fails: the bootstrap keeps its tab, generation and *)
(* owner, and what it read is what the row holds.                           *)
LEMMA BootReadKeeps ==
  ASSUME TypeOK, RevisionInv, NEW bt \in boots, NEW new,
         boots' = Replace(boots, bt, new),
         new.tab = bt.tab, new.generation = bt.generation, new.owner = bt.owner,
         \/ new.profileRead = bt.profileRead /\ new.row = bt.row
         \/ new.row = cloudProfile[bt.owner],
         UNCHANGED <<page, save, orphanSaves, cloudProfile>>
  PROVE  RevisionInv'
<1>1. ASSUME NEW x \in Tabs PROVE PageKnows(x)' /\ SaveKnows(x)'
  BY DEF RevisionInv, PageKnows, SaveKnows, Knows
<1>2. ASSUME NEW r \in orphanSaves PROVE OrphanKnows(r)'
  BY DEF RevisionInv, OrphanKnows, Knows
<1>3. bt.tab \in Tabs /\ bt.owner \in Users
  BY DEF TypeOK, Boot
<1>4. cloudProfile[bt.owner].rev \in Int
  BY <1>3 DEF TypeOK, Row, Revisions, NoRevision
<1>5. boots' = (boots \ {bt}) \cup {new}
  BY DEF Replace
<1>6. ASSUME NEW x \in boots' PROVE BootKnows(x)'
  <2>1. CASE x # new
    <3>1. x \in boots /\ x # bt
      BY <1>5, <2>1
    <3>2. BootKnows(x) /\ BootKnows(bt)
      BY <3>1 DEF RevisionInv
    <3>3. ~(new.tab = x.tab /\ new.generation = x.generation)
      BY <3>1, <3>2 DEF BootKnows
    <3>4. \A other \in boots' :
             other.tab = x.tab /\ other.generation = x.generation => other = x
      BY <1>5, <3>2, <3>3 DEF BootKnows
    <3> QED BY <3>2, <3>4 DEF BootKnows, Knows
  <2>2. CASE x = new
    <3>1. BootKnows(bt)
      BY DEF RevisionInv
    <3>2. x.profileRead => Knows(x.row.edits, x.row.rev, x.owner)'
      <4>1. CASE new.profileRead = bt.profileRead /\ new.row = bt.row
        BY <2>2, <3>1, <4>1 DEF BootKnows, Knows
      <4>2. CASE new.row = cloudProfile[bt.owner]
        BY <1>3, <1>4, <2>2, <4>2 DEF Knows
      <4> QED BY <4>1, <4>2
    <3>3. \A other \in boots' :
             other.tab = x.tab /\ other.generation = x.generation => other = x
      BY <1>5, <2>2, <3>1 DEF BootKnows
    <3> QED BY <2>2, <3>1, <3>2, <3>3 DEF BootKnows
  <2> QED BY <2>1, <2>2
<1> QED BY <1>1, <1>2, <1>6 DEF RevisionInv

(* A bootstrap ends: it alone belongs to its generation, in which nothing    *)
(* has been saved yet.                                                      *)
LEMMA BootEndKeeps ==
  ASSUME TypeOK, RevisionInv, NEW bt \in boots, NEW q \in Page,
         bt.generation = page[bt.tab].generation,
         page' = [page EXCEPT ![bt.tab] = q],
         boots' = boots \ {bt},
         q.generation = page[bt.tab].generation,
         q.authUser = page[bt.tab].authUser,
         q.bootstrapped,
         q.cloudAvailable => Knows(q.profile, q.profileRevision, bt.owner),
         UNCHANGED <<save, orphanSaves, cloudProfile>>
  PROVE  RevisionInv'
<1> DEFINE t == bt.tab
<1>1. t \in Tabs /\ bt.owner \in Users
  BY DEF TypeOK, Boot
<1>2. \A x \in Tabs : page'[x] = IF x = t THEN q ELSE page[x]
  BY <1>1 DEF TypeOK
<1>3. BootKnows(bt)
  BY DEF RevisionInv
<1>4. bt.owner = page[t].authUser /\ ~page[t].bootstrapped
  BY <1>3 DEF BootKnows
<1>5. ASSUME NEW x \in Tabs PROVE PageKnows(x)'
  BY <1>1, <1>2, <1>4 DEF RevisionInv, PageKnows, Knows
<1>6. ASSUME NEW x \in Tabs PROVE SaveKnows(x)'
  BY <1>1, <1>2, <1>4 DEF RevisionInv, SaveKnows, Knows
<1>7. ASSUME NEW x \in boots' PROVE BootKnows(x)'
  <2>1. BootKnows(x) /\ x \in boots /\ x # bt
    BY DEF RevisionInv
  <2>2. ~(x.tab = t /\ x.generation = page[t].generation)
    BY <1>3, <2>1 DEF BootKnows
  <2>3. x.tab \in Tabs
    BY <2>1 DEF TypeOK, Boot
  <2> QED BY <1>1, <1>2, <2>1, <2>2, <2>3 DEF BootKnows, Knows
<1>8. ASSUME NEW r \in orphanSaves PROVE OrphanKnows(r)'
  BY DEF RevisionInv, OrphanKnows, Knows
<1> QED BY <1>5, <1>6, <1>7, <1>8 DEF RevisionInv

LEMMA BootStepKeeps ==
  ASSUME TypeOK, RevisionInv, NEW bt \in boots, BootStep(bt)
  PROVE  RevisionInv'
<1>1. bt \in Boot /\ bt.tab \in Tabs /\ page[bt.tab] \in Page
  BY DEF TypeOK, Boot
<1>2. CASE GetProfile(bt)
  <2> DEFINE new == [bt EXCEPT !.profileRead = TRUE, !.row = cloudProfile[bt.owner]]
  <2>1. /\ boots' = Replace(boots, bt, new)
        /\ UNCHANGED <<page, save, orphanSaves, cloudProfile>>
    BY <1>2 DEF GetProfile, orphanVars, cloudVars
  <2>2. /\ new.tab = bt.tab /\ new.generation = bt.generation
        /\ new.owner = bt.owner /\ new.row = cloudProfile[bt.owner]
    BY <1>1 DEF Boot
  <2> HIDE DEF new
  <2> QED BY <2>1, <2>2, BootReadKeeps
<1>3. CASE GetAccounts(bt)
  <2> DEFINE new == [bt EXCEPT !.accountsRead = TRUE,
                               !.accounts = cloudAccounts[bt.owner]]
  <2>1. /\ boots' = Replace(boots, bt, new)
        /\ UNCHANGED <<page, save, orphanSaves, cloudProfile>>
    BY <1>3 DEF GetAccounts, orphanVars, cloudVars
  <2>2. /\ new.tab = bt.tab /\ new.generation = bt.generation
        /\ new.owner = bt.owner
        /\ new.profileRead = bt.profileRead /\ new.row = bt.row
    BY <1>1 DEF Boot
  <2> HIDE DEF new
  <2> QED BY <2>1, <2>2, BootReadKeeps
<1>4. CASE ReadFails(bt)
  <2> DEFINE new == [bt EXCEPT !.failed = TRUE]
  <2>1. /\ boots' = Replace(boots, bt, new)
        /\ UNCHANGED <<page, save, orphanSaves, cloudProfile>>
    BY <1>4 DEF ReadFails, orphanVars, cloudVars
  <2>2. /\ new.tab = bt.tab /\ new.generation = bt.generation
        /\ new.owner = bt.owner
        /\ new.profileRead = bt.profileRead /\ new.row = bt.row
    BY <1>1 DEF Boot
  <2> HIDE DEF new
  <2> QED BY <2>1, <2>2, BootReadKeeps
<1>5. CASE BootstrapResume(bt)
  <2> DEFINE t == bt.tab
             p == page[t]
  <2>1. /\ boots' = boots \ {bt}
        /\ UNCHANGED <<save, orphanSaves, cloudProfile>>
    BY <1>5 DEF BootstrapResume, orphanVars, cloudVars
  <2>2. CASE Superseded(bt) /\ UNCHANGED <<page, localVars>>
    BY <2>1, <2>2 DEF RevisionInv, PageKnows, SaveKnows, BootKnows, OrphanKnows, Knows
  <2>3. CASE /\ ~Superseded(bt) /\ ~bt.failed /\ bt.row.schema # "unusable"
             /\ FinishCloud(t, page[t], bt.row, bt.accounts)
    <3> DEFINE q == [p EXCEPT !.profile = bt.row.edits, !.accounts = bt.accounts,
                       !.cloudAvailable = TRUE,
                       !.profileRevision = bt.row.rev,
                       !.localPlanOrigin = "user",
                       !.localPersistenceAvailable = TRUE,
                       !.bootstrapped = TRUE,
                       !.profileDirty = @ \/ bt.row.schema = "older"]
    <3>1. page' = [page EXCEPT ![t] = q]
      BY <2>3 DEF FinishCloud
    <3>2. page' \in [Tabs -> Page]
      BY BootStepType DEF TypeOK
    <3>3. q \in Page
      BY <1>1, <3>1, <3>2 DEF TypeOK
    <3>4. /\ q.generation = p.generation /\ q.authUser = p.authUser
          /\ q.bootstrapped
          /\ q.profile = bt.row.edits /\ q.profileRevision = bt.row.rev
      BY <1>1 DEF Page
    <3>5. bt.profileRead
      BY <1>5, <2>3 DEF BootstrapResume, ReadsSettled
    <3>6. Knows(bt.row.edits, bt.row.rev, bt.owner)
      BY <3>5 DEF RevisionInv, BootKnows
    <3>7. bt.generation = page[bt.tab].generation
      BY <2>3 DEF Superseded
    <3> HIDE DEF q
    <3> QED BY <2>1, <3>1, <3>3, <3>4, <3>6, <3>7, BootEndKeeps
  <2>4. CASE ~Superseded(bt) /\ FinishLocal(t, page[t])
    <3>1. PICK q \in Page :
           /\ page' = [page EXCEPT ![t] = q]
           /\ q.generation = p.generation /\ q.authUser = p.authUser
           /\ q.bootstrapped /\ ~q.cloudAvailable
      BY <1>1, <2>4, FinishLocalShape
    <3>2. bt.generation = page[bt.tab].generation
      BY <2>4 DEF Superseded
    <3> QED BY <2>1, <3>1, <3>2, BootEndKeeps
  <2> QED BY <1>5, <2>2, <2>3, <2>4 DEF BootstrapResume
<1> QED BY <1>2, <1>3, <1>4, <1>5 DEF BootStep

-----------------------------------------------------------------------------
(* Edits and saves *)

LEMMA UpdatePlanKeeps ==
  ASSUME TypeOK, RevisionInv, NEW t \in Tabs, NEW e \in Edits, updatePlan(t, e)
  PROVE  RevisionInv'
<1> DEFINE profile == page[t].profile \cup {e}
           edited == [page[t] EXCEPT !.profile = profile, !.profileDirty = TRUE]
<1>0. page[t] \in Page
  BY DEF TypeOK
<1>1. edited \in Page
  BY <1>0 DEF Page
<1>2. UNCHANGED <<save, boots, orphanSaves, cloudProfile>>
  BY DEF updatePlan, orphanVars, cloudVars
<1>3. page' \in [Tabs -> Page]
  BY UpdatePlanType DEF TypeOK
<1>4. PICK saved \in Writes :
        \/ page' = [page EXCEPT ![t] =
             [edited EXCEPT !.localPlanOrigin = "user",
                            !.localPersistenceAvailable = BothSaved(saved)]]
        \/ page' = [page EXCEPT ![t] =
             [edited EXCEPT !.localPersistenceAvailable = TRUE]]
  BY DEF updatePlan
<1> DEFINE q == page'[t]
<1>5. page' = [page EXCEPT ![t] = q] /\ q \in Page
  BY <1>3, <1>4 DEF TypeOK
<1>6. /\ q.generation = page[t].generation
      /\ q.authUser = page[t].authUser
      /\ q.bootstrapped = page[t].bootstrapped
      /\ q.cloudAvailable = page[t].cloudAvailable
      /\ q.profileRevision = page[t].profileRevision
      /\ q.profile = profile
  <2>1. \/ q = [edited EXCEPT !.localPlanOrigin = "user",
                              !.localPersistenceAvailable = BothSaved(saved)]
        \/ q = [edited EXCEPT !.localPersistenceAvailable = TRUE]
    BY <1>4 DEF TypeOK
  <2> QED BY <1>0, <1>1, <2>1 DEF Page
<1> HIDE DEF q
<1> QED BY <1>2, <1>5, <1>6, PageEditKeeps

LEMMA LocalAccountOpKeeps ==
  ASSUME TypeOK, RevisionInv, NEW t \in Tabs, NEW e \in Edits, LocalAccountOp(t, e)
  PROVE  RevisionInv'
<1> DEFINE q == page'[t]
<1>1. page[t] \in Page
  BY DEF TypeOK
<1>2. UNCHANGED <<save, boots, orphanSaves, cloudProfile>>
  BY DEF LocalAccountOp, orphanVars, cloudVars
<1>3. page' \in [Tabs -> Page]
  BY LocalAccountOpType DEF TypeOK
<1>4. PICK saved \in Writes :
        page' = [page EXCEPT ![t] =
          [@ EXCEPT !.accounts = page[t].accounts \cup {e}, !.localPlanOrigin = "user",
                    !.localPersistenceAvailable = BothSaved(saved)]]
  BY DEF LocalAccountOp
<1>5. page' = [page EXCEPT ![t] = q] /\ q \in Page
  BY <1>3, <1>4 DEF TypeOK
<1>6. /\ q.generation = page[t].generation
      /\ q.authUser = page[t].authUser
      /\ q.bootstrapped = page[t].bootstrapped
      /\ q.cloudAvailable = page[t].cloudAvailable
      /\ q.profileRevision = page[t].profileRevision
      /\ q.profile = page[t].profile
  BY <1>1, <1>4 DEF TypeOK, Page
<1> HIDE DEF q
<1> QED BY <1>2, <1>5, <1>6, PageEditKeeps

LEMMA AccountsReplyKeeps ==
  ASSUME TypeOK, RevisionInv, NEW op \in accountOps, AccountsReply(op)
  PROVE  RevisionInv'
<1> DEFINE t == op.tab
           q == page'[t]
<1>1. t \in Tabs /\ page[t] \in Page
  BY DEF TypeOK, AccountOp
<1>2. UNCHANGED <<save, boots, orphanSaves, cloudProfile>>
  BY DEF AccountsReply, orphanVars, cloudVars
<1>3. CASE page[t].authUser = op.owner
  <2>1. page' = [page EXCEPT ![t] =
          [@ EXCEPT !.accounts = op.accounts, !.localPlanOrigin = "user",
                    !.localPersistenceAvailable = TRUE]]
    BY <1>3 DEF AccountsReply
  <2>2. page' \in [Tabs -> Page]
    BY AccountOpStepType DEF AccountOpStep, TypeOK
  <2>3. page' = [page EXCEPT ![t] = q] /\ q \in Page
    BY <1>1, <2>1, <2>2 DEF TypeOK
  <2>4. /\ q.generation = page[t].generation
        /\ q.authUser = page[t].authUser
        /\ q.bootstrapped = page[t].bootstrapped
        /\ q.cloudAvailable = page[t].cloudAvailable
        /\ q.profileRevision = page[t].profileRevision
        /\ q.profile = page[t].profile
    BY <1>1, <2>1 DEF TypeOK, Page
  <2> HIDE DEF q
  <2> QED BY <1>1, <1>2, <2>3, <2>4, PageEditKeeps
<1>4. CASE page[t].authUser # op.owner
  <2>1. UNCHANGED page
    BY <1>4 DEF AccountsReply
  <2> QED BY <1>2, <2>1, FrameKeeps
<1> QED BY <1>3, <1>4

LEMMA FlushKeeps ==
  ASSUME TypeOK, RevisionInv, NEW t \in Tabs, flushProfileToDb(t)
  PROVE  RevisionInv'
<1>1. page[t] \in Page /\ page[t].generation \in Nat
  BY DEF TypeOK, Page
<1>2. \A x \in Tabs : /\ page'[x] = IF x = t THEN [page[t] EXCEPT !.profileDirty = FALSE]
                                               ELSE page[x]
                      /\ x # t => save'[x] = save[x]
  BY DEF flushProfileToDb, TypeOK
<1>3. \A x \in Tabs : /\ page'[x].generation = page[x].generation
                      /\ page'[x].authUser = page[x].authUser
                      /\ page'[x].bootstrapped = page[x].bootstrapped
                      /\ page'[x].cloudAvailable = page[x].cloudAvailable
                      /\ page'[x].profile = page[x].profile
                      /\ page'[x].profileRevision = page[x].profileRevision
  BY <1>1, <1>2 DEF Page
<1>4. save'[t] = [status |-> "sent", owner |-> page[t].authUser,
        generation |-> page[t].generation, profile |-> page[t].profile,
        expected |-> page[t].profileRevision, revision |-> NoRevision]
  BY DEF flushProfileToDb, TypeOK
<1>5. UNCHANGED <<boots, orphanSaves, cloudProfile>>
  BY DEF flushProfileToDb, orphanVars, cloudVars
<1>6. page[t].cloudAvailable /\ PageKnows(t)
  BY DEF flushProfileToDb, DataMode, RevisionInv
<1>7. ASSUME NEW x \in Tabs PROVE PageKnows(x)'
  BY <1>3, <1>5 DEF RevisionInv, PageKnows, Knows
<1>8. ASSUME NEW x \in Tabs PROVE SaveKnows(x)'
  <2>1. CASE x = t
    BY <1>1, <1>3, <1>4, <1>5, <1>6, <2>1 DEF SaveKnows, PageKnows, Knows
  <2>2. CASE x # t
    BY <1>2, <1>3, <1>5, <2>2 DEF RevisionInv, SaveKnows, Knows
  <2> QED BY <2>1, <2>2
<1>9. ASSUME NEW bt \in boots PROVE BootKnows(bt)'
  <2>1. bt.tab \in Tabs
    BY DEF TypeOK, Boot
  <2> QED BY <1>3, <1>5, <2>1 DEF RevisionInv, BootKnows, Knows
<1>10. ASSUME NEW r \in orphanSaves PROVE OrphanKnows(r)'
  BY <1>5 DEF RevisionInv, OrphanKnows, Knows
<1> QED BY <1>5, <1>7, <1>8, <1>9, <1>10 DEF RevisionInv

(* The late reply of a save: the page learns the new revision only while the *)
(* generation that sent it lasts.                                           *)
LEMMA SaveReplyKeeps ==
  ASSUME TypeOK, RevisionInv, NEW t \in Tabs, SaveReply(t)
  PROVE  RevisionInv'
<1> DEFINE s == save[t]
           p == page[t]
<1>1. p \in Page /\ s \in Save
  BY DEF TypeOK
<1>2. /\ \A x \in Tabs : x # t => page'[x] = page[x] /\ save'[x] = save[x]
      /\ page'[t] = IF ReplyIsCurrent(t) THEN AfterReply(p, s) ELSE p
      /\ save'[t] = NoSave
  BY DEF SaveReply, TypeOK
<1>3. UNCHANGED <<boots, orphanSaves, cloudProfile>>
  BY DEF SaveReply, orphanVars, cloudVars
<1>4. SaveKnows(t) /\ PageKnows(t) /\ s.status \in {"saved", "conflict", "failed"}
  BY DEF SaveReply, RevisionInv
<1>5. /\ page'[t].generation = p.generation
      /\ page'[t].authUser = p.authUser
      /\ page'[t].bootstrapped = p.bootstrapped
      /\ page'[t].cloudAvailable = p.cloudAvailable
      /\ page'[t].profile = p.profile
      /\ \/ page'[t].profileRevision = p.profileRevision
         \/ /\ ReplyIsCurrent(t) /\ s.status = "saved"
            /\ page'[t].profileRevision = s.revision
  BY <1>1, <1>2, <1>4 DEF AfterReply, Page
<1>6. PageKnows(t)'
  BY <1>3, <1>4, <1>5 DEF PageKnows, SaveKnows, ReplyIsCurrent, Knows
<1>7. ASSUME NEW x \in Tabs PROVE PageKnows(x)'
  BY <1>2, <1>3, <1>6 DEF RevisionInv, PageKnows, Knows
<1>8. ASSUME NEW x \in Tabs PROVE SaveKnows(x)'
  BY <1>2, <1>3 DEF RevisionInv, SaveKnows, Knows, NoSave
<1>9. ASSUME NEW bt \in boots PROVE BootKnows(bt)'
  <2>1. bt.tab \in Tabs
    BY DEF TypeOK, Boot
  <2> QED BY <1>2, <1>3, <1>5, <2>1 DEF RevisionInv, BootKnows, Knows
<1>10. ASSUME NEW r \in orphanSaves PROVE OrphanKnows(r)'
  BY <1>3 DEF RevisionInv, OrphanKnows, Knows
<1> QED BY <1>3, <1>7, <1>8, <1>9, <1>10 DEF RevisionInv

(* A request given up on knows what the save knew. *)
LEMMA OrphanedKnows ==
  ASSUME RevisionInv, NEW t \in Tabs, save[t].status = "sent"
  PROVE  OrphanKnows(Orphan(save[t]))
BY DEF RevisionInv, SaveKnows, OrphanKnows, Orphan, Knows

LEMMA SaveLostKeeps ==
  ASSUME TypeOK, RevisionInv, NEW t \in Tabs, SaveLost(t)
  PROVE  RevisionInv'
<1>1. save[t] \in Save
  BY DEF TypeOK
<1>2. /\ \A x \in Tabs : x # t => save'[x] = save[x]
      /\ save'[t] = [save[t] EXCEPT !.status = "failed"]
  BY DEF SaveLost, TypeOK
<1>3. UNCHANGED <<page, boots, cloudProfile>>
  BY DEF SaveLost, cloudVars
<1>4. ASSUME NEW x \in Tabs PROVE PageKnows(x)'
  BY <1>3 DEF RevisionInv, PageKnows, Knows
<1>5. ASSUME NEW x \in Tabs PROVE SaveKnows(x)'
  <2>1. CASE x = t
    BY <1>1, <1>2, <1>3, <2>1 DEF RevisionInv, SaveKnows, SaveLost, Save
  <2>2. CASE x # t
    BY <1>2, <1>3, <2>2 DEF RevisionInv, SaveKnows, Knows
  <2> QED BY <2>1, <2>2
<1>6. ASSUME NEW bt \in boots PROVE BootKnows(bt)'
  BY <1>3 DEF RevisionInv, BootKnows, Knows
<1>7. ASSUME NEW r \in orphanSaves' PROVE OrphanKnows(r)'
  <2>1. r \in orphanSaves \/ (save[t].status = "sent" /\ r = Orphan(save[t]))
    BY DEF SaveLost
  <2>2. OrphanKnows(r)
    BY <2>1, OrphanedKnows DEF RevisionInv
  <2> QED BY <1>3, <2>2 DEF OrphanKnows, Knows
<1> QED BY <1>3, <1>4, <1>5, <1>6, <1>7 DEF RevisionInv

(* Copies that are not written survive a write to the row. *)
LEMMA CopiesSurviveWrite ==
  ASSUME TypeOK, RevisionInv, UNCHANGED <<page, boots>>,
         \A v \in Users, known \in SUBSET Edits, rev \in Revisions :
            Knows(known, rev, v) => Knows(known, rev, v)'
  PROVE  /\ \A x \in Tabs : PageKnows(x)'
         /\ \A bt \in boots : BootKnows(bt)'
         /\ \A r \in orphanSaves : OrphanKnows(r)'
         /\ \A x \in Tabs : save'[x] = save[x] => SaveKnows(x)'
<1>1. ASSUME NEW x \in Tabs PROVE PageKnows(x)'
  <2>1. page[x].profile \in SUBSET Edits /\ page[x].profileRevision \in Revisions
    BY DEF TypeOK, Page
  <2> QED BY <2>1 DEF RevisionInv, PageKnows
<1>2. ASSUME NEW bt \in boots PROVE BootKnows(bt)'
  <2>1. /\ bt.row.edits \in SUBSET Edits /\ bt.row.rev \in Revisions
        /\ bt.owner \in Users
    BY DEF TypeOK, Boot, Row
  <2> QED BY <2>1 DEF RevisionInv, BootKnows
<1>3. ASSUME NEW r \in orphanSaves PROVE OrphanKnows(r)'
  <2>1. r.profile \in SUBSET Edits /\ r.expected \in Revisions
    BY DEF TypeOK
  <2> QED BY <2>1 DEF RevisionInv, OrphanKnows
<1>4. ASSUME NEW x \in Tabs, save'[x] = save[x] PROVE SaveKnows(x)'
  <2>1. /\ save[x].profile \in SUBSET Edits /\ save[x].expected \in Revisions
        /\ save[x].revision \in Revisions
    BY DEF TypeOK, Save
  <2>2. page[x].profile \in SUBSET Edits
    BY DEF TypeOK, Page
  <2> QED BY <1>4, <2>1, <2>2 DEF RevisionInv, SaveKnows
<1> QED BY <1>1, <1>2, <1>3, <1>4

LEMMA SaveUserProfileKeeps ==
  ASSUME TypeOK, RevisionInv, NEW t \in Tabs, saveUserProfile(t)
  PROVE  /\ RevisionInv'
         /\ \A v \in Users : cloudProfile[v].edits \subseteq cloudProfile'[v].edits
<1> DEFINE s == save[t]
<1>1. /\ s \in Save /\ s.profile \in SUBSET Edits /\ s.expected \in Revisions
      /\ page[t] \in Page
  BY DEF TypeOK, Save
<1>2. /\ s.status = "sent" /\ SaveKnows(t)
      /\ UNCHANGED <<page, boots, orphanSaves>>
  BY DEF saveUserProfile, RevisionInv, orphanVars
<1>3. s.owner \in Users /\ Knows(s.profile, s.expected, s.owner)
  BY <1>2 DEF SaveKnows
<1>4. CASE Matches(cloudProfile[s.owner], s.expected)
  <2>1. /\ cloudProfile' = [cloudProfile EXCEPT ![s.owner] = SavedRow(@, s.profile)]
        /\ save' = [save EXCEPT ![t] = [@ EXCEPT !.status = "saved",
                                                 !.revision = s.expected + 1]]
    BY <1>4 DEF saveUserProfile
  <2>2. cloudProfile[s.owner].rev = s.expected
    BY <1>4 DEF Matches
  <2>3. cloudProfile[s.owner].edits \subseteq s.profile
    BY <1>3, <2>2 DEF Knows
  <2>4. /\ cloudProfile'[s.owner].edits = s.profile
        /\ cloudProfile'[s.owner].rev = s.expected + 1
        /\ \A v \in Users : cloudProfile[v].edits \subseteq cloudProfile'[v].edits
        /\ \A v \in Users, known \in SUBSET Edits, rev \in Revisions :
              Knows(known, rev, v) => Knows(known, rev, v)'
    BY <1>1, <1>3, <2>1, <2>2, <2>3, WriteKeeps
  <2>5. save'[t] = [s EXCEPT !.status = "saved", !.revision = s.expected + 1]
    BY <2>1 DEF TypeOK
  <2>6. /\ save'[t].status = "saved" /\ save'[t].revision = s.expected + 1
        /\ save'[t].owner = s.owner /\ save'[t].generation = s.generation
        /\ save'[t].profile = s.profile
    BY <1>1, <2>5 DEF Save
  <2>7. s.expected + 1 \in Int
    BY <1>1 DEF Revisions, NoRevision
  <2>8. SaveKnows(t)'
    BY <1>2, <2>4, <2>6, <2>7 DEF SaveKnows, Knows
  <2>9. \A x \in Tabs : x # t => save'[x] = save[x]
    BY <2>1 DEF TypeOK
  <2>10. /\ \A x \in Tabs : PageKnows(x)'
         /\ \A bt \in boots : BootKnows(bt)'
         /\ \A r \in orphanSaves : OrphanKnows(r)'
         /\ \A x \in Tabs : x # t => SaveKnows(x)'
    BY <1>2, <2>4, <2>9, CopiesSurviveWrite
  <2> QED BY <1>2, <2>4, <2>8, <2>10 DEF RevisionInv
<1>5. CASE ~Matches(cloudProfile[s.owner], s.expected)
  <2>1. /\ UNCHANGED cloudProfile
        /\ save' = [save EXCEPT ![t] = [@ EXCEPT !.status = "conflict"]]
    BY <1>5 DEF saveUserProfile
  <2>2. save'[t] = [s EXCEPT !.status = "conflict"]
        /\ \A x \in Tabs : x # t => save'[x] = save[x]
    BY <2>1 DEF TypeOK
  <2>3. SaveKnows(t)'
    BY <1>1, <1>2, <2>1, <2>2 DEF SaveKnows, Save
  <2>4. ASSUME NEW x \in Tabs PROVE SaveKnows(x)' /\ PageKnows(x)'
    BY <1>2, <2>1, <2>2, <2>3 DEF RevisionInv, SaveKnows, PageKnows, Knows
  <2>5. \A bt \in boots : BootKnows(bt)'
    BY <1>2, <2>1 DEF RevisionInv, BootKnows, Knows
  <2>6. \A r \in orphanSaves : OrphanKnows(r)'
    BY <1>2, <2>1 DEF RevisionInv, OrphanKnows, Knows
  <2> QED BY <1>2, <2>1, <2>4, <2>5, <2>6 DEF RevisionInv
<1> QED BY <1>4, <1>5

LEMMA OrphanSaveKeeps ==
  ASSUME TypeOK, RevisionInv, NEW r \in orphanSaves, OrphanSave(r)
  PROVE  /\ RevisionInv'
         /\ \A v \in Users : cloudProfile[v].edits \subseteq cloudProfile'[v].edits
<1>1. /\ r.profile \in SUBSET Edits /\ r.expected \in Revisions
      /\ r.owner \in Users /\ Knows(r.profile, r.expected, r.owner)
  BY DEF TypeOK, RevisionInv, OrphanKnows
<1>2. /\ UNCHANGED <<page, boots, save>> /\ orphanSaves' \subseteq orphanSaves
  BY DEF OrphanSave
<1>3. CASE Matches(cloudProfile[r.owner], r.expected)
  <2>1. cloudProfile' = [cloudProfile EXCEPT ![r.owner] = SavedRow(@, r.profile)]
    BY <1>3 DEF OrphanSave
  <2>2. cloudProfile[r.owner].edits \subseteq r.profile
    BY <1>1, <1>3 DEF Matches, Knows
  <2>3. /\ \A v \in Users : cloudProfile[v].edits \subseteq cloudProfile'[v].edits
        /\ \A v \in Users, known \in SUBSET Edits, rev \in Revisions :
              Knows(known, rev, v) => Knows(known, rev, v)'
    BY <1>1, <2>1, <2>2, WriteKeeps
  <2>4. /\ \A x \in Tabs : PageKnows(x)'
        /\ \A bt \in boots : BootKnows(bt)'
        /\ \A other \in orphanSaves : OrphanKnows(other)'
        /\ \A x \in Tabs : SaveKnows(x)'
    BY <1>2, <2>3, CopiesSurviveWrite
  <2> QED BY <1>2, <2>3, <2>4 DEF RevisionInv
<1>4. CASE ~Matches(cloudProfile[r.owner], r.expected)
  <2>1. UNCHANGED cloudProfile
    BY <1>4 DEF OrphanSave
  <2> QED BY <1>2, <2>1 DEF RevisionInv, PageKnows, SaveKnows, BootKnows, OrphanKnows, Knows
<1> QED BY <1>3, <1>4

LEMMA ReloadKeeps ==
  ASSUME TypeOK, RevisionInv, NEW t \in Tabs, Reload(t)
  PROVE  RevisionInv'
<1>1. page[t] \in Page /\ page[t].generation \in Nat
  BY DEF TypeOK, Page
<1>2. /\ \A x \in Tabs : x # t => page'[x] = page[x] /\ save'[x] = save[x]
      /\ page'[t] = FreshPage(prefs[BrowserOf[t]], page[t].generation)
      /\ save'[t] = NoSave
  BY DEF Reload, TypeOK
<1>3. /\ UNCHANGED cloudProfile
      /\ boots' = {bt \in boots : bt.tab # t}
  BY DEF Reload, cloudVars
<1>4. ASSUME NEW x \in Tabs PROVE PageKnows(x)' /\ SaveKnows(x)'
  <2>1. CASE x = t
    BY <1>2, <2>1 DEF PageKnows, SaveKnows, FreshPage, NoSave
  <2>2. CASE x # t
    BY <1>2, <1>3, <2>2 DEF RevisionInv, PageKnows, SaveKnows, Knows
  <2> QED BY <2>1, <2>2
<1>5. ASSUME NEW bt \in boots' PROVE BootKnows(bt)'
  <2>1. bt.tab \in Tabs /\ bt.tab # t /\ bt \in boots
    BY <1>3 DEF TypeOK, Boot
  <2> QED BY <1>2, <1>3, <2>1 DEF RevisionInv, BootKnows, Knows
<1>6. ASSUME NEW r \in orphanSaves' PROVE OrphanKnows(r)'
  <2>1. r \in orphanSaves \/ (save[t].status = "sent" /\ r = Orphan(save[t]))
    BY DEF Reload
  <2>2. OrphanKnows(r)
    BY <2>1, OrphanedKnows DEF RevisionInv
  <2> QED BY <1>3, <2>2 DEF OrphanKnows, Knows
<1> QED BY <1>4, <1>5, <1>6 DEF RevisionInv

-----------------------------------------------------------------------------
(* The theorems *)

(* Every step keeps RevisionInv and every edit a row holds. *)
LEMMA StepKeeps ==
  ASSUME TypeOK, RevisionInv, [Next]_vars
  PROVE  /\ RevisionInv'
         /\ \A u \in Users : cloudProfile[u].edits \subseteq cloudProfile'[u].edits
<1>1. ASSUME NEW t \in Tabs, saveUserProfile(t)
      PROVE  /\ RevisionInv'
             /\ \A u \in Users : cloudProfile[u].edits \subseteq cloudProfile'[u].edits
  BY <1>1, SaveUserProfileKeeps
<1>2. ASSUME NEW r \in orphanSaves, OrphanSave(r)
      PROVE  /\ RevisionInv'
             /\ \A u \in Users : cloudProfile[u].edits \subseteq cloudProfile'[u].edits
  BY <1>2, OrphanSaveKeeps
<1>3. ASSUME NEW t \in Tabs, UserStep(t)
      PROVE  RevisionInv' /\ UNCHANGED cloudProfile
  <2>1. ASSUME NEW u \in Owners, AuthStateChanged(t, u)
        PROVE  RevisionInv' /\ UNCHANGED cloudProfile
    BY <2>1, FrameKeeps DEF AuthStateChanged, orphanVars, cloudVars
  <2>2. ASSUME NEW e \in Edits, updatePlan(t, e)
        PROVE  RevisionInv' /\ UNCHANGED cloudProfile
    BY <2>2, UpdatePlanKeeps DEF updatePlan, cloudVars
  <2>3. ASSUME NEW e \in Edits, LocalAccountOp(t, e)
        PROVE  RevisionInv' /\ UNCHANGED cloudProfile
    BY <2>3, LocalAccountOpKeeps DEF LocalAccountOp, cloudVars
  <2>4. ASSUME NEW e \in Edits, CloudAccountOp(t, e)
        PROVE  RevisionInv' /\ UNCHANGED cloudProfile
    BY <2>4, FrameKeeps DEF CloudAccountOp, orphanVars, cloudVars
  <2>5. ASSUME NEW enabled \in BOOLEAN, setCloudSyncEnabled(t, enabled)
        PROVE  RevisionInv' /\ UNCHANGED cloudProfile
    BY <2>5, SetCloudSyncKeeps DEF setCloudSyncEnabled, cloudVars
  <2>6. CASE RetryCloud(t)
    BY <2>6, RetryCloudKeeps DEF RetryCloud, cloudVars
  <2>7. CASE Reload(t)
    BY <2>7, ReloadKeeps DEF Reload, cloudVars
  <2> QED BY <1>3, <2>1, <2>2, <2>3, <2>4, <2>5, <2>6, <2>7 DEF UserStep
<1>4. ASSUME NEW t \in Tabs, AuthSettled(t)
      PROVE  RevisionInv' /\ UNCHANGED cloudProfile
  BY <1>4, AuthSettledKeeps DEF AuthSettled, cloudVars
<1>5. ASSUME NEW t \in Tabs, SaveStep(t), ~saveUserProfile(t)
      PROVE  RevisionInv' /\ UNCHANGED cloudProfile
  <2>1. CASE flushProfileToDb(t)
    BY <2>1, FlushKeeps DEF flushProfileToDb, cloudVars
  <2>2. CASE SaveLost(t)
    BY <2>2, SaveLostKeeps DEF SaveLost, cloudVars
  <2>3. CASE SaveReply(t)
    BY <2>3, SaveReplyKeeps DEF SaveReply, cloudVars
  <2> QED BY <1>5, <2>1, <2>2, <2>3 DEF SaveStep
<1>6. ASSUME NEW bt \in boots, BootStep(bt)
      PROVE  RevisionInv' /\ UNCHANGED cloudProfile
  <2>1. RevisionInv'
    BY <1>6, BootStepKeeps
  <2>2. UNCHANGED cloudProfile
    BY <1>6 DEF BootStep, GetProfile, GetAccounts, ReadFails, BootstrapResume, cloudVars
  <2> QED BY <2>1, <2>2
<1>7. ASSUME NEW op \in accountOps, AccountOpStep(op)
      PROVE  RevisionInv' /\ UNCHANGED cloudProfile
  <2>1. CASE AccountsReply(op)
    BY <2>1, AccountsReplyKeeps DEF AccountsReply, cloudVars
  <2>2. CASE ApplyAccountOp(op) \/ AccountOpReply(op) \/ ReadAccountsAgain(op)
             \/ AccountOpLost(op)
    <3>1. UNCHANGED <<page, save, boots, orphanSaves, cloudProfile>>
      BY <2>2 DEF ApplyAccountOp, AccountOpReply, ReadAccountsAgain, AccountOpLost,
                  orphanVars, cloudVars
    <3> QED BY <3>1, FrameKeeps
  <2> QED BY <1>7, <2>1, <2>2 DEF AccountOpStep
<1>8. ASSUME NEW r \in orphanOps, OrphanOp(r)
      PROVE  RevisionInv' /\ UNCHANGED cloudProfile
  BY <1>8, FrameKeeps DEF OrphanOp
<1>9. CASE UNCHANGED vars
  BY <1>9, FrameKeeps DEF vars, orphanVars, cloudVars
<1> QED BY <1>1, <1>2, <1>3, <1>4, <1>5, <1>6, <1>7, <1>8, <1>9 DEF Next, SaveStep

(* Before the first bootstrap nothing is known. *)
LEMMA InitRevision == Init => RevisionInv
BY DEF Init, RevisionInv, PageKnows, SaveKnows, FreshPage, NoSave

(* Every copy of a profile that carries the current revision of a row holds  *)
(* all of the row, in every reachable state: bootstrap, flushProfileToDb and *)
(* the revision column written by saveUserProfile agree.                    *)
THEOREM RevisionSafe == Spec => []RevisionInv
<1>1. Init => RevisionInv
  BY InitRevision
<1>2. TypeOK /\ RevisionInv /\ [Next]_vars => RevisionInv'
  BY StepKeeps
<1> QED BY <1>1, <1>2, TypeCorrect, PTL DEF Spec

(* No behaviour of any number of tabs, users, failures and reloads overwrites *)
(* an edit that saveUserProfile has committed.                              *)
THEOREM SavedEditsKept == Spec => NoSavedEditLost
<1>1. TypeOK /\ RevisionInv /\ [Next]_vars
        => [\A u \in Users : cloudProfile[u].edits \subseteq cloudProfile'[u].edits]_vars
  BY StepKeeps
<1> QED BY <1>1, TypeCorrect, RevisionSafe, PTL DEF Spec, NoSavedEditLost

-----------------------------------------------------------------------------
(* Nothing shown is forgotten: what a page has left to flush. *)

(* A page with nothing left to flush, and no reply to wait for, shows only    *)
(* what its row holds.                                                      *)
PageSaved(t) ==
  /\ page[t].cloudAvailable /\ ~page[t].profileDirty
  /\ ~page[t].profileConflictDetected /\ ~SaveInFlight(t)
  => page[t].profile \subseteq cloudProfile[page[t].authUser].edits

(* One that waits for a reply sent everything it shows. *)
FlightHolds(t) ==
  page[t].cloudAvailable /\ ~page[t].profileDirty /\ SaveInFlight(t)
  => page[t].profile \subseteq save[t].profile

(* A row holds what it was given, and what was read of it. *)
SaveLanded(t) ==
  save[t].status = "saved" => save[t].profile \subseteq cloudProfile[save[t].owner].edits
ReadHeld(bt) == bt.profileRead => bt.row.edits \subseteq cloudProfile[bt.owner].edits

SavedInv ==
  /\ \A t \in Tabs : PageSaved(t) /\ FlightHolds(t) /\ SaveLanded(t)
  /\ \A bt \in boots : ReadHeld(bt)


LEMMA SavedIsClean == ASSUME SavedInv PROVE CleanMeansSaved
BY DEF SavedInv, PageSaved, CleanMeansSaved, DataMode

LEMMA InitSaved == Init => SavedInv
BY DEF Init, SavedInv, PageSaved, FlightHolds, SaveLanded, FreshPage, NoSave

RowsGrow == \A u \in Users : cloudProfile[u].edits \subseteq cloudProfile'[u].edits

(* What the copies of a tab say survives while rows only grow. *)
LEMMA TabStays ==
  ASSUME TypeOK, RevisionInv, SavedInv, RowsGrow, NEW t \in Tabs,
         page'[t] = page[t], save'[t] = save[t]
  PROVE  PageSaved(t)' /\ FlightHolds(t)' /\ SaveLanded(t)'
<1>1. page[t].cloudAvailable => page[t].authUser \in Users
  BY DEF RevisionInv, PageKnows
<1>2. save[t].status = "saved" => save[t].owner \in Users
  BY DEF RevisionInv, SaveKnows
<1>3. PageSaved(t) /\ FlightHolds(t) /\ SaveLanded(t)
  BY DEF SavedInv
<1>4. SaveInFlight(t)' <=> SaveInFlight(t)
  BY DEF SaveInFlight
<1> QED BY <1>1, <1>2, <1>3, <1>4 DEF RowsGrow, PageSaved, FlightHolds, SaveLanded

(* What reads hold survives too, and a request not answered holds nothing.   *)
LEMMA ReadsStay ==
  ASSUME TypeOK, SavedInv, RowsGrow, \A bt \in boots' : bt \in boots \/ ~bt.profileRead
  PROVE  \A bt \in boots' : ReadHeld(bt)'
<1> SUFFICES ASSUME NEW bt \in boots', bt.profileRead
             PROVE  bt.row.edits \subseteq cloudProfile'[bt.owner].edits
  BY DEF ReadHeld
<1>1. bt \in boots /\ bt.owner \in Users
  BY DEF TypeOK, Boot
<1>2. ReadHeld(bt)
  BY <1>1 DEF SavedInv
<1> QED BY <1>1, <1>2 DEF ReadHeld, RowsGrow

LEMMA AllStay ==
  ASSUME TypeOK, RevisionInv, SavedInv, RowsGrow, UNCHANGED <<page, save>>,
         \A bt \in boots' : bt \in boots \/ ~bt.profileRead
  PROVE  SavedInv'
<1>1. \A t \in Tabs : PageSaved(t)' /\ FlightHolds(t)' /\ SaveLanded(t)'
  BY TabStays
<1>2. \A bt \in boots' : ReadHeld(bt)'
  BY ReadsStay
<1> QED BY <1>1, <1>2 DEF SavedInv

(* A page that leaves the cloud, or is marked for saving, or changes nothing *)
(* a save is about. *)
Turned(p, q) ==
  \/ ~q.cloudAvailable
  \/ q.profileDirty
  \/ /\ q.cloudAvailable = p.cloudAvailable /\ q.profileDirty = p.profileDirty
     /\ q.profileConflictDetected = p.profileConflictDetected
     /\ q.generation = p.generation /\ q.authUser = p.authUser /\ q.profile = p.profile

LEMMA TurnKeeps ==
  ASSUME TypeOK, RevisionInv, SavedInv, NEW t \in Tabs, NEW q,
         page' = [page EXCEPT ![t] = q], Turned(page[t], q),
         \A bt \in boots' : bt \in boots \/ ~bt.profileRead,
         UNCHANGED <<save, cloudProfile>>
  PROVE  SavedInv'
<1>1. \A x \in Tabs : page'[x] = IF x = t THEN q ELSE page[x]
  BY DEF TypeOK
<1>2. RowsGrow
  BY DEF RowsGrow
<1>3. ASSUME NEW x \in Tabs PROVE PageSaved(x)' /\ FlightHolds(x)' /\ SaveLanded(x)'
  <2>1. CASE x # t
    BY <1>1, <1>2, <2>1, TabStays
  <2>2. CASE x = t
    <3>1. page'[t] = q /\ save'[t] = save[t]
      BY <1>1
    <3>2. PageSaved(t) /\ FlightHolds(t) /\ SaveLanded(t)
      BY DEF SavedInv
    <3>3. SaveLanded(t)'
      BY <3>2 DEF SaveLanded
    <3>4. PageSaved(t)' /\ FlightHolds(t)'
      BY <3>1, <3>2 DEF Turned, PageSaved, FlightHolds, SaveInFlight
    <3> QED BY <2>2, <3>3, <3>4
  <2> QED BY <2>1, <2>2
<1>4. \A bt \in boots' : ReadHeld(bt)'
  BY <1>2, ReadsStay
<1> QED BY <1>3, <1>4 DEF SavedInv

LEMMA BootstrapSaves ==
  ASSUME TypeOK, RevisionInv, SavedInv, NEW t \in Tabs, NEW p \in Page, ~p.cloudAvailable,
         Bootstrap(t, p), UNCHANGED <<save, cloudProfile>>
  PROVE  SavedInv'
<1>1. CASE p.authUser # Anonymous /\ p.cloudAccountReady /\ p.cloudSyncEnabled
  <2>1. /\ page' = [page EXCEPT ![t] = p]
        /\ \A bt \in boots' : bt \in boots \/ ~bt.profileRead
    BY <1>1 DEF Bootstrap
  <2> QED BY <2>1, TurnKeeps DEF Turned
<1>2. CASE ~(p.authUser # Anonymous /\ p.cloudAccountReady /\ p.cloudSyncEnabled)
  <2>1. FinishLocal(t, p) /\ UNCHANGED boots
    BY <1>2 DEF Bootstrap
  <2>2. PICK q \in Page : page' = [page EXCEPT ![t] = q] /\ ~q.cloudAvailable
    BY <2>1, FinishLocalShape
  <2> QED BY <2>1, <2>2, TurnKeeps DEF Turned
<1> QED BY <1>1, <1>2

LEMMA UserStepSaves ==
  ASSUME TypeOK, RevisionInv, SavedInv, NEW t \in Tabs, UserStep(t)
  PROVE  SavedInv'
<1>1. page[t] \in Page /\ page[t].authUser \in Owners /\ page[t].cloudAccountReady \in BOOLEAN
  BY DEF TypeOK, Page
<1>3. CASE (\E u \in Owners : AuthStateChanged(t, u)) \/ \E e \in Edits : CloudAccountOp(t, e)
  <2>1. UNCHANGED <<page, save, boots, cloudProfile>>
    BY <1>3 DEF AuthStateChanged, CloudAccountOp, cloudVars
  <2> QED BY <2>1, AllStay DEF RowsGrow
<1>4. ASSUME NEW e \in Edits, updatePlan(t, e) PROVE SavedInv'
  <2>1. UNCHANGED <<save, boots, cloudProfile>>
    BY <1>4 DEF updatePlan, cloudVars
  <2> DEFINE edited == [page[t] EXCEPT !.profile = page[t].profile \cup {e},
                                       !.profileDirty = TRUE]
  <2>2. PICK saved \in Writes :
          \/ page' = [page EXCEPT ![t] =
               [edited EXCEPT !.localPlanOrigin = "user",
                              !.localPersistenceAvailable = BothSaved(saved)]]
          \/ page' = [page EXCEPT ![t] =
               [edited EXCEPT !.localPersistenceAvailable = TRUE]]
    BY <1>4 DEF updatePlan
  <2>3. PICK q : page' = [page EXCEPT ![t] = q] /\ q.profileDirty
    <3>1. edited \in Page /\ edited.profileDirty
      BY <1>1 DEF Page
    <3>2. [edited EXCEPT !.localPlanOrigin = "user",
             !.localPersistenceAvailable = BothSaved(saved)].profileDirty
      BY <3>1 DEF Page
    <3>3. [edited EXCEPT !.localPersistenceAvailable = TRUE].profileDirty
      BY <3>1 DEF Page
    <3> HIDE DEF edited
    <3> QED BY <2>2, <3>2, <3>3
  <2> QED BY <2>1, <2>3, TurnKeeps DEF Turned
<1>5. ASSUME NEW e \in Edits, LocalAccountOp(t, e) PROVE SavedInv'
  <2>1. UNCHANGED <<save, boots, cloudProfile>>
    BY <1>5 DEF LocalAccountOp, cloudVars
  <2>2. PICK saved \in Writes :
          page' = [page EXCEPT ![t] =
            [page[t] EXCEPT !.accounts = page[t].accounts \cup {e}, !.localPlanOrigin = "user",
                            !.localPersistenceAvailable = BothSaved(saved)]]
    BY <1>5 DEF LocalAccountOp
  <2>3. PICK q : q = [page[t] EXCEPT !.accounts = page[t].accounts \cup {e},
                        !.localPlanOrigin = "user",
                        !.localPersistenceAvailable = BothSaved(saved)]
    OBVIOUS
  <2>4. Turned(page[t], q)
    BY <1>1, <2>3 DEF Turned, Page
  <2> QED BY <2>1, <2>2, <2>3, <2>4, TurnKeeps
<1>6. ASSUME NEW enabled \in BOOLEAN, setCloudSyncEnabled(t, enabled) PROVE SavedInv'
  <2> DEFINE started == Started(t, page[t].authUser, page[t].cloudAccountReady)
  <2>1. UNCHANGED <<save, cloudProfile>>
    BY <1>6 DEF setCloudSyncEnabled, cloudVars
  <2>2. started \in Page /\ ~started.cloudAvailable
    BY <1>1, StartedType, StartedShape
  <2>3. CASE SyncOn(t)
    <3>1. PICK p : p = [started EXCEPT !.cloudSyncEnabled = TRUE]
      OBVIOUS
    <3>2. p \in Page /\ ~p.cloudAvailable
      BY <2>2, <3>1 DEF Page
    <3>3. Bootstrap(t, p)
      BY <2>3, <3>1 DEF SyncOn
    <3> QED BY <2>1, <3>2, <3>3, BootstrapSaves
  <2>4. CASE SyncOff(t)
    <3>1. UNCHANGED boots
      BY <2>4 DEF SyncOff
    <3> DEFINE off == [page[t] EXCEPT !.cloudSyncEnabled = FALSE, !.localPlanOrigin = "user"]
    <3>2. PICK savedAgain \in Writes :
            \/ page' = [page EXCEPT ![t] =
                 [LocalSession(started) EXCEPT !.cloudSyncEnabled = FALSE,
                    !.localPlanOrigin = "user",
                    !.localPersistenceAvailable = BothSaved(savedAgain)]]
            \/ page' = [page EXCEPT ![t] = [off EXCEPT !.localPersistenceAvailable = FALSE]]
      BY <2>4 DEF SyncOff
    <3>3. PICK q : /\ page' = [page EXCEPT ![t] = q]
                   /\ \/ q = [LocalSession(started) EXCEPT !.cloudSyncEnabled = FALSE,
                                !.localPlanOrigin = "user",
                                !.localPersistenceAvailable = BothSaved(savedAgain)]
                      \/ q = [off EXCEPT !.localPersistenceAvailable = FALSE]
      BY <3>2, Zenon
    <3>4. Turned(page[t], q)
      <4>1. LocalSession(started) \in Page /\ ~LocalSession(started).cloudAvailable
        BY <2>2, LocalSessionType DEF LocalSession, Page
      <4>2. off \in Page /\ Turned(page[t], off)
        BY <1>1 DEF Page, Turned
      <4> HIDE DEF off, started
      <4>3. CASE q = [LocalSession(started) EXCEPT !.cloudSyncEnabled = FALSE,
                        !.localPlanOrigin = "user",
                        !.localPersistenceAvailable = BothSaved(savedAgain)]
        <5>1. ~q.cloudAvailable
          BY <4>1, <4>3 DEF Page
        <5> QED BY <5>1 DEF Turned
      <4>4. CASE q = [off EXCEPT !.localPersistenceAvailable = FALSE]
        BY <4>2, <4>4 DEF Turned, Page
      <4> QED BY <3>3, <4>3, <4>4
    <3> QED BY <2>1, <3>1, <3>3, <3>4, TurnKeeps
  <2> QED BY <1>6, <2>3, <2>4 DEF setCloudSyncEnabled
<1>7. CASE RetryCloud(t)
  <2>1. /\ UNCHANGED <<save, cloudProfile>>
        /\ Bootstrap(t, Started(t, page[t].authUser, TRUE))
    BY <1>7 DEF RetryCloud, cloudVars
  <2>2. /\ Started(t, page[t].authUser, TRUE) \in Page
        /\ ~Started(t, page[t].authUser, TRUE).cloudAvailable
    BY <1>1, StartedType, StartedShape
  <2> QED BY <2>1, <2>2, BootstrapSaves
<1>8. CASE Reload(t)
  <2>1. /\ \A x \in Tabs : x # t => page'[x] = page[x] /\ save'[x] = save[x]
        /\ page'[t] = FreshPage(prefs[BrowserOf[t]], page[t].generation)
        /\ save'[t] = NoSave
    BY <1>8 DEF Reload, TypeOK
  <2>2. RowsGrow /\ \A bt \in boots' : bt \in boots
    BY <1>8 DEF Reload, cloudVars, RowsGrow
  <2>3. ASSUME NEW x \in Tabs PROVE PageSaved(x)' /\ FlightHolds(x)' /\ SaveLanded(x)'
    <3>1. CASE x # t
      BY <2>1, <2>2, <3>1, TabStays
    <3>2. CASE x = t
      <4>1. ~page'[t].cloudAvailable /\ save'[t].status = "none"
        BY <2>1 DEF FreshPage, NoSave
      <4> QED BY <3>2, <4>1 DEF PageSaved, FlightHolds, SaveLanded
    <3> QED BY <3>1, <3>2
  <2> QED BY <2>2, <2>3, ReadsStay DEF SavedInv
<1> QED BY <1>3, <1>4, <1>5, <1>6, <1>7, <1>8 DEF UserStep

LEMMA SettledSaves ==
  ASSUME TypeOK, RevisionInv, SavedInv, NEW t \in Tabs, AuthSettled(t)
  PROVE  SavedInv'
<1>1. fbUser[t] \in Owners
  BY DEF TypeOK
<1>2. UNCHANGED <<save, cloudProfile>>
  BY DEF AuthSettled, cloudVars
<1>3. PICK ready \in BOOLEAN : Bootstrap(t, Started(t, fbUser[t], ready))
  BY DEF AuthSettled
<1>4. Started(t, fbUser[t], ready) \in Page /\ ~Started(t, fbUser[t], ready).cloudAvailable
  BY <1>1, StartedType, StartedShape
<1> QED BY <1>2, <1>3, <1>4, BootstrapSaves

LEMMA ReadSaves ==
  ASSUME TypeOK, RevisionInv, SavedInv, NEW bt \in boots, NEW new,
         boots' = Replace(boots, bt, new), new.owner = bt.owner,
         \/ new.profileRead = bt.profileRead /\ new.row = bt.row
         \/ new.row = cloudProfile[bt.owner],
         UNCHANGED <<page, save, cloudProfile>>
  PROVE  SavedInv'
<1>1. RowsGrow
  BY DEF RowsGrow
<1>2. \A t \in Tabs : PageSaved(t)' /\ FlightHolds(t)' /\ SaveLanded(t)'
  BY <1>1, TabStays
<1>3. ASSUME NEW x \in boots' PROVE ReadHeld(x)'
  <2>1. x = new \/ x \in boots
    BY DEF Replace
  <2>2. ReadHeld(bt) /\ (x \in boots => ReadHeld(x))
    BY DEF SavedInv
  <2> QED BY <2>1, <2>2 DEF ReadHeld
<1> QED BY <1>2, <1>3 DEF SavedInv

LEMMA BootStepSaves ==
  ASSUME TypeOK, RevisionInv, SavedInv, NEW bt \in boots, BootStep(bt)
  PROVE  SavedInv'
<1>1. bt \in Boot /\ bt.tab \in Tabs /\ bt.owner \in Users /\ page[bt.tab] \in Page
  BY DEF TypeOK, Boot
<1>2. CASE GetProfile(bt)
  <2>1. PICK new : new = [bt EXCEPT !.profileRead = TRUE, !.row = cloudProfile[bt.owner]]
    OBVIOUS
  <2>2. new.owner = bt.owner /\ new.row = cloudProfile[bt.owner]
    BY <1>1, <2>1 DEF Boot
  <2>3. boots' = Replace(boots, bt, new) /\ UNCHANGED <<page, save, cloudProfile>>
    BY <1>2, <2>1 DEF GetProfile, cloudVars
  <2> QED BY <2>2, <2>3, ReadSaves
<1>3. CASE GetAccounts(bt)
  <2>1. PICK new : new = [bt EXCEPT !.accountsRead = TRUE, !.accounts = cloudAccounts[bt.owner]]
    OBVIOUS
  <2>2. new.owner = bt.owner /\ new.profileRead = bt.profileRead /\ new.row = bt.row
    BY <1>1, <2>1 DEF Boot
  <2>3. boots' = Replace(boots, bt, new) /\ UNCHANGED <<page, save, cloudProfile>>
    BY <1>3, <2>1 DEF GetAccounts, cloudVars
  <2> QED BY <2>2, <2>3, ReadSaves
<1>4. CASE ReadFails(bt)
  <2>1. PICK new : new = [bt EXCEPT !.failed = TRUE]
    OBVIOUS
  <2>2. new.owner = bt.owner /\ new.profileRead = bt.profileRead /\ new.row = bt.row
    BY <1>1, <2>1 DEF Boot
  <2>3. boots' = Replace(boots, bt, new) /\ UNCHANGED <<page, save, cloudProfile>>
    BY <1>4, <2>1 DEF ReadFails, cloudVars
  <2> QED BY <2>2, <2>3, ReadSaves
<1>5. CASE BootstrapResume(bt)
  <2> DEFINE t == bt.tab
  <2>1. boots' \subseteq boots /\ UNCHANGED <<save, cloudProfile>>
    BY <1>5 DEF BootstrapResume, cloudVars
  <2>2. RowsGrow
    BY <2>1 DEF RowsGrow
  <2>3. CASE Superseded(bt) /\ UNCHANGED page
    BY <2>1, <2>2, <2>3, AllStay
  <2>4. CASE /\ ~Superseded(bt) /\ ~bt.failed
             /\ FinishCloud(t, page[t], bt.row, bt.accounts)
    <3>1. PICK q : q = [page[t] EXCEPT !.profile = bt.row.edits, !.accounts = bt.accounts,
                          !.cloudAvailable = TRUE, !.profileRevision = bt.row.rev,
                          !.localPlanOrigin = "user", !.localPersistenceAvailable = TRUE,
                          !.bootstrapped = TRUE,
                          !.profileDirty = @ \/ bt.row.schema = "older"]
      OBVIOUS
    <3>2. page' = [page EXCEPT ![t] = q]
      BY <2>4, <3>1 DEF FinishCloud
    <3>3. /\ q.profile = bt.row.edits /\ q.authUser = page[t].authUser
          /\ q.generation = page[t].generation
      BY <1>1, <3>1 DEF Page
    <3>4. \A x \in Tabs : page'[x] = IF x = t THEN q ELSE page[x]
      BY <1>1, <3>2 DEF TypeOK
    <3>5. BootKnows(bt) /\ SaveKnows(t) /\ ReadHeld(bt) /\ SaveLanded(t)
      BY <1>1 DEF RevisionInv, SavedInv
    <3>6. bt.owner = page[t].authUser /\ ~page[t].bootstrapped
      BY <2>4, <3>5 DEF Superseded, BootKnows
    <3>7. ~SaveInFlight(t)
      BY <3>5, <3>6 DEF SaveKnows, SaveInFlight
    <3>8. bt.row.edits \subseteq cloudProfile[page[t].authUser].edits
      BY <1>5, <2>4, <3>5, <3>6 DEF BootstrapResume, ReadsSettled, ReadHeld
    <3>9. PageSaved(t)' /\ FlightHolds(t)' /\ SaveLanded(t)'
      <4>1. page'[t] = q /\ save'[t] = save[t]
        BY <1>1, <2>1, <3>4
      <4>2. ~SaveInFlight(t)'
        BY <3>3, <3>7, <4>1 DEF SaveInFlight
      <4> QED BY <2>1, <3>3, <3>5, <3>8, <4>1, <4>2 DEF PageSaved, FlightHolds, SaveLanded
    <3>10. \A x \in Tabs : PageSaved(x)' /\ FlightHolds(x)' /\ SaveLanded(x)'
      BY <2>1, <2>2, <3>4, <3>9, TabStays
    <3> QED BY <2>1, <2>2, <3>10, ReadsStay DEF SavedInv
  <2>5. CASE FinishLocal(t, page[t])
    <3>1. PICK q \in Page : page' = [page EXCEPT ![t] = q] /\ ~q.cloudAvailable
      BY <1>1, <2>5, FinishLocalShape
    <3> QED BY <1>1, <2>1, <3>1, TurnKeeps DEF Turned
  <2> QED BY <1>5, <2>3, <2>4, <2>5 DEF BootstrapResume
<1> QED BY <1>2, <1>3, <1>4, <1>5 DEF BootStep

(* One tab's save moves on. *)
LEMMA SaveTurns ==
  ASSUME TypeOK, RevisionInv, SavedInv, RowsGrow, boots' = boots, NEW t \in Tabs,
         \A x \in Tabs : x # t => page'[x] = page[x] /\ save'[x] = save[x],
         PageSaved(t)', FlightHolds(t)', SaveLanded(t)'
  PROVE  SavedInv'
<1>1. \A x \in Tabs : PageSaved(x)' /\ FlightHolds(x)' /\ SaveLanded(x)'
  BY TabStays
<1> QED BY <1>1, ReadsStay DEF SavedInv

LEMMA FlushSaves ==
  ASSUME TypeOK, RevisionInv, SavedInv, NEW t \in Tabs, flushProfileToDb(t)
  PROVE  SavedInv'
<1>1. page[t] \in Page
  BY DEF TypeOK
<1>2. /\ \A x \in Tabs : x # t => page'[x] = page[x] /\ save'[x] = save[x]
      /\ page'[t] = [page[t] EXCEPT !.profileDirty = FALSE]
      /\ save'[t] = [status |-> "sent", owner |-> page[t].authUser,
           generation |-> page[t].generation, profile |-> page[t].profile,
           expected |-> page[t].profileRevision, revision |-> NoRevision]
      /\ boots' = boots /\ RowsGrow
  BY DEF flushProfileToDb, TypeOK, cloudVars, RowsGrow
<1>3. page'[t].generation = page[t].generation /\ page'[t].profile = page[t].profile
  BY <1>1, <1>2 DEF Page
<1>4. /\ save'[t].status = "sent" /\ save'[t].generation = page[t].generation
      /\ save'[t].profile = page[t].profile
  BY <1>2
<1>5. PageSaved(t)' /\ FlightHolds(t)' /\ SaveLanded(t)'
  BY <1>3, <1>4 DEF PageSaved, FlightHolds, SaveLanded, SaveInFlight
<1> QED BY <1>2, <1>5, SaveTurns

LEMMA SaveLostSaves ==
  ASSUME TypeOK, RevisionInv, SavedInv, NEW t \in Tabs, SaveLost(t)
  PROVE  SavedInv'
<1>1. save[t] \in Save
  BY DEF TypeOK
<1>2. /\ \A x \in Tabs : x # t => page'[x] = page[x] /\ save'[x] = save[x]
      /\ page'[t] = page[t] /\ save'[t] = [save[t] EXCEPT !.status = "failed"]
      /\ boots' = boots /\ RowsGrow
  BY DEF SaveLost, TypeOK, cloudVars, RowsGrow
<1>3. /\ save'[t].status = "failed" /\ save'[t].generation = save[t].generation
      /\ save'[t].profile = save[t].profile
  BY <1>1, <1>2 DEF Save
<1>4. SaveInFlight(t)' <=> SaveInFlight(t)
  BY <1>2, <1>3 DEF SaveInFlight, SaveLost
<1>5. PageSaved(t) /\ FlightHolds(t)
  BY DEF SavedInv
<1>6. page[t].cloudAvailable => page[t].authUser \in Users
  BY DEF RevisionInv, PageKnows
<1>7. PageSaved(t)' /\ FlightHolds(t)' /\ SaveLanded(t)'
  BY <1>2, <1>3, <1>4, <1>5, <1>6 DEF PageSaved, FlightHolds, SaveLanded, RowsGrow
<1> QED BY <1>2, <1>7, SaveTurns

LEMMA SaveUserProfileSaves ==
  ASSUME TypeOK, RevisionInv, SavedInv, NEW t \in Tabs, saveUserProfile(t)
  PROVE  SavedInv'
<1>1. save[t] \in Save /\ save[t].status = "sent"
  BY DEF TypeOK, saveUserProfile
<1>2. RowsGrow /\ page' = page /\ boots' = boots
  BY SaveUserProfileKeeps DEF RowsGrow, saveUserProfile
<1>3. save[t].owner \in Users
  BY <1>1 DEF RevisionInv, SaveKnows
<1>4. PICK s : s = save'[t]
  OBVIOUS
<1>5. /\ s.status \in {"saved", "conflict"} /\ s.generation = save[t].generation
      /\ s.profile = save[t].profile /\ s.owner = save[t].owner
      /\ \A x \in Tabs : x # t => save'[x] = save[x]
      /\ s.status = "saved" => cloudProfile'[s.owner].edits = s.profile
  <2>1. CASE Matches(cloudProfile[save[t].owner], save[t].expected)
    <3>1. /\ cloudProfile' =
               [cloudProfile EXCEPT ![save[t].owner] = SavedRow(@, save[t].profile)]
          /\ save' = [save EXCEPT ![t] = [@ EXCEPT !.status = "saved",
                                                   !.revision = save[t].expected + 1]]
      BY <2>1 DEF saveUserProfile
    <3>2. cloudProfile'[save[t].owner].edits = save[t].profile
      BY <1>3, <3>1 DEF TypeOK, SavedRow
    <3>3. s = [save[t] EXCEPT !.status = "saved", !.revision = save[t].expected + 1]
          /\ \A x \in Tabs : x # t => save'[x] = save[x]
      BY <1>4, <3>1 DEF TypeOK
    <3> QED BY <1>1, <3>2, <3>3 DEF Save
  <2>2. CASE ~Matches(cloudProfile[save[t].owner], save[t].expected)
    <3>1. save' = [save EXCEPT ![t] = [@ EXCEPT !.status = "conflict"]]
      BY <2>2 DEF saveUserProfile
    <3>2. s = [save[t] EXCEPT !.status = "conflict"]
          /\ \A x \in Tabs : x # t => save'[x] = save[x]
      BY <1>4, <3>1 DEF TypeOK
    <3> QED BY <1>1, <3>2 DEF Save
  <2> QED BY <2>1, <2>2
<1>6. SaveInFlight(t)' <=> SaveInFlight(t)
  BY <1>1, <1>2, <1>4, <1>5 DEF SaveInFlight
<1>7. PageSaved(t) /\ FlightHolds(t)
  BY DEF SavedInv
<1>8. page[t].cloudAvailable => page[t].authUser \in Users
  BY DEF RevisionInv, PageKnows
<1>9. PageSaved(t)' /\ FlightHolds(t)' /\ SaveLanded(t)'
  BY <1>2, <1>4, <1>5, <1>6, <1>7, <1>8 DEF PageSaved, FlightHolds, SaveLanded, RowsGrow
<1> QED BY <1>2, <1>5, <1>9, SaveTurns

(* The reply of this generation either says what it sent is in the row, or   *)
(* stops saving, or is tried again.                                         *)
LEMMA SaveReplySaves ==
  ASSUME TypeOK, RevisionInv, SavedInv, NEW t \in Tabs, SaveReply(t)
  PROVE  SavedInv'
<1> DEFINE s == save[t]
           p == page[t]
<1>1. p \in Page /\ s \in Save /\ s.status \in {"saved", "conflict", "failed"}
  BY DEF TypeOK, SaveReply
<1>2. /\ \A x \in Tabs : x # t => page'[x] = page[x] /\ save'[x] = save[x]
      /\ page'[t] = IF ReplyIsCurrent(t) THEN AfterReply(p, s) ELSE p
      /\ save'[t] = NoSave /\ boots' = boots /\ UNCHANGED cloudProfile
  BY DEF SaveReply, TypeOK, cloudVars
<1>3. RowsGrow /\ save'[t].status = "none"
  BY <1>2 DEF RowsGrow, NoSave
<1>4. PageSaved(t) /\ FlightHolds(t) /\ SaveLanded(t) /\ SaveKnows(t)
  BY DEF SavedInv, RevisionInv
<1>5. FlightHolds(t)' /\ SaveLanded(t)' /\ ~SaveInFlight(t)'
  BY <1>3 DEF FlightHolds, SaveLanded, SaveInFlight
<1>6. PageSaved(t)'
  <2>1. CASE ~ReplyIsCurrent(t)
    <3>1. ~SaveInFlight(t)
      BY <1>1, <1>4, <2>1 DEF SaveInFlight, SaveKnows, ReplyIsCurrent
    <3>2. page'[t] = p
      BY <1>2, <2>1
    <3> QED BY <1>2, <1>4, <3>1, <3>2 DEF PageSaved
  <2>2. CASE ReplyIsCurrent(t)
    <3>1. PICK q : q = AfterReply(p, s) /\ q = page'[t]
      BY <1>2, <2>2
    <3>2. SaveInFlight(t) /\ s.owner = p.authUser
      BY <1>1, <2>2 DEF SaveInFlight, ReplyIsCurrent
    <3>3. CASE s.status = "saved"
      <4>1. q = [p EXCEPT !.profileRevision = s.revision]
        BY <3>1, <3>3 DEF AfterReply
      <4>2. /\ q.cloudAvailable = p.cloudAvailable /\ q.profileDirty = p.profileDirty
            /\ q.profile = p.profile /\ q.authUser = p.authUser
        BY <1>1, <4>1 DEF Page
      <4>3. s.profile \subseteq cloudProfile[p.authUser].edits
        BY <1>4, <3>2, <3>3 DEF SaveLanded
      <4>4. p.cloudAvailable /\ ~p.profileDirty => p.profile \subseteq s.profile
        BY <1>4, <3>2 DEF FlightHolds
      <4> QED BY <1>2, <3>1, <4>2, <4>3, <4>4 DEF PageSaved
    <3>4. CASE s.status = "conflict"
      <4>1. q = [p EXCEPT !.profileConflictDetected = TRUE]
        BY <3>1, <3>4 DEF AfterReply
      <4>2. q.profileConflictDetected
        BY <1>1, <4>1 DEF Page
      <4> QED BY <3>1, <4>2 DEF PageSaved
    <3>5. CASE s.status = "failed"
      <4>1. q = [p EXCEPT !.profileDirty = TRUE]
        BY <3>1, <3>5 DEF AfterReply
      <4>2. q.profileDirty
        BY <1>1, <4>1 DEF Page
      <4> QED BY <3>1, <4>2 DEF PageSaved
    <3> QED BY <1>1, <3>3, <3>4, <3>5
  <2> QED BY <2>1, <2>2
<1> QED BY <1>2, <1>3, <1>5, <1>6, SaveTurns

LEMMA AccountsReplySaves ==
  ASSUME TypeOK, RevisionInv, SavedInv, NEW op \in accountOps, AccountsReply(op)
  PROVE  SavedInv'
<1>1. op.tab \in Tabs /\ page[op.tab] \in Page
  BY DEF TypeOK, AccountOp
<1>2. UNCHANGED <<save, boots, cloudProfile>>
  BY DEF AccountsReply, cloudVars
<1>3. CASE page[op.tab].authUser = op.owner
  <2>1. PICK q : /\ q = [page[op.tab] EXCEPT !.accounts = op.accounts,
                           !.localPlanOrigin = "user", !.localPersistenceAvailable = TRUE]
                 /\ page' = [page EXCEPT ![op.tab] = q]
    BY <1>3 DEF AccountsReply
  <2>2. Turned(page[op.tab], q)
    BY <1>1, <2>1 DEF Turned, Page
  <2> QED BY <1>1, <1>2, <2>1, <2>2, TurnKeeps
<1>4. CASE page[op.tab].authUser # op.owner
  BY <1>2, <1>4, AllStay DEF AccountsReply, RowsGrow
<1> QED BY <1>3, <1>4

LEMMA StepSaves ==
  ASSUME TypeOK, RevisionInv, SavedInv, [Next]_vars
  PROVE  SavedInv'
<1>1. ASSUME NEW t \in Tabs, SaveStep(t) PROVE SavedInv'
  BY <1>1, FlushSaves, SaveUserProfileSaves, SaveLostSaves, SaveReplySaves DEF SaveStep
<1>2. ASSUME NEW r \in orphanSaves, OrphanSave(r) PROVE SavedInv'
  <2>1. RowsGrow /\ UNCHANGED <<page, save, boots>>
    BY <1>2, OrphanSaveKeeps DEF RowsGrow, OrphanSave
  <2> QED BY <2>1, AllStay
<1>3. ASSUME NEW op \in accountOps, AccountOpStep(op) PROVE SavedInv'
  <2>1. CASE AccountsReply(op)
    BY <2>1, AccountsReplySaves
  <2>2. CASE ApplyAccountOp(op) \/ AccountOpReply(op) \/ ReadAccountsAgain(op)
             \/ AccountOpLost(op)
    <3>1. UNCHANGED <<page, save, boots, cloudProfile>>
      BY <2>2 DEF ApplyAccountOp, AccountOpReply, ReadAccountsAgain, AccountOpLost, cloudVars
    <3> QED BY <3>1, AllStay DEF RowsGrow
  <2> QED BY <1>3, <2>1, <2>2 DEF AccountOpStep
<1>4. ASSUME NEW r \in orphanOps, OrphanOp(r) PROVE SavedInv'
  <2>1. UNCHANGED <<page, save, boots, cloudProfile>>
    BY <1>4 DEF OrphanOp
  <2> QED BY <2>1, AllStay DEF RowsGrow
<1>5. CASE UNCHANGED vars
  <2>1. UNCHANGED <<page, save, boots, cloudProfile>>
    BY <1>5 DEF vars, cloudVars
  <2> QED BY <2>1, AllStay DEF RowsGrow
<1> QED BY <1>1, <1>2, <1>3, <1>4, <1>5, UserStepSaves, SettledSaves, BootStepSaves DEF Next

(* A cloud session that has nothing left to flush, waits for no reply and    *)
(* shows no conflict has all it shows in its row, in every reachable state:  *)
(* flushProfileToDb clears profileDirty before its await and no late, lost or *)
(* failed reply leaves an edit behind.                                      *)
THEOREM CleanIsSaved == Spec => []CleanMeansSaved
<1>1. Init => SavedInv
  BY InitSaved
<1>2. TypeOK /\ RevisionInv /\ SavedInv /\ [Next]_vars => SavedInv'
  BY StepSaves
<1>3. SavedInv => CleanMeansSaved
  BY SavedIsClean
<1> QED BY <1>1, <1>2, <1>3, TypeCorrect, RevisionSafe, PTL DEF Spec

=============================================================================
