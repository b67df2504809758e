----------------------------- MODULE PlanEditor -----------------------------
(* What a person types and where it lands: the gate of app/page.tsx that     *)
(* decides when the pages are on screen, the account editor of accounts.tsx  *)
(* and the dollar and number fields of profile.tsx. A draft lives in its     *)
(* page's component and dies with it; what is committed goes to the plan in  *)
(* the store, which is replaced whenever a bootstrap ends.                   *)
EXTENDS Naturals, FiniteSets

CONSTANTS
  Users, NoUser,
  Ids, NewId,      \* accounts, and the editor that creates one
  Texts, Blank,    \* what an account's fields can hold, and a missing name
  Typed,           \* amounts that can be typed
  Legal,           \* those the plan schema accepts, an interval
  Gone,            \* no account
  MaxOpens,        \* bound: mounted pages and opened editors
  MaxCalls         \* bound: account calls in flight

Owners == Users \cup {NoUser}
None == [is |-> "none"]

ASSUME EditorAssumption ==
  NoUser \notin Users /\ Texts # {} /\ \E a, b \in Legal : a # b

PageNames == {"accounts", "profile", "settings"}
Plan == [amount : Legal, accounts : [Ids -> Texts \cup {Gone}]]

VARIABLES
  auth,     \* AuthProvider: user, cloudReady, loading, and whom it is syncing
  store,    \* usePlan: authUser, bootstrapped, cloudSyncEnabled, mode and the plan
  home,     \* app/page.tsx: whether the pages are mounted, which, the effect's last inputs
  editor,   \* the account editor and its draft
  field,    \* the focused field of the profile page and its draft
  calls,    \* account calls in flight
  commit    \* the last value that was committed, and what it was typed for

editorVars == <<auth, store, home, editor, field, calls, commit>>

(* The plan a person without an account starts with.                         *)
Starter == [amount |-> CHOOSE a \in Legal : TRUE, accounts |-> [i \in Ids |-> Gone]]

(* Plans a load may bring: what this or another device has stored.           *)
Stored == {Starter, [amount |-> CHOOSE a \in Legal : a # Starter.amount,
                     accounts |-> [i \in Ids |-> CHOOSE t \in Texts : TRUE]]}

EditorInit ==
  /\ auth = [user |-> NoUser, ready |-> FALSE, loading |-> FALSE, next |-> NoUser]
  /\ store = [owner |-> NoUser, bootstrapped |-> TRUE, sync |-> TRUE, cloud |-> FALSE,
              plan |-> Starter]
  /\ home = [mounted |-> TRUE, page |-> "accounts", instance |-> 1, seen |-> <<NoUser, FALSE, FALSE>>]
  /\ editor = None /\ field = None /\ calls = {} /\ commit = None

-----------------------------------------------------------------------------
(* The gate and the bootstrap effect.                                        *)

(* A bug: the pages stay while a bootstrap reads the cloud.                  *)
Open_WhileLoading(a, s) == ~a.loading /\ s.owner = a.user

Open(a, s) == ~a.loading /\ s.bootstrapped /\ s.owner = a.user

(* bootstrap: a cloud load is awaited; a browser load is done at once.       *)
Bootstrapped(s, user, ready) ==
  IF user # NoUser /\ ready /\ s.sync
  THEN {[s EXCEPT !.owner = user, !.cloud = FALSE, !.bootstrapped = FALSE]}
  ELSE {[s EXCEPT !.owner = user, !.cloud = FALSE, !.bootstrapped = TRUE, !.plan = p] : p \in Stored}

(* React renders with the new state and runs the effect when its inputs have *)
(* changed; the bootstrap's own updates render once more. A page that was    *)
(* unmounted on the way comes back as a new instance, without drafts.        *)
Renders(a, s) ==
  LET inputs == <<a.user, a.ready, a.loading>>
      Effect == IF inputs # home.seen /\ ~a.loading THEN Bootstrapped(s, a.user, a.ready) ELSE {s}
  IN  \E t \in Effect :
        LET kept == home.mounted /\ Open(a, s) /\ Open(a, t)
        IN  /\ auth' = a
            /\ store' = t
            /\ home' = [home EXCEPT !.mounted = Open(a, t), !.seen = inputs,
                          !.instance = IF kept THEN @ ELSE @ + 1]
            /\ editor' = IF kept THEN editor ELSE None
            /\ field' = IF kept THEN field ELSE None

(* onAuthStateChanged: a user is synced before it is exposed; no user is     *)
(* exposed at once.                                                          *)
AuthStateChanged ==
  /\ home.instance < MaxOpens
  /\ \E next \in Owners :
       Renders(IF next = NoUser
               THEN [user |-> NoUser, ready |-> FALSE, loading |-> FALSE, next |-> NoUser]
               ELSE [auth EXCEPT !.ready = FALSE, !.loading = TRUE, !.next = next], store)
  /\ UNCHANGED <<calls, commit>>

AuthSettles ==
  /\ auth.loading
  /\ \E ready \in BOOLEAN :
       Renders([auth EXCEPT !.user = auth.next, !.ready = ready, !.loading = FALSE], store)
  /\ UNCHANGED <<calls, commit>>

(* The cloud load ends, with the cloud's plan or the browser's.              *)
LoadEnds ==
  /\ ~store.bootstrapped
  /\ \E p \in Stored, read \in BOOLEAN :
       Renders(auth, [store EXCEPT !.bootstrapped = TRUE, !.cloud = read, !.plan = p])
  /\ UNCHANGED <<calls, commit>>

(* Settings: the storage switch, which a session without a cloud row cannot  *)
(* use, and the button that reads the cloud again.                           *)
ToggleSync ==
  /\ home.mounted /\ home.page = "settings" /\ auth.user # NoUser /\ auth.ready
  /\ home.instance < MaxOpens
  /\ \E t \in Bootstrapped([store EXCEPT !.sync = ~@], store.owner, auth.ready) : Renders(auth, t)
  /\ UNCHANGED <<calls, commit>>

RetryCloud ==
  /\ home.mounted /\ home.page = "settings" /\ auth.user # NoUser /\ auth.ready
  /\ store.sync /\ ~store.cloud /\ home.instance < MaxOpens
  /\ \E t \in Bootstrapped(store, store.owner, TRUE) : Renders(auth, t)
  /\ UNCHANGED <<calls, commit>>

Navigate(page) ==
  /\ home.mounted /\ home.page # page /\ home.instance < MaxOpens
  /\ home' = [home EXCEPT !.page = page, !.instance = @ + 1]
  /\ editor' = None /\ field' = None
  /\ UNCHANGED <<auth, store, calls, commit>>

-----------------------------------------------------------------------------
(* The account editor. A draft remembers, for the property only, the owner   *)
(* and the account it was opened for.                                        *)

OnAccounts == home.mounted /\ home.page = "accounts"
Held == {i \in Ids : store.plan.accounts[i] # Gone}

OpenedWith(id, text) ==
  [is |-> "open", id |-> id, text |-> text, from |-> store.owner, for |-> id]

openCreate ==
  /\ OnAccounts /\ Held # Ids
  /\ editor' = OpenedWith(NewId, Blank)
  /\ UNCHANGED <<auth, store, home, field, calls, commit>>

openEdit(id) ==
  /\ OnAccounts /\ id \in Held
  /\ editor' = OpenedWith(id, store.plan.accounts[id])
  /\ UNCHANGED <<auth, store, home, field, calls, commit>>

TypeAccount(text) ==
  /\ OnAccounts /\ editor # None /\ editor.text # text
  /\ editor' = [editor EXCEPT !.text = text]
  /\ UNCHANGED <<auth, store, home, field, calls, commit>>

closeEditor ==
  /\ OnAccounts /\ editor # None
  /\ editor' = None
  /\ UNCHANGED <<auth, store, home, field, calls, commit>>

WrittenAccounts(accounts, id, text) ==
  IF id = NewId THEN {[accounts EXCEPT ![i] = text] : i \in {i \in Ids : accounts[i] = Gone}}
  ELSE {[accounts EXCEPT ![id] = IF @ = Gone THEN Gone ELSE text]}

Committed(text) ==
  commit' = [is |-> "account", owner |-> store.owner, id |-> editor.id,
             from |-> editor.from, for |-> editor.for, untouched |-> FALSE, changed |-> FALSE]

(* handleSubmit and handleDelete: the browser's plan is written at once and  *)
(* the editor closes; the cloud is asked, and the editor stays open until it *)
(* has answered, whatever is opened in it meanwhile.                         *)
Send(text) ==
  /\ OnAccounts /\ editor # None
  /\ Committed(text)
  /\ IF store.cloud
     THEN /\ Cardinality(calls) < MaxCalls
          /\ calls' = calls \cup {[owner |-> store.owner, id |-> editor.id, text |-> text,
                                   instance |-> home.instance]}
          /\ UNCHANGED <<store, editor>>
     ELSE /\ \/ \E accounts \in WrittenAccounts(store.plan.accounts, editor.id, text) :
                  store' = [store EXCEPT !.plan.accounts = accounts]
             \/ WrittenAccounts(store.plan.accounts, editor.id, text) = {} /\ UNCHANGED store
          /\ editor' = None
          /\ UNCHANGED calls
  /\ UNCHANGED <<auth, home, field>>

handleSubmit == editor # None /\ editor.text # Blank /\ Send(editor.text)
handleDelete == editor # None /\ editor.id # NewId /\ Send(Gone)

(* A call that failed leaves the editor open. The answer of one that did not *)
(* brings the list of accounts, unless another owner has come, and closes    *)
(* the editor of the instance that asked.                                    *)
CallReturns(c) ==
  /\ calls' = calls \ {c}
  /\ \/ UNCHANGED <<store, editor>>
     \/ /\ IF store.owner = c.owner
           THEN \/ \E accounts \in WrittenAccounts(store.plan.accounts, c.id, c.text) :
                     store' = [store EXCEPT !.plan.accounts = accounts]
                \/ WrittenAccounts(store.plan.accounts, c.id, c.text) = {} /\ UNCHANGED store
           ELSE UNCHANGED store
        /\ editor' = IF c.instance = home.instance THEN None ELSE editor
  /\ UNCHANGED <<auth, home, field, commit>>

-----------------------------------------------------------------------------
(* The fields of the profile page.                                           *)

OnProfile == home.mounted /\ home.page = "profile"

(* updatePlan: the schema refuses an amount out of range.                    *)
Commits(value, typed) ==
  /\ store' = IF value \in Legal THEN [store EXCEPT !.plan.amount = value] ELSE store
  /\ commit' = [is |-> "amount", owner |-> store.owner, id |-> NewId,
                from |-> field.from, for |-> NewId, untouched |-> ~typed,
                changed |-> value # store.plan.amount]

(* CurrencyField takes the value into its draft on focus; NumberField has    *)
(* none until something is typed.                                            *)
Focus(kind) ==
  /\ OnProfile /\ field = None
  /\ field' = [is |-> kind, text |-> store.plan.amount, typed |-> FALSE, from |-> store.owner]
  /\ UNCHANGED <<auth, store, home, editor, calls, commit>>

(* NumberField commits what is in range while it is typed.                   *)
TypeField(value) ==
  /\ OnProfile /\ field # None /\ (field.typed => field.text # value)
  /\ field' = [field EXCEPT !.text = value, !.typed = TRUE]
  /\ IF field.is = "number" /\ value \in Legal THEN Commits(value, TRUE) ELSE UNCHANGED <<store, commit>>
  /\ UNCHANGED <<auth, home, editor, calls>>

Clamped(value) ==
  IF value \in Legal THEN value
  ELSE CHOOSE a \in Legal : \A b \in Legal : IF value < b THEN a <= b ELSE a >= b

(* Leaving a dollar field commits its draft, typed or not; leaving a number  *)
(* field commits what was typed, moved into range.                           *)
Blur ==
  /\ OnProfile /\ field # None
  /\ CASE field.is = "currency" -> Commits(field.text, field.typed)
       [] field.is = "number" /\ field.typed -> Commits(Clamped(field.text), TRUE)
       [] OTHER -> UNCHANGED <<store, commit>>
  /\ field' = None
  /\ UNCHANGED <<auth, home, editor, calls>>

EditorNext ==
  \/ AuthStateChanged \/ AuthSettles \/ LoadEnds \/ ToggleSync \/ RetryCloud
  \/ \E page \in PageNames : Navigate(page)
  \/ openCreate \/ closeEditor \/ handleSubmit \/ handleDelete
  \/ \E id \in Ids : openEdit(id)
  \/ \E text \in Texts : TypeAccount(text)
  \/ \E c \in calls : CallReturns(c)
  \/ \E kind \in {"currency", "number"} : Focus(kind)
  \/ \E value \in Typed : TypeField(value)
  \/ Blur

EditorSpec == EditorInit /\ [][EditorNext]_editorVars

-----------------------------------------------------------------------------

(* Whatever is committed was typed for the owner whose plan takes it, and    *)
(* for the account it is written to: through sign-ins and sign-outs, cloud   *)
(* loads, the storage switch, other rows opened in the same editor, and      *)
(* answers that come when the page is another instance (app/page.tsx 44-45,  *)
(* accounts.tsx 88-137).                                                     *)
TypedForIt == commit # None => commit.from = commit.owner /\ commit.for = commit.id

(* A field that was only visited writes back the value the plan holds. The   *)
(* dollar field commits on every blur (profile.tsx 589-594), so a load that  *)
(* ended between focus and blur would be undone by the older draft.          *)
VisitChangesNothing == commit # None /\ commit.untouched => ~commit.changed

(* What is typed is committed to the plan it was typed for, and a visited    *)
(* field changes nothing (app/page.tsx, accounts.tsx, profile.tsx).          *)
EditsLandWhereTyped == TypedForIt /\ VisitChangesNothing
=============================================================================
