--------------------------- MODULE PlanDataProofs ---------------------------
(* Where what is typed lands, and what becomes of what is stored.  A commit  *)
(* is for the owner and the account its draft was opened for, which rests on *)
(* the gate that unmounts the pages while the store changes hands; a stored  *)
(* plan reads back as it was, and keeps the age and the retirement spending  *)
(* of the old bundle that stored it.  A plan that is turned by its levers    *)
(* stays one the service accepts, and its curves are its own.                *)
EXTENDS PlanEditor, Hydration, PlanLevers, TotalsProofs

-----------------------------------------------------------------------------
(* The editing pages *)

Auths == [user : Owners, ready : BOOLEAN, loading : BOOLEAN, next : Owners]
Stores == [owner : Owners, bootstrapped : BOOLEAN, sync : BOOLEAN, cloud : BOOLEAN, plan : Plan]
Homes == [mounted : BOOLEAN, page : PageNames, instance : Nat,
          seen : Owners \X BOOLEAN \X BOOLEAN]
Editors == [is : {"open"}, id : Ids \cup {NewId}, text : Texts \cup {Blank}, from : Owners,
            for : Ids \cup {NewId}]
Fields == [is : {"currency", "number"}, text : Legal \cup Typed, typed : BOOLEAN, from : Owners]
Calls == [owner : Owners, id : Ids \cup {NewId}, text : Texts \cup {Gone}, instance : Nat]

EditorTyped ==
  /\ auth \in Auths
  /\ store \in Stores
  /\ home \in Homes
  /\ editor \in {None} \cup Editors
  /\ field \in {None} \cup Fields
  /\ calls \subseteq Calls

(* Nobody is signed in to a cloud that has no user.                          *)
Proper(a) == (a.loading => a.next # NoUser) /\ (a.user = NoUser => ~a.ready)

(* The effect has run with the inputs of the last render, so that a render   *)
(* with the same inputs starts no bootstrap.                                 *)
EffectRan == home.seen = <<auth.user, auth.ready, auth.loading>>

(* The pages are on screen while the gate is open.                           *)
Gated == home.mounted = Open(auth, store)

(* A draft is of the page on screen and of the owner in the store, and a     *)
(* field that was only focused shows what the store holds.                   *)
DraftsHeld ==
  /\ editor # None =>
       /\ home.mounted /\ home.page = "accounts"
       /\ editor.from = store.owner /\ editor.for = editor.id
  /\ field # None =>
       /\ home.mounted /\ home.page = "profile"
       /\ field.from = store.owner
       /\ ~field.typed => field.text = store.plan.amount

EditorInv ==
  EditorTyped /\ Proper(auth) /\ EffectRan /\ Gated /\ DraftsHeld /\ EditsLandWhereTyped

LEMMA StoredTyped == Stored \subseteq Plan /\ Starter \in Plan
<1>1. PICK b \in Legal : b # Starter.amount
  BY EditorAssumption
<1>2. (CHOOSE a \in Legal : a # Starter.amount) \in Legal
  BY <1>1
<1>3. Starter.amount \in Legal
  BY EditorAssumption DEF Starter
<1>4. (CHOOSE t \in Texts : TRUE) \in Texts
  BY EditorAssumption
<1>5. [i \in Ids |-> CHOOSE t \in Texts : TRUE] \in [Ids -> Texts \cup {Gone}]
  BY <1>4
<1>6. [i \in Ids |-> Gone] \in [Ids -> Texts \cup {Gone}]
  OBVIOUS
<1> QED BY <1>2, <1>3, <1>5, <1>6 DEF Stored, Starter, Plan

LEMMA BootstrapTyped ==
  ASSUME NEW s \in Stores, NEW user \in Owners, NEW ready \in BOOLEAN,
         NEW t \in Bootstrapped(s, user, ready)
  PROVE  /\ t \in Stores /\ t.owner = user
         /\ (user # NoUser /\ ready /\ s.sync) => ~t.bootstrapped
<1>1. CASE user # NoUser /\ ready /\ s.sync
  BY <1>1 DEF Bootstrapped, Stores
<1>2. CASE ~(user # NoUser /\ ready /\ s.sync)
  <2>1. PICK p \in Stored :
          t = [s EXCEPT !.owner = user, !.cloud = FALSE, !.bootstrapped = TRUE, !.plan = p]
    BY <1>2 DEF Bootstrapped
  <2> QED BY <1>2, <2>1, StoredTyped DEF Stores
<1> QED BY <1>1, <1>2

(* What a render needs: the pages stay only if no effect runs, and then      *)
(* either the store is as it was or no draft is on the page.                 *)
Stays(a, s) ==
  home.mounted /\ Open(a, s) =>
    /\ <<a.user, a.ready, a.loading>> = home.seen
    /\ s = store \/ home.page = "settings"

LEMMA RenderKeeps ==
  ASSUME EditorInv, NEW a \in Auths, NEW s \in Stores, Proper(a), Stays(a, s),
         Renders(a, s), UNCHANGED <<calls, commit>>
  PROVE  EditorInv'
<1> DEFINE inputs == <<a.user, a.ready, a.loading>>
<1> DEFINE Effect == IF inputs # home.seen /\ ~a.loading
                     THEN Bootstrapped(s, a.user, a.ready) ELSE {s}
<1> DEFINE kept(t) == home.mounted /\ Open(a, s) /\ Open(a, t)
<1>1. PICK t \in Effect :
        /\ auth' = a /\ store' = t
        /\ home' = [home EXCEPT !.mounted = Open(a, t), !.seen = inputs,
                      !.instance = IF kept(t) THEN @ ELSE @ + 1]
        /\ editor' = IF kept(t) THEN editor ELSE None
        /\ field' = IF kept(t) THEN field ELSE None
  BY DEF Renders
<1>2. a.user \in Owners /\ a.ready \in BOOLEAN /\ a.loading \in BOOLEAN
  BY DEF Auths
<1>3. t \in Stores
  BY <1>2, BootstrapTyped
<1>4. Open(a, t) \in BOOLEAN
  BY DEF Open
<1>5. /\ home'.mounted = Open(a, t) /\ home'.seen = inputs /\ home'.page = home.page
      /\ home' \in Homes
  <2> HIDE DEF inputs, kept
  <2>1. PICK n : n = IF kept(t) THEN home.instance ELSE home.instance + 1
    OBVIOUS
  <2>2. inputs \in Owners \X BOOLEAN \X BOOLEAN
    BY <1>2 DEF inputs
  <2>3. home \in Homes
    BY DEF EditorInv, EditorTyped
  <2>4. n \in Nat
    BY <2>1, <2>3 DEF Homes
  <2>5. home' = [home EXCEPT !.mounted = Open(a, t), !.seen = inputs, !.instance = n]
    BY <1>1, <2>1, <2>3 DEF Homes
  <2> QED BY <1>4, <2>2, <2>3, <2>4, <2>5 DEF Homes
<1>6. EditorTyped'
  BY <1>1, <1>3, <1>5 DEF EditorInv, EditorTyped
<1>7. Proper(auth)' /\ EffectRan' /\ Gated'
  BY <1>1, <1>5 DEF Proper, EffectRan, Gated, Open
<1>8. DraftsHeld'
  <2>1. CASE kept(t)
    <3>1. t = s /\ (s = store \/ home.page = "settings")
      BY <2>1, <1>1 DEF Stays
    <3> QED BY <2>1, <3>1, <1>1, <1>5 DEF EditorInv, DraftsHeld
  <2>2. CASE ~kept(t)
    BY <2>2, <1>1 DEF DraftsHeld
  <2> QED BY <2>1, <2>2
<1>9. EditsLandWhereTyped'
  BY DEF EditorInv, EditsLandWhereTyped, TypedForIt, VisitChangesNothing
<1> QED BY <1>6, <1>7, <1>8, <1>9 DEF EditorInv

LEMMA AuthStateChangedKeeps ==
  ASSUME EditorInv, AuthStateChanged PROVE EditorInv'
<1>1. PICK next \in Owners :
        Renders(IF next = NoUser
                THEN [user |-> NoUser, ready |-> FALSE, loading |-> FALSE, next |-> NoUser]
                ELSE [auth EXCEPT !.ready = FALSE, !.loading = TRUE, !.next = next], store)
  BY DEF AuthStateChanged
<1>2. PICK a, s :
        /\ s = store
        /\ a = IF next = NoUser
               THEN [user |-> NoUser, ready |-> FALSE, loading |-> FALSE, next |-> NoUser]
               ELSE [auth EXCEPT !.ready = FALSE, !.loading = TRUE, !.next = next]
  OBVIOUS
<1>3. Renders(a, s)
  BY <1>1, <1>2
<1>4. a \in Auths /\ s \in Stores /\ Proper(a)
  BY <1>2 DEF Auths, Proper, EditorInv, EditorTyped, Owners
<1>5. Stays(a, s)
  BY <1>2, <1>4 DEF Stays, EditorInv, EditorTyped, Auths, Proper, EffectRan, Gated, Open
<1>6. UNCHANGED <<calls, commit>>
  BY DEF AuthStateChanged
<1> QED BY <1>3, <1>4, <1>5, <1>6, RenderKeeps

LEMMA AuthSettlesKeeps ==
  ASSUME EditorInv, AuthSettles PROVE EditorInv'
<1>1. PICK ready \in BOOLEAN :
        Renders([auth EXCEPT !.user = auth.next, !.ready = ready, !.loading = FALSE], store)
  BY DEF AuthSettles
<1>2. PICK a, s :
        s = store /\ a = [auth EXCEPT !.user = auth.next, !.ready = ready, !.loading = FALSE]
  OBVIOUS
<1>3. Renders(a, s)
  BY <1>1, <1>2
<1>4. a \in Auths /\ s \in Stores /\ Proper(a)
  BY <1>2 DEF AuthSettles, Auths, Proper, EditorInv, EditorTyped
<1>5. Stays(a, s)
  BY DEF AuthSettles, Stays, EditorInv, Gated, Open
<1>6. UNCHANGED <<calls, commit>>
  BY DEF AuthSettles
<1> QED BY <1>3, <1>4, <1>5, <1>6, RenderKeeps

LEMMA LoadEndsKeeps ==
  ASSUME EditorInv, LoadEnds PROVE EditorInv'
<1>1. PICK p \in Stored, read \in BOOLEAN :
        Renders(auth, [store EXCEPT !.bootstrapped = TRUE, !.cloud = read, !.plan = p])
  BY DEF LoadEnds
<1>2. PICK a, s :
        a = auth /\ s = [store EXCEPT !.bootstrapped = TRUE, !.cloud = read, !.plan = p]
  OBVIOUS
<1>3. Renders(a, s)
  BY <1>1, <1>2
<1>4. a \in Auths /\ s \in Stores /\ Proper(a)
  BY <1>2, StoredTyped DEF Stores, EditorInv, EditorTyped
<1>5. Stays(a, s)
  BY DEF LoadEnds, Stays, EditorInv, Gated, Open
<1>6. UNCHANGED <<calls, commit>>
  BY DEF LoadEnds
<1> QED BY <1>3, <1>4, <1>5, <1>6, RenderKeeps

(* The two controls of the settings page, which has no draft.                *)
LEMMA SettingsKeep ==
  ASSUME EditorInv, ToggleSync \/ RetryCloud PROVE EditorInv'
<1>1. PICK before \in Stores :
        /\ before.owner = store.owner
        /\ \E t \in Bootstrapped(before, store.owner, TRUE) : Renders(auth, t)
  <2>1. CASE ToggleSync
    <3>1. [store EXCEPT !.sync = ~@] \in Stores /\ [store EXCEPT !.sync = ~@].owner = store.owner
      BY DEF EditorInv, EditorTyped, Stores
    <3>2. auth.ready = TRUE
      BY <2>1 DEF ToggleSync, EditorInv, EditorTyped, Auths
    <3> QED BY <2>1, <3>1, <3>2 DEF ToggleSync
  <2>2. CASE RetryCloud
    BY <2>2 DEF RetryCloud, EditorInv, EditorTyped
  <2> QED BY <2>1, <2>2
<1>2. store.owner \in Owners
  BY DEF EditorInv, EditorTyped, Stores
<1>3. PICK s \in Bootstrapped(before, store.owner, TRUE) : Renders(auth, s)
  BY <1>1
<1>4. s \in Stores
  BY <1>2, <1>3, BootstrapTyped
<1>5. PICK a : a = auth
  OBVIOUS
<1>6. a \in Auths /\ Proper(a) /\ Renders(a, s)
  BY <1>3, <1>5 DEF EditorInv, EditorTyped
<1>7. Stays(a, s) /\ UNCHANGED <<calls, commit>>
  BY <1>5 DEF Stays, EditorInv, EffectRan, ToggleSync, RetryCloud
<1> QED BY <1>4, <1>6, <1>7, RenderKeeps

LEMMA NavigateKeeps ==
  ASSUME EditorInv, NEW page \in PageNames, Navigate(page) PROVE EditorInv'
<1>1. /\ home'.mounted = home.mounted /\ home'.seen = home.seen
      /\ home' \in Homes
  <2>1. home \in Homes
    BY DEF EditorInv, EditorTyped
  <2>2. PICK n : n = home.instance + 1
    OBVIOUS
  <2>3. n \in Nat
    BY <2>1, <2>2 DEF Homes
  <2>4. home' = [home EXCEPT !.page = page, !.instance = n]
    BY <2>2 DEF Navigate
  <2> QED BY <2>1, <2>3, <2>4 DEF Homes
<1>2. EditorTyped'
  BY <1>1 DEF Navigate, EditorInv, EditorTyped
<1>3. Proper(auth)' /\ EffectRan' /\ Gated' /\ DraftsHeld' /\ EditsLandWhereTyped'
  BY <1>1 DEF Navigate, EditorInv, Proper, EffectRan, Gated, Open, DraftsHeld,
              EditsLandWhereTyped, TypedForIt, VisitChangesNothing
<1> QED BY <1>2, <1>3 DEF EditorInv

-----------------------------------------------------------------------------

(* A step that leaves the pages and their gate as they are.                  *)
LEMMA OnPageKeeps ==
  ASSUME EditorInv, UNCHANGED <<auth, home>>, store' \in Stores,
         store'.owner = store.owner, store'.bootstrapped = store.bootstrapped,
         EditorTyped', DraftsHeld', EditsLandWhereTyped'
  PROVE  EditorInv'
BY DEF EditorInv, Proper, EffectRan, Gated, Open

LEMMA WrittenTyped ==
  ASSUME NEW s \in Stores, NEW id \in Ids \cup {NewId}, NEW text \in Texts \cup {Gone},
         NEW accounts \in WrittenAccounts(s.plan.accounts, id, text)
  PROVE  LET t == [s EXCEPT !.plan.accounts = accounts]
         IN  /\ t \in Stores /\ t.owner = s.owner /\ t.bootstrapped = s.bootstrapped
             /\ t.plan.amount = s.plan.amount
<1>1. s.plan \in Plan
  BY DEF Stores
<1>2. accounts \in [Ids -> Texts \cup {Gone}]
  <2>1. s.plan.accounts \in [Ids -> Texts \cup {Gone}]
    BY <1>1 DEF Plan
  <2>2. CASE id = NewId
    BY <2>1, <2>2 DEF WrittenAccounts
  <2>3. CASE id # NewId
    BY <2>1, <2>3 DEF WrittenAccounts
  <2> QED BY <2>2, <2>3
<1>3. [s.plan EXCEPT !.accounts = accounts] \in Plan
      /\ [s.plan EXCEPT !.accounts = accounts].amount = s.plan.amount
  BY <1>1, <1>2 DEF Plan
<1>4. PICK p : p = [s.plan EXCEPT !.accounts = accounts]
  OBVIOUS
<1>5. [s EXCEPT !.plan.accounts = accounts] = [s EXCEPT !.plan = p]
  BY <1>4
<1> QED BY <1>3, <1>4, <1>5 DEF Stores

LEMMA OpenKeeps ==
  ASSUME EditorInv,
         openCreate \/ \E id \in Ids : openEdit(id)
  PROVE  EditorInv'
<1>1. PICK id \in Ids \cup {NewId}, text \in Texts \cup {Blank} :
        editor' = OpenedWith(id, text) /\ OnAccounts
        /\ UNCHANGED <<auth, store, home, field, calls, commit>>
  <2>1. CASE openCreate
    BY <2>1 DEF openCreate
  <2>2. CASE \E id \in Ids : openEdit(id)
    <3>1. PICK id \in Ids : openEdit(id)
      BY <2>2
    <3>2. store.plan.accounts[id] \in Texts
      BY <3>1 DEF openEdit, Held, EditorInv, EditorTyped, Stores, Plan
    <3> QED BY <3>1, <3>2 DEF openEdit
  <2> QED BY <2>1, <2>2
<1>2. editor' \in Editors /\ editor'.from = store.owner /\ editor'.for = editor'.id
  BY <1>1 DEF OpenedWith, Editors, EditorInv, EditorTyped, Stores
<1>3. EditorTyped' /\ store' \in Stores
  BY <1>1, <1>2 DEF EditorInv, EditorTyped
<1>4. DraftsHeld'
  BY <1>1, <1>2 DEF EditorInv, DraftsHeld, OnAccounts
<1>5. EditsLandWhereTyped'
  BY <1>1 DEF EditorInv, EditsLandWhereTyped, TypedForIt, VisitChangesNothing
<1> QED BY <1>1, <1>3, <1>4, <1>5, OnPageKeeps

LEMMA DraftTyped == EditorInv /\ editor # None => editor \in Editors
BY DEF EditorInv, EditorTyped

LEMMA TypeAccountKeeps ==
  ASSUME EditorInv, NEW text \in Texts, TypeAccount(text) PROVE EditorInv'
<1>1. editor \in Editors
  BY DraftTyped DEF TypeAccount
<1>2. editor' = [editor EXCEPT !.text = text] /\ UNCHANGED <<auth, store, home, field, calls, commit>>
  BY DEF TypeAccount
<1>3. editor' \in Editors /\ editor'.from = editor.from /\ editor'.for = editor.for
      /\ editor'.id = editor.id
  BY <1>1, <1>2 DEF Editors
<1>4. EditorTyped' /\ store' \in Stores
  BY <1>2, <1>3 DEF EditorInv, EditorTyped
<1>5. DraftsHeld'
  BY <1>2, <1>3 DEF EditorInv, DraftsHeld, TypeAccount
<1>6. EditsLandWhereTyped'
  BY <1>2 DEF EditorInv, EditsLandWhereTyped, TypedForIt, VisitChangesNothing
<1> QED BY <1>2, <1>4, <1>5, <1>6, OnPageKeeps

LEMMA closeEditorKeeps ==
  ASSUME EditorInv, closeEditor PROVE EditorInv'
<1>1. EditorTyped' /\ store' \in Stores
  BY DEF closeEditor, EditorInv, EditorTyped
<1>2. DraftsHeld' /\ EditsLandWhereTyped'
  BY DEF closeEditor, EditorInv, DraftsHeld, EditsLandWhereTyped, TypedForIt, VisitChangesNothing
<1> QED BY <1>1, <1>2, OnPageKeeps DEF closeEditor

LEMMA SendKeeps ==
  ASSUME EditorInv, NEW text \in Texts \cup {Gone}, Send(text) PROVE EditorInv'
<1>1. editor \in Editors /\ store \in Stores /\ home \in Homes /\ editor # None
  BY DraftTyped DEF Send, EditorInv, EditorTyped
<1>2. editor.id \in Ids \cup {NewId} /\ store.owner \in Owners /\ home.instance \in Nat
  BY <1>1 DEF Editors, Stores, Homes
<1>3. EditsLandWhereTyped'
  <2>1. Committed(text) /\ editor.from = store.owner /\ editor.for = editor.id
    BY <1>1 DEF Send, EditorInv, DraftsHeld
  <2>2. commit'.from = commit'.owner /\ commit'.for = commit'.id /\ ~commit'.untouched
    BY <2>1 DEF Committed
  <2> QED BY <2>2 DEF EditsLandWhereTyped, TypedForIt, VisitChangesNothing
<1>4. store' \in Stores /\ store'.owner = store.owner /\ store'.bootstrapped = store.bootstrapped
      /\ store'.plan.amount = store.plan.amount
  <2>1. CASE UNCHANGED store
    BY <1>1, <2>1
  <2>2. CASE \E accounts \in WrittenAccounts(store.plan.accounts, editor.id, text) :
               store' = [store EXCEPT !.plan.accounts = accounts]
    BY <1>1, <1>2, <2>2, WrittenTyped
  <2> QED BY <2>1, <2>2 DEF Send
<1>5. calls' \subseteq Calls
  <2>1. [owner |-> store.owner, id |-> editor.id, text |-> text, instance |-> home.instance] \in Calls
    BY <1>2 DEF Calls
  <2> QED BY <2>1 DEF Send, EditorInv, EditorTyped
<1>6. UNCHANGED <<auth, home, field>> /\ (editor' = editor \/ editor' = None)
  BY DEF Send
<1>7. EditorTyped'
  BY <1>4, <1>5, <1>6 DEF EditorInv, EditorTyped
<1>8. DraftsHeld'
  BY <1>4, <1>6 DEF EditorInv, DraftsHeld
<1> QED BY <1>3, <1>4, <1>6, <1>7, <1>8, OnPageKeeps

LEMMA SubmitKeeps ==
  ASSUME EditorInv, handleSubmit \/ handleDelete PROVE EditorInv'
<1>1. CASE handleSubmit
  <2>1. editor.text \in Texts
    BY <1>1, DraftTyped DEF handleSubmit, Editors
  <2>2. PICK text \in Texts : text = editor.text
    BY <2>1
  <2> QED BY <1>1, <2>2, SendKeeps DEF handleSubmit
<1>2. CASE handleDelete
  <2>1. PICK text \in {Gone} : Send(text)
    BY <1>2 DEF handleDelete
  <2> QED BY <2>1, SendKeeps
<1> QED BY <1>1, <1>2

LEMMA CallReturnsKeeps ==
  ASSUME EditorInv, NEW c \in calls, CallReturns(c) PROVE EditorInv'
<1>1. c.id \in Ids \cup {NewId} /\ c.text \in Texts \cup {Gone} /\ store \in Stores
  BY DEF EditorInv, EditorTyped, Calls
<1>2. store' \in Stores /\ store'.owner = store.owner /\ store'.bootstrapped = store.bootstrapped
      /\ store'.plan.amount = store.plan.amount
  <2>1. CASE UNCHANGED store
    BY <1>1, <2>1
  <2>2. CASE \E accounts \in WrittenAccounts(store.plan.accounts, c.id, c.text) :
               store' = [store EXCEPT !.plan.accounts = accounts]
    BY <1>1, <2>2, WrittenTyped
  <2> QED BY <2>1, <2>2 DEF CallReturns
<1>3. UNCHANGED <<auth, home, field, commit>> /\ (editor' = editor \/ editor' = None)
      /\ calls' \subseteq calls
  BY DEF CallReturns
<1>4. EditorTyped'
  BY <1>2, <1>3 DEF EditorInv, EditorTyped
<1>5. DraftsHeld'
  BY <1>2, <1>3 DEF EditorInv, DraftsHeld
<1>6. EditsLandWhereTyped'
  BY <1>3 DEF EditorInv, EditsLandWhereTyped, TypedForIt, VisitChangesNothing
<1> QED BY <1>2, <1>3, <1>4, <1>5, <1>6, OnPageKeeps

-----------------------------------------------------------------------------

LEMMA FieldTyped == EditorInv /\ field # None => field \in Fields
BY DEF EditorInv, EditorTyped

(* updatePlan writes the value or leaves the plan; a draft that was not      *)
(* typed in is what the plan holds.                                          *)
LEMMA CommitsRight ==
  ASSUME EditorInv, NEW value, NEW typed \in BOOLEAN, field # None, Commits(value, typed),
         ~typed => value = store.plan.amount
  PROVE  /\ store' \in Stores /\ store'.owner = store.owner
         /\ store'.bootstrapped = store.bootstrapped
         /\ EditsLandWhereTyped'
<1>1. store \in Stores /\ store.plan \in Plan
  BY DEF EditorInv, EditorTyped, Stores
<1>2. store' \in Stores /\ store'.owner = store.owner /\ store'.bootstrapped = store.bootstrapped
  <2>1. CASE value \in Legal
    <3>1. PICK p : p = [store.plan EXCEPT !.amount = value]
      OBVIOUS
    <3>2. store' = [store EXCEPT !.plan = p]
      BY <2>1, <3>1 DEF Commits
    <3>3. p \in Plan
      BY <1>1, <2>1, <3>1 DEF Plan
    <3> QED BY <1>1, <3>2, <3>3 DEF Stores
  <2>2. CASE value \notin Legal
    BY <1>1, <2>2 DEF Commits
  <2> QED BY <2>1, <2>2
<1>3. field.from = store.owner
  BY DEF EditorInv, DraftsHeld
<1>4. commit' = [is |-> "amount", owner |-> store.owner, id |-> NewId,
                 from |-> field.from, for |-> NewId, untouched |-> ~typed,
                 changed |-> value # store.plan.amount]
  BY DEF Commits
<1>5. commit'.from = commit'.owner /\ commit'.for = commit'.id
      /\ (commit'.untouched => ~commit'.changed)
  BY <1>3, <1>4
<1>6. EditsLandWhereTyped'
  BY <1>5 DEF EditsLandWhereTyped, TypedForIt, VisitChangesNothing
<1> QED BY <1>2, <1>6

LEMMA FocusKeeps ==
  ASSUME EditorInv, NEW kind \in {"currency", "number"}, Focus(kind) PROVE EditorInv'
<1>1. store \in Stores /\ store.plan.amount \in Legal /\ store.owner \in Owners
  BY DEF EditorInv, EditorTyped, Stores, Plan
<1>2. field' = [is |-> kind, text |-> store.plan.amount, typed |-> FALSE, from |-> store.owner]
      /\ UNCHANGED <<auth, store, home, editor, calls, commit>> /\ OnProfile
  BY DEF Focus
<1>3. field' \in Fields /\ field'.from = store.owner /\ field'.text = store.plan.amount
  BY <1>1, <1>2 DEF Fields
<1>4. EditorTyped' /\ store' \in Stores
  BY <1>2, <1>3 DEF EditorInv, EditorTyped
<1>5. DraftsHeld'
  BY <1>2, <1>3 DEF EditorInv, DraftsHeld, OnProfile
<1>6. EditsLandWhereTyped'
  BY <1>2 DEF EditorInv, EditsLandWhereTyped, TypedForIt, VisitChangesNothing
<1> QED BY <1>2, <1>4, <1>5, <1>6, OnPageKeeps

LEMMA TypeFieldKeeps ==
  ASSUME EditorInv, NEW value \in Typed, TypeField(value) PROVE EditorInv'
<1>1. field \in Fields /\ field # None /\ OnProfile /\ field.from = store.owner
  BY FieldTyped DEF TypeField, EditorInv, DraftsHeld
<1>2. field' = [field EXCEPT !.text = value, !.typed = TRUE] /\ UNCHANGED <<auth, home, editor, calls>>
  BY DEF TypeField
<1>3. field' \in Fields /\ field'.from = field.from /\ field'.typed = TRUE
  BY <1>1, <1>2 DEF Fields
<1>4. store' \in Stores /\ store'.owner = store.owner /\ store'.bootstrapped = store.bootstrapped
      /\ EditsLandWhereTyped'
  <2>1. CASE field.is = "number" /\ value \in Legal
    <3>1. PICK typed \in BOOLEAN : typed = TRUE
      OBVIOUS
    <3>2. Commits(value, typed)
      BY <2>1, <3>1 DEF TypeField
    <3> QED BY <1>1, <3>1, <3>2, CommitsRight
  <2>2. CASE ~(field.is = "number" /\ value \in Legal)
    <3>1. UNCHANGED <<store, commit>>
      BY <2>2 DEF TypeField
    <3> QED BY <3>1 DEF EditorInv, EditorTyped, EditsLandWhereTyped, TypedForIt, VisitChangesNothing
  <2> QED BY <2>1, <2>2
<1>5. EditorTyped'
  BY <1>2, <1>3, <1>4 DEF EditorInv, EditorTyped
<1>6. DraftsHeld'
  <2>1. editor # None => home.page = "accounts"
    BY DEF EditorInv, DraftsHeld
  <2>2. editor = None
    BY <1>1, <2>1 DEF OnProfile
  <2> QED BY <1>1, <1>2, <1>3, <1>4, <2>2 DEF OnProfile, DraftsHeld
<1> QED BY <1>2, <1>4, <1>5, <1>6, OnPageKeeps

LEMMA BlurKeeps ==
  ASSUME EditorInv, Blur PROVE EditorInv'
<1>1. field \in Fields /\ field # None /\ OnProfile
  BY FieldTyped DEF Blur
<1>2. field.typed \in BOOLEAN /\ (~field.typed => field.text = store.plan.amount)
  BY <1>1 DEF Fields, EditorInv, DraftsHeld
<1>3. store' \in Stores /\ store'.owner = store.owner /\ store'.bootstrapped = store.bootstrapped
      /\ EditsLandWhereTyped'
  <2>1. CASE field.is = "currency"
    <3>1. PICK value, typed : value = field.text /\ typed = field.typed
      OBVIOUS
    <3>2. Commits(value, typed)
      BY <2>1, <3>1 DEF Blur
    <3> QED BY <1>1, <1>2, <3>1, <3>2, CommitsRight
  <2>2. CASE field.is = "number" /\ field.typed
    <3>1. PICK value, typed : value = Clamped(field.text) /\ typed = TRUE
      OBVIOUS
    <3>2. Commits(value, typed)
      BY <2>2, <3>1 DEF Blur
    <3> QED BY <1>1, <3>1, <3>2, CommitsRight
  <2>3. CASE field.is = "number" /\ ~field.typed
    <3>1. UNCHANGED <<store, commit>>
      BY <2>3 DEF Blur
    <3> QED BY <3>1 DEF EditorInv, EditorTyped, EditsLandWhereTyped, TypedForIt, VisitChangesNothing
  <2> QED BY <1>1, <2>1, <2>2, <2>3 DEF Fields
<1>4. field' = None /\ UNCHANGED <<auth, home, editor, calls>>
  BY DEF Blur
<1>5. EditorTyped'
  BY <1>3, <1>4 DEF EditorInv, EditorTyped
<1>6. DraftsHeld'
  BY <1>3, <1>4 DEF EditorInv, DraftsHeld
<1> QED BY <1>3, <1>4, <1>5, <1>6, OnPageKeeps

LEMMA EditorStarts == EditorInit => EditorInv
<1> SUFFICES ASSUME EditorInit PROVE EditorInv
  OBVIOUS
<1>1. auth \in Auths /\ Proper(auth)
  BY DEF EditorInit, Auths, Owners, Proper
<1>2. store \in Stores
  BY StoredTyped DEF EditorInit, Stores, Owners
<1>3. home \in Homes
  BY DEF EditorInit, Homes, PageNames, Owners
<1> QED BY <1>1, <1>2, <1>3
        DEF EditorInit, EditorInv, EditorTyped, EffectRan, Gated, Open, DraftsHeld,
            EditsLandWhereTyped, TypedForIt, VisitChangesNothing

LEMMA EditorStepKeeps == EditorInv /\ [EditorNext]_editorVars => EditorInv'
<1> SUFFICES ASSUME EditorInv, [EditorNext]_editorVars PROVE EditorInv'
  OBVIOUS
<1>1. CASE UNCHANGED editorVars
  BY <1>1 DEF editorVars, EditorInv, EditorTyped, Proper, EffectRan, Gated, Open, DraftsHeld,
              EditsLandWhereTyped, TypedForIt, VisitChangesNothing
<1>2. CASE AuthStateChanged \/ AuthSettles \/ LoadEnds \/ ToggleSync \/ RetryCloud
  BY <1>2, AuthStateChangedKeeps, AuthSettlesKeeps, LoadEndsKeeps, SettingsKeep
<1>3. CASE \E page \in PageNames : Navigate(page)
  BY <1>3, NavigateKeeps
<1>4. CASE openCreate \/ closeEditor \/ handleSubmit \/ handleDelete
  BY <1>4, OpenKeeps, closeEditorKeeps, SubmitKeeps
<1>5. CASE (\E id \in Ids : openEdit(id)) \/ \E text \in Texts : TypeAccount(text)
  BY <1>5, OpenKeeps, TypeAccountKeeps
<1>6. CASE \E c \in calls : CallReturns(c)
  BY <1>6, CallReturnsKeeps
<1>7. CASE \E kind \in {"currency", "number"} : Focus(kind)
  BY <1>7, FocusKeeps
<1>8. CASE (\E value \in Typed : TypeField(value)) \/ Blur
  BY <1>8, TypeFieldKeeps, BlurKeeps
<1> QED BY <1>1, <1>2, <1>3, <1>4, <1>5, <1>6, <1>7, <1>8 DEF EditorNext

(* Whatever is committed was typed for the plan and the account it is        *)
(* written to, and a field that was only visited changes nothing             *)
(* (app/page.tsx, accounts.tsx, profile.tsx).                                *)
THEOREM EditsLand == EditorSpec => []EditsLandWhereTyped
<1>1. EditorInv => EditsLandWhereTyped
  BY DEF EditorInv
<1> QED BY <1>1, EditorStarts, EditorStepKeeps, PTL DEF EditorSpec
-----------------------------------------------------------------------------
(* Stored plans *)

Plans == [birthDate : Dates, asOf : Dates, current : Nat, multiplier : Nat, premium : Nat,
          care : BOOLEAN, hsa : BOOLEAN, backdoor : BOOLEAN]

Origins == {"none", "starter", "user"}
Records == [profile : Payloads, origin : Origins, legacy : Payloads \cup {Absent}]

(* What is stored of an old bundle's plan yields that plan's age and         *)
(* spending whenever it is loaded.                                           *)
StoredKept(stored) ==
  stored.legacy # Absent =>
    stored.origin = "user" /\ Keeps(hydratePlan(stored.profile), stored.legacy)

PayloadInv ==
  /\ loaded \in Plans /\ browser \in Records /\ cloud \in Records
  /\ cloud.origin # "starter"
  /\ StoredKept(browser) /\ StoredKept(cloud)
  /\ LegacyPlanKept

(* No value of a field is Absent.                                            *)
LEMMA PlanPresent ==
  ASSUME NEW p \in Plans
  PROVE  Absent \notin {p.birthDate, p.asOf, p.current, p.multiplier, p.premium, p.care,
                        p.hsa, p.backdoor}
<1>1. Absent \notin Int /\ Absent \notin BOOLEAN /\ Absent \notin Dates
  BY PayloadAssumption
<1>2. p.birthDate \in Dates /\ p.asOf \in Dates /\ p.current \in Int /\ p.multiplier \in Int
      /\ p.premium \in Int /\ p.care \in BOOLEAN /\ p.hsa \in BOOLEAN /\ p.backdoor \in BOOLEAN
  BY DEF Plans
<1> QED BY <1>1, <1>2

LEMMA WrittenIs ==
  ASSUME NEW p \in Plans
  PROVE  Written(p) =
           [birthDate |-> p.birthDate, age |-> Absent, birthYear |-> Absent, asOf |-> p.asOf,
            current |-> p.current, desired |-> Absent, retirement |-> Absent,
            multiplier |-> p.multiplier, premium |-> p.premium, care |-> p.care,
            hsa |-> p.hsa, backdoor |-> p.backdoor, contributions |-> Absent]
BY DEF Plans, Written, Empty

LEMMA WrittenIsPayload ==
  ASSUME NEW p \in Plans
  PROVE  Written(p) \in Payloads
BY WrittenIs DEF Plans, Payloads

LEMMA OrTyped ==
  ASSUME NEW S, NEW v \in S \cup {Absent}, NEW d \in S
  PROVE  Or(v, d) \in S
BY DEF Or

(* What this version wrote reads back as it was.                             *)
LEMMA PlanReadsBack ==
  ASSUME NEW p \in Plans
  PROVE  hydratePlan(Written(p)) = p
<1>1. Written(p).birthDate = p.birthDate /\ Written(p).asOf = p.asOf
      /\ Written(p).current = p.current /\ Written(p).multiplier = p.multiplier
      /\ Written(p).premium = p.premium /\ Written(p).care = p.care
      /\ Written(p).hsa = p.hsa /\ Written(p).backdoor = p.backdoor
  BY WrittenIs
<1>2. p = [birthDate |-> p.birthDate, asOf |-> p.asOf, current |-> p.current,
           multiplier |-> p.multiplier, premium |-> p.premium, care |-> p.care,
           hsa |-> p.hsa, backdoor |-> p.backdoor]
  BY DEF Plans
<1>3. \A v : hydratePlan(Written(p)) =
        [birthDate |-> p.birthDate, asOf |-> p.asOf, current |-> p.current,
         multiplier |-> p.multiplier, premium |-> p.premium, care |-> p.care,
         hsa |-> p.hsa, backdoor |-> p.backdoor]
  BY <1>1, PlanPresent DEF hydratePlan, Or, HsaOf, BackdoorOf
<1> QED BY <1>2, <1>3

LEMMA BirthDateTyped ==
  ASSUME NEW age \in Nat, NEW year \in Int \cup {Absent}, NEW asOf \in Dates
  PROVE  birthDateFromLegacyAge(age, year, asOf) \in Dates
<1>1. asOf.year \in Int /\ asOf.day \in 1 .. LastDay /\ 1 \in 1 .. LastDay /\ LastDay \in 1 .. LastDay
  BY CalendarAssumption DEF Dates
<1>2. Or(year, asOf.year - age) \in Int
  BY <1>1 DEF Or
<1> QED BY <1>1, <1>2 DEF birthDateFromLegacyAge, Dates

LEMMA PercentTyped ==
  ASSUME NEW target \in Nat, NEW working \in Nat, working # 0
  PROVE  Percent(target, working) \in Nat
BY DEF Percent

LEMMA FieldsOf ==
  ASSUME NEW p \in Payloads
  PROVE  /\ p.birthDate \in Dates \cup {Absent} /\ p.age \in Nat \cup {Absent}
         /\ p.birthYear \in Int \cup {Absent} /\ p.asOf \in Dates \cup {Absent}
         /\ p.current \in Nat \cup {Absent} /\ p.desired \in Nat \cup {Absent}
         /\ p.retirement \in Nat \cup {Absent} /\ p.multiplier \in Nat \cup {Absent}
         /\ p.premium \in Nat \cup {Absent} /\ p.care \in BOOLEAN \cup {Absent}
         /\ p.hsa \in BOOLEAN \cup {Absent} /\ p.backdoor \in BOOLEAN \cup {Absent}
         /\ p.contributions \in [hsa : Nat, roth : Nat] \cup {Absent}
BY DEF Payloads

LEMMA EvidenceTyped ==
  ASSUME NEW p \in Payloads
  PROVE  HsaOf(p) \in BOOLEAN /\ BackdoorOf(p) \in BOOLEAN
<1>1. (p.contributions # Absent /\ p.contributions.hsa > 0) \in BOOLEAN
      /\ (p.contributions = Absent \/ p.contributions.roth > 0) \in BOOLEAN
  OBVIOUS
<1>2. p.hsa \in BOOLEAN \cup {Absent} /\ p.backdoor \in BOOLEAN \cup {Absent}
  BY FieldsOf
<1> QED BY <1>1, <1>2, OrTyped DEF HsaOf, BackdoorOf

LEMMA HydratedTyped ==
  ASSUME NEW p \in Payloads
  PROVE  hydratePlan(p) \in Plans
<1> DEFINE asOf == Or(p.asOf, Today)
           working == Or(p.current, p.desired)
           target == Or(p.retirement, p.desired)
           legacy == IF target # Absent /\ working # Absent /\ working # 0
                     THEN Percent(target, working) ELSE DefaultPlan.multiplier
<1>1. Today \in Dates
  BY CalendarAssumption DEF Today, Dates
<1>2. asOf \in Dates
  BY <1>1, FieldsOf, OrTyped
<1>3. working \in Nat \cup {Absent} /\ target \in Nat \cup {Absent}
  BY FieldsOf DEF Or
<1>4. legacy \in Nat
  <2>1. DefaultPlan.multiplier = 100
    BY DEF DefaultPlan
  <2>2. CASE target # Absent /\ working # Absent /\ working # 0
    BY <1>3, <2>2, PercentTyped
  <2> QED BY <2>1, <2>2
<1>5. birthDateFromLegacyAge(Or(p.age, LegacyAge), p.birthYear, asOf) \in Dates
  <2>1. Or(p.age, LegacyAge) \in Nat
    BY FieldsOf, OrTyped, CalendarAssumption
  <2> HIDE DEF asOf
  <2> QED BY <1>2, <2>1, FieldsOf, BirthDateTyped
<1>6. Or(p.birthDate, birthDateFromLegacyAge(Or(p.age, LegacyAge), p.birthYear, asOf)) \in Dates
  BY <1>5, FieldsOf, OrTyped
<1>7. /\ Or(working, DefaultSpending) \in Nat /\ Or(p.multiplier, legacy) \in Nat
      /\ Or(p.premium, DefaultPremium) \in Nat /\ Or(p.care, TRUE) \in BOOLEAN
  <2> HIDE DEF working, legacy
  <2> QED BY <1>3, <1>4, FieldsOf, OrTyped, CalendarAssumption
<1>8. hydratePlan(p) =
        [birthDate |-> Or(p.birthDate, birthDateFromLegacyAge(Or(p.age, LegacyAge), p.birthYear, asOf)),
         asOf |-> asOf, current |-> Or(working, DefaultSpending),
         multiplier |-> Or(p.multiplier, legacy),
         premium |-> Or(p.premium, DefaultPremium), care |-> Or(p.care, TRUE),
         hsa |-> HsaOf(p), backdoor |-> BackdoorOf(p)]
  BY DEF hydratePlan
<1>9. HsaOf(p) \in BOOLEAN /\ BackdoorOf(p) \in BOOLEAN
  BY EvidenceTyped
<1> HIDE DEF asOf, working, target, legacy
<1>10. PICK b \in Dates :
         b = Or(p.birthDate, birthDateFromLegacyAge(Or(p.age, LegacyAge), p.birthYear, asOf))
  BY <1>6
<1>11. PICK c \in Nat, m \in Nat, q \in Nat :
         /\ c = Or(working, DefaultSpending) /\ m = Or(p.multiplier, legacy)
         /\ q = Or(p.premium, DefaultPremium)
  BY <1>7
<1>12. PICK t \in BOOLEAN, h \in BOOLEAN, r \in BOOLEAN :
         t = Or(p.care, TRUE) /\ h = HsaOf(p) /\ r = BackdoorOf(p)
  BY <1>7, <1>9
<1>13. hydratePlan(p) =
         [birthDate |-> b, asOf |-> asOf, current |-> c, multiplier |-> m, premium |-> q,
          care |-> t, hsa |-> h, backdoor |-> r]
  BY <1>8, <1>10, <1>11, <1>12
<1> QED BY <1>2, <1>13 DEF Plans

-----------------------------------------------------------------------------
(* The two ways in *)

LEMMA RatioExact ==
  ASSUME NEW target \in Nat, NEW working \in Nat, working > 0, (target * 100) % working = 0
  PROVE  (working * Percent(target, working)) \div 100 = target
<1>1. PICK x \in Nat : x = target * 100
  OBVIOUS
<1>2. x = working * (x \div working) + (x % working)
  OBVIOUS
<1>3. working * Percent(target, working) = target * 100
  BY <1>1, <1>2 DEF Percent
<1>4. (target * 100) \div 100 = target
  OBVIOUS
<1> QED BY <1>3, <1>4

(* A birth date derived from an age has that age on the day it is derived    *)
(* for, unless the birthday is said to be ahead on the year's last day.      *)
LEMMA AgeKept ==
  ASSUME NEW age \in Nat, NEW year \in Int \cup {Absent}, NEW asOf \in Dates,
         Or(year, asOf.year - age) + age - asOf.year \in {-1, 0},
         year = Absent \/ asOf.day < LastDay
  PROVE  ageOn(birthDateFromLegacyAge(age, year, asOf), asOf) = age
<1>1. asOf.year \in Int /\ asOf.day \in 1 .. LastDay /\ LastDay \in Nat
  BY CalendarAssumption DEF Dates
<1>2. PICK y \in Int : y = Or(year, asOf.year - age)
  BY <1>1 DEF Or
<1>3. birthDateFromLegacyAge(age, year, asOf) =
        [year |-> y, day |-> IF asOf.year - y = age THEN 1 ELSE LastDay]
  BY <1>2 DEF birthDateFromLegacyAge
<1>4. year = Absent => y = asOf.year - age
  BY <1>2 DEF Or
<1>5. CASE asOf.year - y = age
  BY <1>1, <1>3, <1>5 DEF ageOn
<1>6. CASE asOf.year - y # age
  <2>1. y = asOf.year - age - 1 /\ asOf.day < LastDay
    BY <1>1, <1>2, <1>4, <1>6
  <2> QED BY <1>1, <1>3, <1>6, <2>1 DEF ageOn
<1> QED BY <1>5, <1>6

LEMMA Amounts ==
  ASSUME NEW p \in Payloads, FromOldBundle(p)
  PROVE  LET working == Or(p.current, Or(p.desired, 0))
             target == Or(p.retirement, Or(p.desired, working))
         IN  /\ working \in Nat /\ target \in Nat
             /\ working > 0 => (target * 100) % working = 0
             /\ p.current # Absent \/ p.desired # Absent => Or(p.current, p.desired) = working
             /\ p.current = Absent /\ p.desired = Absent => working = 0
             /\ p.retirement # Absent \/ p.desired # Absent => Or(p.retirement, p.desired) = target
             /\ p.retirement = Absent /\ p.desired = Absent => target = working
             /\ working > 0 => legacySimulationSpending(p) = target
             /\ Absent \notin Nat
<1>1. Absent \notin Nat
  BY PayloadAssumption
<1>2. p.current \in Nat \cup {Absent} /\ p.desired \in Nat \cup {Absent}
      /\ p.retirement \in Nat \cup {Absent}
  BY FieldsOf
<1>3. PICK working \in Nat : working = Or(p.current, Or(p.desired, 0))
  BY <1>2 DEF Or
<1>4. PICK target \in Nat : target = Or(p.retirement, Or(p.desired, working))
  BY <1>2 DEF Or
<1>5. working > 0 => (target * 100) % working = 0
  BY <1>3, <1>4 DEF FromOldBundle
<1>6. working > 0 => legacySimulationSpending(p) = target
  BY <1>1, <1>2, <1>3, <1>4 DEF legacySimulationSpending, Or
<1>7. /\ p.current # Absent \/ p.desired # Absent => Or(p.current, p.desired) = working
      /\ p.current = Absent /\ p.desired = Absent => working = 0
      /\ p.retirement # Absent \/ p.desired # Absent => Or(p.retirement, p.desired) = target
      /\ p.retirement = Absent /\ p.desired = Absent => target = working
  BY <1>1, <1>2, <1>3, <1>4 DEF Or
<1> QED BY <1>1, <1>3, <1>4, <1>5, <1>6, <1>7

LEMMA HydratedKeeps ==
  ASSUME NEW p, FromOldBundle(p)
  PROVE  Keeps(hydratePlan(p), p)
<1> DEFINE shown == hydratePlan(p)
<1>0. p \in Payloads /\ p.asOf \in Dates /\ p.asOf # Absent /\ p.multiplier = Absent
  BY FieldsOf DEF FromOldBundle
<1>1. HasAge(p) => ageOn(shown.birthDate, shown.asOf) = p.age
  <2> SUFFICES ASSUME HasAge(p) PROVE ageOn(shown.birthDate, shown.asOf) = p.age
    OBVIOUS
  <2>1. p.age \in Nat /\ p.age # Absent /\ p.birthYear \in Int \cup {Absent}
    BY <1>0, FieldsOf DEF HasAge
  <2>2. p.birthDate = Absent /\ Or(p.birthYear, p.asOf.year - p.age) + p.age - p.asOf.year \in {-1, 0}
    BY <2>1 DEF FromOldBundle
  <2>3. shown.asOf = p.asOf /\ shown.birthDate = birthDateFromLegacyAge(p.age, p.birthYear, p.asOf)
    BY <1>0, <2>1, <2>2 DEF hydratePlan, Or
  <2>4. p.birthYear = Absent \/ p.asOf.day < LastDay
    BY DEF HasAge
  <2>5. ageOn(birthDateFromLegacyAge(p.age, p.birthYear, p.asOf), p.asOf) = p.age
    BY <1>0, <2>1, <2>2, <2>4, AgeKept
  <2> HIDE DEF shown
  <2> QED BY <2>3, <2>5
<1>2. p.contributions # Absent => shown.hsa = (p.contributions.hsa > 0)
  <2>1. shown.hsa = HsaOf(p)
    BY DEF hydratePlan
  <2> QED BY <2>1 DEF FromOldBundle, HsaOf, Or
<1>3. HasRatio(p) => retirementSpendingOf(shown) = legacySimulationSpending(p)
  <2> SUFFICES ASSUME HasRatio(p) PROVE retirementSpendingOf(shown) = legacySimulationSpending(p)
    OBVIOUS
  <2>1. PICK working \in Nat, target \in Nat :
          /\ working = Or(p.current, Or(p.desired, 0))
          /\ target = Or(p.retirement, Or(p.desired, working))
          /\ working > 0 => (target * 100) % working = 0
          /\ p.current # Absent \/ p.desired # Absent => Or(p.current, p.desired) = working
          /\ p.current = Absent /\ p.desired = Absent => working = 0
          /\ p.retirement # Absent \/ p.desired # Absent => Or(p.retirement, p.desired) = target
          /\ p.retirement = Absent /\ p.desired = Absent => target = working
          /\ working > 0 => legacySimulationSpending(p) = target
          /\ Absent \notin Nat
    BY <1>0, Amounts
  <2>2. working > 0 /\ Or(p.current, p.desired) = working
    BY <2>1 DEF HasRatio
  <2>3. shown.current = working
    BY <2>1, <2>2 DEF hydratePlan, Or
  <2>4. CASE p.retirement # Absent \/ p.desired # Absent
    <3>1. Or(p.retirement, p.desired) = target /\ target # Absent /\ working # Absent
      BY <2>1, <2>4
    <3>2. shown.multiplier = Percent(target, working)
      BY <1>0, <2>2, <3>1 DEF hydratePlan, Or
    <3>3. (working * Percent(target, working)) \div 100 = target
      BY <2>1, <2>2, RatioExact
    <3> HIDE DEF shown
    <3> QED BY <2>1, <2>2, <2>3, <3>2, <3>3 DEF retirementSpendingOf
  <2>5. CASE p.retirement = Absent /\ p.desired = Absent
    <3>1. Or(p.retirement, p.desired) = Absent
      BY <2>5 DEF Or
    <3>2. shown.multiplier = 100
      BY <1>0, <3>1 DEF hydratePlan, Or, DefaultPlan
    <3>3. (working * 100) \div 100 = working
      OBVIOUS
    <3> HIDE DEF shown
    <3> QED BY <2>1, <2>2, <2>3, <2>5, <3>2, <3>3 DEF retirementSpendingOf
  <2> QED BY <2>4, <2>5
<1> HIDE DEF shown
<1>4. Keeps(shown, p)
  BY <1>1, <1>2, <1>3 DEF Keeps
<1> QED BY <1>4 DEF shown

LEMMA StoredProfileKeeps ==
  ASSUME NEW p, FromOldBundle(p), Absent \notin {p.hsa, p.backdoor}
  PROVE  legacyStoredProfile(p) \in Plans /\ Keeps(legacyStoredProfile(p), p)
<1> DEFINE shown == legacyStoredProfile(p)
<1>0. p \in Payloads /\ p.asOf \in Dates /\ p.asOf # Absent
  BY FieldsOf DEF FromOldBundle
<1>1. PICK working \in Nat, target \in Nat :
        /\ working = Or(p.current, Or(p.desired, 0))
        /\ target = Or(p.retirement, Or(p.desired, working))
        /\ working > 0 => (target * 100) % working = 0
        /\ working > 0 => legacySimulationSpending(p) = target
  BY <1>0, Amounts
<1>2. PICK m \in Nat : m = IF working > 0 THEN Percent(target, working) ELSE 100
  BY PercentTyped
<1>3. PICK b \in Dates :
        b = Or(p.birthDate, birthDateFromLegacyAge(Or(p.age, LegacyAge), p.birthYear, p.asOf))
  <2>1. Or(p.age, LegacyAge) \in Nat
    BY <1>0, FieldsOf, OrTyped, CalendarAssumption
  <2>2. birthDateFromLegacyAge(Or(p.age, LegacyAge), p.birthYear, p.asOf) \in Dates
    BY <1>0, <2>1, FieldsOf, BirthDateTyped
  <2>3. Or(p.birthDate, birthDateFromLegacyAge(Or(p.age, LegacyAge), p.birthYear, p.asOf)) \in Dates
    BY <1>0, <2>2, FieldsOf, OrTyped
  <2> QED BY <2>3
<1>4. PICK q \in Nat, t \in BOOLEAN : q = Or(p.premium, 0) /\ t = Or(p.care, TRUE)
  <2>1. Or(p.premium, 0) \in Nat /\ Or(p.care, TRUE) \in BOOLEAN
    BY <1>0, FieldsOf, OrTyped
  <2> QED BY <2>1
<1>5. PICK h \in BOOLEAN, r \in BOOLEAN : h = p.hsa /\ r = p.backdoor
  <2>1. p.hsa \in BOOLEAN /\ p.backdoor \in BOOLEAN
    BY <1>0, FieldsOf
  <2> QED BY <2>1
<1>6. shown = [birthDate |-> b, asOf |-> p.asOf, current |-> working, multiplier |-> m,
              premium |-> q, care |-> t, hsa |-> h, backdoor |-> r]
  BY <1>1, <1>2, <1>3, <1>4, <1>5 DEF legacyStoredProfile
<1>7. shown \in Plans
  BY <1>0, <1>6 DEF Plans
<1>8. HasAge(p) => ageOn(shown.birthDate, shown.asOf) = p.age
  <2> SUFFICES ASSUME HasAge(p) PROVE ageOn(shown.birthDate, shown.asOf) = p.age
    OBVIOUS
  <2>1. p.age \in Nat /\ p.age # Absent /\ p.birthYear \in Int \cup {Absent}
    BY <1>0, FieldsOf DEF HasAge
  <2>2. p.birthDate = Absent /\ Or(p.birthYear, p.asOf.year - p.age) + p.age - p.asOf.year \in {-1, 0}
    BY <2>1 DEF FromOldBundle
  <2>3. shown.asOf = p.asOf /\ shown.birthDate = birthDateFromLegacyAge(p.age, p.birthYear, p.asOf)
    BY <1>3, <1>6, <2>1, <2>2 DEF Or
  <2>4. p.birthYear = Absent \/ p.asOf.day < LastDay
    BY DEF HasAge
  <2>5. ageOn(birthDateFromLegacyAge(p.age, p.birthYear, p.asOf), p.asOf) = p.age
    BY <1>0, <2>1, <2>2, <2>4, AgeKept
  <2> HIDE DEF shown
  <2> QED BY <2>3, <2>5
<1>9. p.contributions = Absent
  BY DEF FromOldBundle
<1>10. HasRatio(p) => retirementSpendingOf(shown) = legacySimulationSpending(p)
  <2> SUFFICES ASSUME HasRatio(p) PROVE retirementSpendingOf(shown) = legacySimulationSpending(p)
    OBVIOUS
  <2>1. working > 0
    BY <1>1 DEF HasRatio
  <2>2. (working * Percent(target, working)) \div 100 = target
    BY <1>1, <2>1, RatioExact
  <2> HIDE DEF shown
  <2> QED BY <1>1, <1>2, <1>6, <2>1, <2>2 DEF retirementSpendingOf
<1> HIDE DEF shown
<1>11. Keeps(shown, p)
  BY <1>8, <1>9, <1>10 DEF Keeps
<1> QED BY <1>7, <1>11 DEF shown

-----------------------------------------------------------------------------

LEMMA DefaultTyped == DefaultPlan \in Plans
<1>1. Today \in Dates /\ [year |-> Today.year - DefaultAge, day |-> 1] \in Dates
  BY CalendarAssumption DEF Today, Dates
<1>2. PICK b \in Dates, a \in Dates : b = [year |-> Today.year - DefaultAge, day |-> 1] /\ a = Today
  BY <1>1
<1>3. DefaultPlan = [birthDate |-> b, asOf |-> a, current |-> DefaultSpending, multiplier |-> 100,
                     premium |-> DefaultPremium, care |-> TRUE, hsa |-> FALSE, backdoor |-> TRUE]
  BY <1>2 DEF DefaultPlan
<1> QED BY <1>3, CalendarAssumption DEF Plans

LEMMA LoadedTyped ==
  ASSUME NEW stored \in Records PROVE Loaded(stored) \in Plans
<1>1. stored.profile \in Payloads
  BY DEF Records
<1> QED BY <1>1, DefaultTyped, HydratedTyped DEF Loaded

(* A stored plan that is loaded keeps what its old bundle stored, and so     *)
(* does what is written back.                                                *)
LEMMA LoadKeeps ==
  ASSUME NEW stored \in Records, StoredKept(stored)
  PROVE  LET shown == Loaded(stored)
         IN  /\ shown \in Plans
             /\ stored.legacy # Absent => stored.origin = "user" /\ Keeps(shown, stored.legacy)
             /\ stored.legacy # Absent => Keeps(hydratePlan(Written(shown)), stored.legacy)
<1>1. PICK shown : shown = Loaded(stored)
  OBVIOUS
<1>2. shown \in Plans
  BY <1>1, LoadedTyped
<1>3. hydratePlan(Written(shown)) = shown
  BY <1>2, PlanReadsBack
<1>4. stored.legacy # Absent => stored.origin = "user" /\ Keeps(shown, stored.legacy)
  BY <1>1 DEF StoredKept, Loaded
<1> QED BY <1>1, <1>2, <1>3, <1>4

LEMMA LoadBrowserKeeps ==
  ASSUME PayloadInv, LoadBrowser PROVE PayloadInv'
<1> DEFINE shown == Loaded(browser)
<1>0. browser \in Records /\ StoredKept(browser) /\ cloud \in Records /\ cloud' = cloud
      /\ StoredKept(cloud) /\ cloud.origin # "starter"
  BY DEF PayloadInv, LoadBrowser
<1>1. /\ shown \in Plans
      /\ browser.legacy # Absent => browser.origin = "user" /\ Keeps(shown, browser.legacy)
      /\ browser.legacy # Absent => Keeps(hydratePlan(Written(shown)), browser.legacy)
  BY <1>0, LoadKeeps
<1>2. CASE Valid(shown)
  <2>1. loaded' = shown /\ source' = browser.legacy
    BY <1>2 DEF LoadBrowser
  <2>2. PICK origin \in Origins :
          /\ origin = IF browser.origin = "none" THEN "starter" ELSE browser.origin
          /\ browser' = [browser EXCEPT !.profile = Written(shown), !.origin = origin]
    BY <1>0, <1>2 DEF LoadBrowser, Records, Origins
  <2>3. browser' \in Records /\ browser'.profile = Written(shown) /\ browser'.origin = origin
        /\ browser'.legacy = browser.legacy
    <3>1. Written(shown) \in Payloads
      BY <1>1, WrittenIsPayload
    <3> QED BY <1>0, <2>2, <3>1 DEF Records
  <2>4. StoredKept(browser)'
    BY <1>1, <2>2, <2>3 DEF StoredKept
  <2>5. LegacyPlanKept'
    BY <1>1, <2>1 DEF LegacyPlanKept
  <2>6. StoredKept(cloud)'
    BY <1>0 DEF StoredKept
  <2> QED BY <1>0, <1>1, <2>1, <2>3, <2>4, <2>5, <2>6 DEF PayloadInv
<1>3. CASE ~Valid(shown)
  <2>1. loaded' = DefaultPlan /\ source' = Absent /\ browser' = browser
    BY <1>3 DEF LoadBrowser
  <2> QED BY <1>0, <2>1, DefaultTyped DEF PayloadInv, LegacyPlanKept, StoredKept
<1> QED BY <1>2, <1>3

LEMMA LoadCloudKeeps ==
  ASSUME PayloadInv, LoadCloud PROVE PayloadInv'
<1> DEFINE shown == Loaded(cloud)
<1>0. StoredKept(cloud) /\ cloud \in Records /\ cloud' = cloud /\ cloud.origin # "starter"
  BY DEF PayloadInv, LoadCloud
<1>1. /\ shown \in Plans
      /\ cloud.legacy # Absent => cloud.origin = "user" /\ Keeps(shown, cloud.legacy)
      /\ cloud.legacy # Absent => Keeps(hydratePlan(Written(shown)), cloud.legacy)
  BY <1>0, LoadKeeps
<1>2. loaded' = shown /\ source' = cloud.legacy
      /\ browser' = [profile |-> Written(shown), origin |-> "user", legacy |-> cloud.legacy]
  BY DEF LoadCloud
<1>3. browser' \in Records
  <2>1. Written(shown) \in Payloads
    BY <1>1, WrittenIsPayload
  <2> QED BY <1>0, <1>2, <2>1 DEF Records, Origins
<1>4. StoredKept(browser)'
  BY <1>1, <1>2 DEF StoredKept
<1>5. LegacyPlanKept' /\ StoredKept(cloud)'
  BY <1>0, <1>1, <1>2 DEF LegacyPlanKept, StoredKept
<1> QED BY <1>0, <1>1, <1>2, <1>3, <1>4, <1>5 DEF PayloadInv

LEMMA EditKeeps ==
  ASSUME PayloadInv, NEW e \in Edits, Edit(e) PROVE PayloadInv'
<1>1. PICK candidate :
        candidate = [f \in DOMAIN loaded |-> IF f \in DOMAIN e THEN e[f] ELSE loaded[f]]
  OBVIOUS
<1>2. candidate \in Plans
  <2>1. loaded \in Plans /\ DOMAIN loaded = DOMAIN Kinds
    BY DEF PayloadInv, Plans, Kinds
  <2>2. \A f \in DOMAIN Kinds : loaded[f] \in Kinds[f]
    BY <2>1 DEF Plans, Kinds
  <2>3. \A f \in DOMAIN Kinds : candidate[f] \in Kinds[f]
    BY <1>1, <2>1, <2>2, CalendarAssumption
  <2>4. DOMAIN candidate = DOMAIN Kinds /\ candidate = [f \in DOMAIN Kinds |-> candidate[f]]
    BY <1>1, <2>1
  <2>5. candidate =
          [birthDate |-> candidate.birthDate, asOf |-> candidate.asOf,
           current |-> candidate.current, multiplier |-> candidate.multiplier,
           premium |-> candidate.premium, care |-> candidate.care, hsa |-> candidate.hsa,
           backdoor |-> candidate.backdoor]
    BY <2>4 DEF Kinds
  <2>6. candidate.birthDate \in Dates /\ candidate.asOf \in Dates /\ candidate.current \in Nat
        /\ candidate.multiplier \in Nat /\ candidate.premium \in Nat
        /\ candidate.care \in BOOLEAN /\ candidate.hsa \in BOOLEAN /\ candidate.backdoor \in BOOLEAN
    BY <2>3 DEF Kinds
  <2> QED BY <2>5, <2>6 DEF Plans
<1>3. PICK stored : stored = [profile |-> Written(candidate), origin |-> "user", legacy |-> Absent]
  OBVIOUS
<1>4. loaded' = candidate /\ source' = Absent /\ browser' = stored
      /\ cloud' \in {stored, cloud}
  BY <1>1, <1>3 DEF Edit
<1>5. stored \in Records /\ stored.legacy = Absent /\ stored.origin = "user"
  BY <1>2, <1>3, WrittenIsPayload DEF Records, Origins
<1>6. cloud' \in Records /\ StoredKept(cloud)' /\ cloud'.origin # "starter"
  BY <1>4, <1>5 DEF PayloadInv, StoredKept
<1>7. StoredKept(browser)' /\ LegacyPlanKept'
  BY <1>4, <1>5 DEF StoredKept, LegacyPlanKept
<1> QED BY <1>2, <1>4, <1>5, <1>6, <1>7 DEF PayloadInv

LEMMA OldBundleKeeps ==
  ASSUME PayloadInv, NEW q \in LegacyPayloads,
         OldBundleStores(Written(q)) \/ OldBundleSaves(Written(q))
  PROVE  PayloadInv'
<1>1. PICK p : p = Written(q)
  OBVIOUS
<1>2. FromOldBundle(p) /\ p \in Payloads
  BY <1>1, PayloadAssumption DEF FromOldBundle
<1>3. CASE OldBundleStores(p)
  <2>1. browser' = [profile |-> p, origin |-> "user", legacy |-> p]
        /\ UNCHANGED <<loaded, mode, cloud, source>>
    BY <1>3 DEF OldBundleStores
  <2>2. browser' \in Records
    BY <1>2, <2>1 DEF Records, Origins
  <2>3. StoredKept(browser)'
    BY <1>2, <2>1, HydratedKeeps DEF StoredKept
  <2> QED BY <2>1, <2>2, <2>3 DEF PayloadInv, StoredKept, LegacyPlanKept
<1>4. CASE OldBundleSaves(p)
  <2>1. PICK shown : shown = legacyStoredProfile(p)
    OBVIOUS
  <2>2. shown \in Plans /\ Keeps(shown, p)
    BY <1>2, <1>4, <2>1, StoredProfileKeeps DEF OldBundleSaves
  <2>3. cloud' = [profile |-> Written(shown), origin |-> "user", legacy |-> p]
        /\ UNCHANGED <<loaded, mode, browser, source>>
    BY <1>4, <2>1 DEF OldBundleSaves
  <2>4. cloud' \in Records
    BY <1>2, <2>2, <2>3, WrittenIsPayload DEF Records, Origins
  <2>5. hydratePlan(Written(shown)) = shown
    BY <2>2, PlanReadsBack
  <2>6. StoredKept(cloud)'
    BY <2>2, <2>3, <2>5 DEF StoredKept
  <2>7. cloud'.origin # "starter"
    BY <2>3
  <2> QED BY <2>3, <2>4, <2>6, <2>7 DEF PayloadInv, StoredKept, LegacyPlanKept
<1> QED BY <1>1, <1>3, <1>4

LEMMA PayloadStarts == PayloadInit => PayloadInv
<1> SUFFICES ASSUME PayloadInit PROVE PayloadInv
  OBVIOUS
<1>1. Empty \in Payloads
  BY DEF Empty, Payloads
<1>2. NoPayload \in Records
  BY <1>1 DEF NoPayload, Records, Origins
<1> QED BY <1>2, DefaultTyped
        DEF PayloadInit, PayloadInv, StoredKept, LegacyPlanKept, NoPayload

LEMMA PayloadStepKeeps == PayloadInv /\ [PayloadNext]_payloadVars => PayloadInv'
<1> SUFFICES ASSUME PayloadInv, [PayloadNext]_payloadVars PROVE PayloadInv'
  OBVIOUS
<1>1. CASE UNCHANGED payloadVars
  BY <1>1 DEF payloadVars, PayloadInv, StoredKept, LegacyPlanKept
<1>2. CASE LoadBrowser
  BY <1>2, LoadBrowserKeeps
<1>3. CASE LoadCloud
  BY <1>3, LoadCloudKeeps
<1>4. CASE \E e \in Edits : Edit(e)
  BY <1>4, EditKeeps
<1>5. CASE \E q \in LegacyPayloads : OldBundleStores(Written(q)) \/ OldBundleSaves(Written(q))
  BY <1>5, OldBundleKeeps
<1> QED BY <1>1, <1>2, <1>3, <1>4, <1>5 DEF PayloadNext

LEMMA ReloadFromInv == PayloadInv => ReloadKeepsPlan
<1> SUFFICES ASSUME PayloadInv PROVE ReloadKeepsPlan
  OBVIOUS
<1>1. hydratePlan(Written(loaded)) = loaded
  BY PlanReadsBack DEF PayloadInv
<1>2. ReadsBack
  BY <1>1 DEF ReadsBack, Loaded, PayloadInv
<1> QED BY <1>2 DEF ReloadKeepsPlan, PayloadInv

(* A plan that is stored reads back as it was, and one that was migrated     *)
(* keeps the age and the retirement spending its old bundle stored           *)
(* (usePlan.ts, schemas.ts, age.ts).                                         *)
THEOREM PlansReadBack == PayloadSpec => []ReloadKeepsPlan
BY PayloadStarts, PayloadStepKeeps, ReloadFromInv, PTL DEF PayloadSpec

-----------------------------------------------------------------------------
(* The levers *)

LEMMA Larger ==
  ASSUME NEW a \in Int, NEW b \in Int
  PROVE  Max({a, b}) = IF a >= b THEN a ELSE b
BY DEF Max

LEMMA Smaller ==
  ASSUME NEW a \in Int, NEW b \in Int
  PROVE  Min({a, b}) = IF a <= b THEN a ELSE b
BY DEF Min

(* Rounding to a multiple of a step, and where it stops. *)
LEMMA RoundsDown ==
  ASSUME NEW v \in Int, NEW t \in Nat \ {0}
  PROVE  /\ Down(v, t) \in Int /\ Down(v, t) <= v /\ v < Down(v, t) + t
BY DEF Down

LEMMA RoundsUp ==
  ASSUME NEW v \in Int, NEW t \in Nat \ {0}
  PROVE  /\ Up(v, t) \in Int /\ v <= Up(v, t) /\ Up(v, t) < v + t
BY DEF Up

LEMMA UpStaysUnder ==
  ASSUME NEW v \in Int, NEW t \in Nat \ {0}, NEW m \in Int, v <= m * t
  PROVE  Up(v, t) <= m * t
<1> DEFINE q == (v + t - 1) \div t
<1>1. q \in Int /\ q * t <= v + t - 1
  OBVIOUS
<1>2. SUFFICES ASSUME q > m PROVE FALSE
  <2>1. q <= m => q * t <= m * t
    BY <1>1
  <2> QED BY <1>1, <2>1 DEF Up
<1>3. q * t >= (m + 1) * t
  BY <1>1, <1>2
<1>4. (m + 1) * t = m * t + t
  OBVIOUS
<1> QED BY <1>1, <1>3, <1>4

LEMMA DownStaysOver ==
  ASSUME NEW v \in Int, NEW t \in Nat \ {0}, NEW m \in Int, m * t <= v
  PROVE  m * t <= Down(v, t)
<1> DEFINE q == v \div t
<1>1. q \in Int /\ v < q * t + t
  OBVIOUS
<1>2. SUFFICES ASSUME q < m PROVE FALSE
  <2>1. q >= m => q * t >= m * t
    BY <1>1
  <2> QED BY <1>1, <2>1 DEF Down
<1>3. (q + 1) * t <= m * t
  BY <1>1, <1>2
<1>4. (q + 1) * t = q * t + t
  BY <1>1
<1> QED BY <1>1, <1>3, <1>4

Turnable ==
  [age : Int, lifeExpectancy : Int, retirementAge : Int, currentSalary : Int, currentSpending : Int,
   retirementSpendingMultiplier : Int, claimAge : Int, ssEnabled : BOOLEAN, manualOverride : BOOLEAN,
   rothConversion : {CONVERSION_STEPS[i] : i \in 1 .. 6}]

ValidPlans == {p \in Turnable : ValidPlan(p)}

(* The spending axis rests on the salary alone, but for the bands that reach *)
(* the spending.                                                             *)
AxisBottom(p) ==
  Max({MIN_SPENDING_BAND, Down(Max({p.currentSalary, MIN_SPENDING_BAND}) + 40, 80) \div 4})
AxisBand(p) == Max({AxisBottom(p) + MIN_SPENDING_BAND, Up(Max({p.currentSalary, MIN_SPENDING_BAND}), 20)})

(* The amounts are in thousands of dollars: the step of the spending curve,  *)
(* doubled as often as it may be, carries it past the largest.               *)
LEMMA LargestAmount ==
  /\ MAX_PLAN_DOLLARS \in Int /\ 1000 <= MAX_PLAN_DOLLARS
  /\ MAX_PLAN_DOLLARS <= 130 * (64 * 128)
BY SMT DEF MAX_PLAN_DOLLARS

LEMMA PlanTyped ==
  ASSUME NEW p \in ValidPlans
  PROVE  /\ p.age \in Int /\ p.lifeExpectancy \in Int /\ p.retirementAge \in Int
         /\ p.currentSalary \in Int /\ p.currentSpending \in Int
         /\ p.retirementSpendingMultiplier \in Int /\ p.claimAge \in Int
         /\ \E i \in 1 .. 6 : p.rothConversion = CONVERSION_STEPS[i]
BY DEF ValidPlans, Turnable

LEMMA PlanBounded ==
  ASSUME NEW p \in ValidPlans
  PROVE  /\ 45 <= p.retirementAge /\ p.retirementAge <= 100
         /\ 65 <= p.lifeExpectancy /\ p.lifeExpectancy <= 120
         /\ p.lifeExpectancy > p.retirementAge
         /\ 62 <= p.claimAge /\ p.claimAge <= 70
         /\ 0 <= p.currentSalary /\ p.currentSalary <= MAX_PLAN_DOLLARS
         /\ 0 <= p.currentSpending /\ p.currentSpending <= MAX_PLAN_DOLLARS
<1>1. /\ 45 <= p.retirementAge /\ p.retirementAge <= 100
      /\ 65 <= p.lifeExpectancy /\ p.lifeExpectancy <= 120
      /\ p.lifeExpectancy > p.retirementAge
      /\ 62 <= p.claimAge /\ p.claimAge <= 70
  BY PlanTyped DEF ValidPlans, ValidPlan, MIN_RETIREMENT_AGE
<1>2. p.currentSalary \in 0 .. MAX_PLAN_DOLLARS /\ p.currentSpending \in 0 .. MAX_PLAN_DOLLARS
  BY DEF ValidPlans, ValidPlan
<1> QED BY <1>1, <1>2, PlanTyped, LargestAmount

LEMMA Axis ==
  ASSUME NEW p \in ValidPlans
  PROVE  /\ \E b \in Nat \ {0} : AxisBottom(p) = b * 20 /\ b * 20 <= MAX_PLAN_DOLLARS
         /\ \E b \in Nat \ {0} : AxisBand(p) = b * 20 /\ AxisBottom(p) < b * 20
         /\ spendingAxisRange(p) =
              [low |-> AxisBottom(p),
               high |-> Max({AxisBand(p), Up(p.currentSpending, AxisBand(p))})]
<1> DEFINE salary == Max({p.currentSalary, 20})
           q == (salary + 40) \div 80
           c == (salary + 20 - 1) \div 20
           M == MAX_PLAN_DOLLARS
<1>1. M \in Int /\ 1000 <= M
  BY LargestAmount
<1>2. salary \in Nat /\ 20 <= salary /\ salary <= M
  <2>1. p.currentSalary \in Nat /\ p.currentSalary <= M
    BY PlanTyped, PlanBounded
  <2> QED BY <1>1, <2>1, Larger
<1> HIDE DEF salary, M
<1>3. q \in Nat /\ q * 80 <= salary + 40 /\ c \in Nat \ {0}
  BY <1>2
<1>4. Down(salary + 40, 80) = q * 80 /\ Up(salary, 20) = c * 20
  BY DEF Down, Up
<1> HIDE DEF q, c
<1>5. (q * 80) \div 4 = q * 20
  BY <1>3
<1>6. AxisBottom(p) = Max({20, q * 20})
  BY <1>4, <1>5 DEF AxisBottom, MIN_SPENDING_BAND, salary
<1>7. PICK b \in Nat \ {0} : AxisBottom(p) = b * 20 /\ b * 20 <= M
  <2>1. CASE q = 0
    <3>1. AxisBottom(p) = 1 * 20
      BY <1>6, <2>1, Larger
    <3> QED BY <1>1, <3>1
  <2>2. CASE q # 0
    <3>1. AxisBottom(p) = q * 20
      BY <1>3, <1>6, <2>2, Larger
    <3> QED BY <1>1, <1>2, <1>3, <2>2, <3>1
  <2> QED BY <2>1, <2>2
<1>8. AxisBand(p) = Max({b * 20 + 20, c * 20})
  BY <1>4, <1>7 DEF AxisBand, MIN_SPENDING_BAND, salary
<1>9. \E d \in Nat \ {0} : AxisBand(p) = d * 20 /\ AxisBottom(p) < d * 20
  <2>1. CASE c <= b + 1
    <3>1. AxisBand(p) = (b + 1) * 20
      BY <1>3, <1>7, <1>8, <2>1, Larger
    <3> QED BY <1>7, <3>1
  <2>2. CASE c > b + 1
    <3>1. AxisBand(p) = c * 20
      BY <1>3, <1>7, <1>8, <2>2, Larger
    <3> QED BY <1>3, <1>7, <2>2, <3>1
  <2> QED BY <1>3, <1>7, <2>1, <2>2
<1>10. spendingAxisRange(p) =
        [low |-> AxisBottom(p), high |-> Max({AxisBand(p), Up(p.currentSpending, AxisBand(p))})]
  BY DEF spendingAxisRange, AxisBottom, AxisBand, MIN_SPENDING_BAND
<1> QED BY <1>7, <1>9, <1>10 DEF M

(* Where the slider's track ends. *)
LEMMA AgeTrack ==
  ASSUME NEW p \in ValidPlans
  PROVE  LET r == leverRange("retirementAge", p)
         IN  /\ r.min = 45 /\ r.max \in 45 .. 100 /\ r.max < p.lifeExpectancy
             /\ \E m \in Int : /\ p.retirementAge <= m * 5 /\ 70 <= m * 5
                               /\ m * 5 <= 70 \/ m * 5 < p.retirementAge + 5
                               /\ r.max = Min({Min({100, p.lifeExpectancy - 1}), m * 5})
<1> DEFINE r == leverRange("retirementAge", p)
           u == Up(p.retirementAge, 5)
           d == Down(p.retirementAge, 5)
           top == Min({100, p.lifeExpectancy - 1})
<1>1. PICK age \in Int, life \in Int :
        /\ age = p.retirementAge /\ life = p.lifeExpectancy
        /\ 45 <= age /\ age <= 100 /\ 65 <= life /\ age < life
  BY PlanTyped, PlanBounded
<1>2. u \in Int /\ d \in Int /\ age <= u /\ u < age + 5
  <2>1. Up(age, 5) \in Int /\ age <= Up(age, 5) /\ Up(age, 5) < age + 5
    BY RoundsUp
  <2>2. Down(age, 5) \in Int
    BY RoundsDown
  <2> QED BY <1>1, <2>1, <2>2
<1>3. PICK n \in Int : u = n * 5
  <2>1. (age + 5 - 1) \div 5 \in Int
    BY <1>1
  <2> QED BY <1>1, <2>1 DEF Up
<1>4. /\ bounds("retirementAge", p) = [low |-> 45, high |-> top]
      /\ base("retirementAge", p) = [low |-> 45, high |-> 70]
      /\ Lever("retirementAge", p) = p.retirementAge /\ tickStep["retirementAge"] = 5
  BY DEF bounds, base, Lever, tickStep, MIN_RETIREMENT_AGE
<1> HIDE DEF u, d
<1>5. r.min = Max({45, Min({45, d})}) /\ r.max = Max({r.min, Min({top, Max({70, u})})})
  BY <1>4 DEF leverRange, u, d
<1>6. top \in Int /\ 45 <= top /\ top <= 100 /\ top < life
  BY <1>1, Smaller
<1> HIDE DEF r, top
<1>7. r.min = 45
  <2>1. Min({45, d}) \in Int /\ Min({45, d}) <= 45
    BY <1>2, Smaller
  <2>2. Max({45, Min({45, d})}) = 45
    BY <2>1, Larger
  <2> QED BY <1>5, <2>2
<1>8. PICK m \in Int : Max({70, u}) = m * 5 /\ u <= m * 5 /\ 70 <= m * 5 /\ (m * 5 <= 70 \/ m * 5 = u)
  <2>1. CASE u <= 70
    <3>1. Max({70, u}) = 14 * 5
      BY <1>2, <2>1, Larger
    <3> QED BY <2>1, <3>1
  <2>2. CASE u > 70
    <3>1. Max({70, u}) = n * 5
      BY <1>2, <1>3, <2>2, Larger
    <3> QED BY <1>3, <2>2, <3>1
  <2> QED BY <1>2, <2>1, <2>2
<1>9. Min({top, m * 5}) \in Int /\ 45 <= Min({top, m * 5}) /\ Min({top, m * 5}) <= top
  BY <1>6, <1>8, Smaller
<1>10. Max({45, Min({top, m * 5})}) = Min({top, m * 5})
  BY <1>9, Larger
<1>11. r.max = Min({top, m * 5})
  BY <1>5, <1>7, <1>8, <1>10
<1>12. /\ r.min = 45 /\ r.max \in 45 .. 100 /\ r.max < p.lifeExpectancy
       /\ p.retirementAge <= m * 5 /\ 70 <= m * 5
       /\ m * 5 <= 70 \/ m * 5 < p.retirementAge + 5
  BY <1>1, <1>2, <1>6, <1>7, <1>8, <1>9, <1>11
<1> QED BY <1>11, <1>12 DEF r, top

LEMMA ClaimTrack ==
  ASSUME NEW p \in ValidPlans
  PROVE  LET r == leverRange("socialSecurityClaimAge", p) IN r.min = 62 /\ r.max = 70
<1> DEFINE r == leverRange("socialSecurityClaimAge", p)
           u == Up(p.claimAge, 2)
           d == Down(p.claimAge, 2)
<1>1. u \in Int /\ d \in Int
  <2>1. PICK age \in Int : age = p.claimAge
    BY PlanTyped
  <2>2. Up(age, 2) \in Int
    BY RoundsUp
  <2>3. Down(age, 2) \in Int
    BY RoundsDown
  <2> QED BY <2>1, <2>2, <2>3
<1>2. /\ bounds("socialSecurityClaimAge", p) = [low |-> 62, high |-> 70]
      /\ base("socialSecurityClaimAge", p) = [low |-> 62, high |-> 70]
      /\ Lever("socialSecurityClaimAge", p) = p.claimAge /\ tickStep["socialSecurityClaimAge"] = 2
  BY DEF bounds, base, Lever, tickStep
<1> HIDE DEF u, d
<1>3. r.min = Max({62, Min({62, d})}) /\ r.max = Max({r.min, Min({70, Max({70, u})})})
  BY <1>2 DEF leverRange, u, d
<1> HIDE DEF r
<1>4. r.min = 62
  <2>1. Min({62, d}) \in Int /\ Min({62, d}) <= 62
    BY <1>1, Smaller
  <2>2. Max({62, Min({62, d})}) = 62
    <3>1. PICK x \in Int : x = Min({62, d}) /\ x <= 62
      BY <2>1
    <3>2. Max({62, x}) = 62
      BY <3>1, Larger
    <3> QED BY <3>1, <3>2
  <2> QED BY <1>3, <2>2
<1>5. Max({70, u}) \in Int /\ Max({70, u}) >= 70
  BY <1>1, Larger
<1>6. Min({70, Max({70, u})}) = 70
  BY <1>5, Smaller
<1>7. Max({62, 70}) = 70
  BY Larger
<1> QED BY <1>3, <1>4, <1>6, <1>7 DEF r

LEMMA Steps ==
  /\ Len(CONVERSION_STEPS) = 6 /\ DOMAIN CONVERSION_STEPS = 1 .. 6
  /\ \A i \in 1 .. 6 : CONVERSION_STEPS[i].enabled \in BOOLEAN /\ (CONVERSION_STEPS[i].enabled <=> i # 1)
  /\ \A i, j \in 1 .. 6 : CONVERSION_STEPS[i] = CONVERSION_STEPS[j] => i = j
<1> DEFINE s == CONVERSION_STEPS
<1>1. /\ s[1] = [enabled |-> FALSE, ceiling |-> "bracket24"]
      /\ s[2] = [enabled |-> TRUE, ceiling |-> "bracket12"]
      /\ s[3] = [enabled |-> TRUE, ceiling |-> "irmaaTier"]
      /\ s[4] = [enabled |-> TRUE, ceiling |-> "bracket22"]
      /\ s[5] = [enabled |-> TRUE, ceiling |-> "bracket24"]
      /\ s[6] = [enabled |-> TRUE, ceiling |-> "bracket32"]
      /\ Len(s) = 6
  BY DEF CONVERSION_STEPS
<1>2. DOMAIN s = 1 .. 6
  BY DEF CONVERSION_STEPS
<1> HIDE DEF s
<1>3. \A i \in 1 .. 6 : s[i].enabled \in BOOLEAN /\ (s[i].enabled <=> i # 1)
  <2> TAKE i \in 1 .. 6
  <2>1. i \in {1, 2, 3, 4, 5, 6}
    OBVIOUS
  <2>2. s[1].enabled = FALSE /\ \A j \in {2, 3, 4, 5, 6} : s[j].enabled = TRUE
    BY <1>1
  <2> QED BY <2>1, <2>2
<1>4. \A i, j \in 1 .. 6 : s[i] = s[j] => s[i].ceiling = s[j].ceiling /\ s[i].enabled = s[j].enabled
  OBVIOUS
<1>5. /\ s[1].ceiling = "bracket24" /\ s[2].ceiling = "bracket12" /\ s[3].ceiling = "irmaaTier"
      /\ s[4].ceiling = "bracket22" /\ s[5].ceiling = "bracket24" /\ s[6].ceiling = "bracket32"
  BY <1>1
<1>6. \A i, j \in 1 .. 6 : s[i].ceiling = s[j].ceiling /\ (i = 1 <=> j = 1) => i = j
  <2> TAKE i, j \in 1 .. 6
  <2>1. i \in {1, 2, 3, 4, 5, 6} /\ j \in {1, 2, 3, 4, 5, 6}
    OBVIOUS
  <2> QED BY <1>5, <2>1
<1> QED BY <1>1, <1>2, <1>3, <1>4, <1>6 DEF s

LEMMA StepOf ==
  ASSUME NEW p \in ValidPlans
  PROVE  /\ conversionStepOf(p) \in 0 .. 5
         /\ \A i \in 1 .. 6 : p.rothConversion = CONVERSION_STEPS[i] => conversionStepOf(p) = i - 1
<1>1. PICK i \in 1 .. 6 : p.rothConversion = CONVERSION_STEPS[i]
  BY DEF ValidPlans, Turnable
<1>2. conversionStepOf(p) = i - 1
  <2>1. CASE i = 1
    BY <1>1, <2>1, Steps DEF conversionStepOf
  <2>2. CASE i # 1
    <3>1. (CHOOSE j \in DOMAIN CONVERSION_STEPS : CONVERSION_STEPS[j] = p.rothConversion) = i
      BY <1>1, Steps
    <3> QED BY <1>1, <2>2, <3>1, Steps DEF conversionStepOf
  <2> QED BY <2>1, <2>2
<1> QED BY <1>1, <1>2, Steps

LEMMA RothTrack ==
  ASSUME NEW p \in ValidPlans
  PROVE  LET r == leverRange("rothConversion", p) IN r.min = 0 /\ r.max = 5
<1> DEFINE r == leverRange("rothConversion", p)
           u == Up(conversionStepOf(p), 1)
           d == Down(conversionStepOf(p), 1)
<1>1. u \in Int /\ d \in Int
  <2>1. PICK i \in Int : i = conversionStepOf(p)
    BY StepOf
  <2>2. Up(i, 1) \in Int
    BY RoundsUp
  <2>3. Down(i, 1) \in Int
    BY RoundsDown
  <2> QED BY <2>1, <2>2, <2>3
<1>2. /\ bounds("rothConversion", p) = [low |-> 0, high |-> 5]
      /\ base("rothConversion", p) = [low |-> 0, high |-> 5]
      /\ Lever("rothConversion", p) = conversionStepOf(p) /\ tickStep["rothConversion"] = 1
  BY Steps DEF bounds, base, Lever, tickStep
<1>3. d >= 0 /\ u <= 5
  BY StepOf DEF Up, Down
<1> HIDE DEF u, d
<1>4. r.min = Max({0, Min({0, d})}) /\ r.max = Max({r.min, Min({5, Max({5, u})})})
  BY <1>2 DEF leverRange, u, d
<1> HIDE DEF r
<1>5. Min({0, d}) = 0 /\ Max({5, u}) = 5 /\ Min({5, 5}) = 5
  BY <1>1, <1>3, Larger, Smaller
<1>6. r.min = 0
  BY <1>4, <1>5, Larger
<1> QED BY <1>4, <1>5, <1>6, Larger DEF r

AxisTop(p) == Max({AxisBand(p), Up(p.currentSpending, AxisBand(p))})

LEMMA SpendingTrack ==
  ASSUME NEW p \in ValidPlans
  PROVE  LET r == leverRange("spending", p)
         IN  /\ r.min = Min({AxisBottom(p), Down(p.currentSpending, 20)})
             /\ r.max = Min({MAX_PLAN_DOLLARS, AxisTop(p)})
             /\ \E m \in Nat : r.min = m * 20
             /\ r.min <= p.currentSpending /\ p.currentSpending <= AxisTop(p)
             /\ \E n, b \in Nat \ {0} : AxisBand(p) = b /\ AxisTop(p) = n * b
             /\ r.max \in Int /\ r.min <= r.max /\ r.max <= MAX_PLAN_DOLLARS
<1> DEFINE r == leverRange("spending", p)
           M == MAX_PLAN_DOLLARS
<1>1. PICK s \in Nat : s = p.currentSpending /\ s <= M
  BY PlanTyped, PlanBounded
<1>2. PICK a \in Nat \ {0} : AxisBottom(p) = a * 20
  BY Axis
<1>3. PICK c \in Nat \ {0} : AxisBand(p) = c * 20
  BY Axis
<1>4. PICK b \in Nat \ {0} : b = c * 20
  BY <1>3
<1>5. M \in Int
  BY LargestAmount
<1> HIDE DEF M
<1>6. Up(s, b) \in Int /\ s <= Up(s, b)
  BY RoundsUp
<1>7. PICK j \in Nat : Up(s, b) = j * b
  <2>1. (s + b - 1) \div b \in Nat
    BY <1>1, <1>4
  <2> QED BY <2>1 DEF Up
<1>8. PICK n \in Nat \ {0} : AxisTop(p) = n * b /\ s <= n * b
  <2>1. AxisTop(p) = Max({b, j * b})
    BY <1>1, <1>3, <1>4, <1>7 DEF AxisTop
  <2>2. j * b \in Nat
    OBVIOUS
  <2>3. CASE b >= j * b
    <3>1. AxisTop(p) = 1 * b
      BY <2>1, <2>2, <2>3, Larger
    <3> QED BY <1>6, <1>7, <2>3, <3>1
  <2>4. CASE ~(b >= j * b)
    <3>1. AxisTop(p) = j * b
      BY <2>1, <2>2, <2>4, Larger
    <3>2. j # 0
      BY <2>4
    <3> QED BY <1>6, <1>7, <3>1, <3>2
  <2> QED BY <2>3, <2>4
<1>9. PICK top \in Int : top = n * b
  OBVIOUS
<1>10. Up(s, 20) \in Int /\ Up(s, 20) <= top
  <2>1. n * c \in Int /\ top = (n * c) * 20
    BY <1>4, <1>9
  <2>2. Up(s, 20) <= (n * c) * 20
    BY <1>8, <1>9, <2>1, UpStaysUnder
  <2>3. Up(s, 20) \in Int
    BY RoundsUp
  <2> QED BY <2>1, <2>2, <2>3
<1>11. PICK d \in Nat : Down(s, 20) = d * 20 /\ d * 20 <= s
  <2>1. s \div 20 \in Nat /\ (s \div 20) * 20 <= s
    BY <1>1
  <2> QED BY <2>1 DEF Down
<1>12. PICK m \in Nat : Min({a * 20, d * 20}) = m * 20 /\ m * 20 <= d * 20
  <2>0. a <= d \/ a > d
    OBVIOUS
  <2>1. CASE a <= d
    <3>1. Min({a * 20, d * 20}) = a * 20
      BY <2>1, Smaller
    <3> QED BY <2>1, <3>1
  <2>2. CASE a > d
    <3>1. Min({a * 20, d * 20}) = d * 20
      BY <2>2, Smaller
    <3> QED BY <2>2, <3>1
  <2> QED BY <2>0, <2>1, <2>2
<1>13. /\ bounds("spending", p) = [low |-> 0, high |-> M]
       /\ base("spending", p) = [low |-> a * 20, high |-> top]
       /\ Lever("spending", p) = s /\ tickStep["spending"] = 20
  BY <1>1, <1>2, <1>8, <1>9, Axis DEF bounds, base, Lever, tickStep, AxisTop, M
<1>14. /\ r.min = Max({0, Min({a * 20, d * 20})})
       /\ r.max = Max({r.min, Min({M, Max({top, Up(s, 20)})})})
  BY <1>11, <1>13 DEF leverRange
<1> HIDE DEF r
<1>15. r.min = m * 20
  <2>1. Max({0, m * 20}) = m * 20
    BY Larger
  <2> QED BY <1>12, <1>14, <2>1
<1>16. Max({top, Up(s, 20)}) = top
  BY <1>10, Larger
<1>17. Min({M, top}) \in Int /\ Min({M, top}) <= M /\ m * 20 <= Min({M, top})
  BY <1>1, <1>5, <1>8, <1>9, <1>11, <1>12, Smaller
<1>18. r.max = Min({M, top})
  <2>1. PICK x \in Int : x = Min({M, top}) /\ m * 20 <= x
    BY <1>17
  <2>2. Max({m * 20, x}) = x
    BY <2>1, Larger
  <2> QED BY <1>14, <1>15, <1>16, <2>1, <2>2
<1>19. /\ r.min = Min({AxisBottom(p), Down(p.currentSpending, 20)})
       /\ r.max = Min({M, AxisTop(p)})
       /\ r.min = m * 20 /\ m \in Nat
       /\ AxisBand(p) = b /\ AxisTop(p) = n * b
  BY <1>1, <1>2, <1>3, <1>4, <1>8, <1>9, <1>11, <1>12, <1>15, <1>18
<1>20. /\ r.min <= p.currentSpending /\ p.currentSpending <= AxisTop(p)
       /\ r.max \in Int /\ r.min <= r.max /\ r.max <= M
  BY <1>1, <1>8, <1>11, <1>12, <1>15, <1>17, <1>18
<1> QED BY <1>19, <1>20 DEF r, M

LEMMA TrackIsOrdered ==
  ASSUME NEW p \in ValidPlans, NEW k \in LeverKey
  PROVE  LET r == leverRange(k, p) IN r.min \in Int /\ r.max \in Int /\ r.min <= r.max
<1>1. CASE k = "retirementAge"
  <2>1. leverRange(k, p).min = 45 /\ leverRange(k, p).max \in 45 .. 100
    BY <1>1, AgeTrack
  <2> QED BY <2>1
<1>2. CASE k = "spending"
  <2>1. PICK m \in Nat : leverRange(k, p).min = m * 20
    BY <1>2, SpendingTrack
  <2>2. leverRange(k, p).max \in Int /\ leverRange(k, p).min <= leverRange(k, p).max
    BY <1>2, SpendingTrack
  <2> QED BY <2>1, <2>2
<1>3. CASE k = "socialSecurityClaimAge"
  BY <1>3, ClaimTrack
<1>4. CASE k = "rothConversion"
  BY <1>4, RothTrack
<1> QED BY <1>1, <1>2, <1>3, <1>4 DEF LeverKey

(* The schema accepts the plan with a lever anywhere on its track, and the   *)
(* lever reads back where it was put.                                        *)
LEMMA TurnedPlan ==
  ASSUME NEW p \in ValidPlans, NEW k \in LeverKey, NEW v \in Int,
         leverRange(k, p).min <= v, v <= leverRange(k, p).max
  PROVE  With(k, v, p) \in ValidPlans /\ Lever(k, With(k, v, p)) = v
<1> DEFINE q == With(k, v, p)
<1>0. p \in Turnable /\ ValidPlan(p)
  BY DEF ValidPlans
<1>1. CASE k = "retirementAge"
  <2>1. q = [p EXCEPT !.retirementAge = v]
    BY <1>1 DEF With
  <2>2. v \in 45 .. 100 /\ v < p.lifeExpectancy
    <3>1. PICK x \in 45 .. 100 : x = leverRange(k, p).max /\ x < p.lifeExpectancy
      BY <1>1, AgeTrack
    <3>2. leverRange(k, p).min = 45
      BY <1>1, AgeTrack
    <3> QED BY <3>1, <3>2, PlanTyped
  <2>3. q \in Turnable /\ q.retirementAge = v
    BY <1>0, <2>1 DEF Turnable
  <2>4. ValidPlan(q)
    BY <1>0, <2>1, <2>2 DEF Turnable, ValidPlan, MIN_RETIREMENT_AGE
  <2> QED BY <1>1, <2>3, <2>4 DEF ValidPlans, Lever
<1>2. CASE k = "spending"
  <2>1. q = [p EXCEPT !.currentSpending = v]
    BY <1>2 DEF With
  <2>2. v \in 0 .. MAX_PLAN_DOLLARS
    <3>1. PICK m \in Nat : leverRange(k, p).min = m * 20
      BY <1>2, SpendingTrack
    <3>2. PICK x \in Int : x = leverRange(k, p).max /\ x <= MAX_PLAN_DOLLARS
      BY <1>2, SpendingTrack
    <3> QED BY <3>1, <3>2, LargestAmount
  <2>3. q \in Turnable /\ q.currentSpending = v
    BY <1>0, <2>1 DEF Turnable
  <2>4. ValidPlan(q)
    BY <1>0, <2>1, <2>2 DEF Turnable, ValidPlan
  <2> QED BY <1>2, <2>3, <2>4 DEF ValidPlans, Lever
<1>3. CASE k = "socialSecurityClaimAge"
  <2>1. q = [p EXCEPT !.claimAge = v]
    BY <1>3 DEF With
  <2>2. v \in 62 .. 70
    BY <1>3, ClaimTrack
  <2>3. q \in Turnable /\ q.claimAge = v
    BY <1>0, <2>1 DEF Turnable
  <2>4. ValidPlan(q)
    BY <1>0, <2>1, <2>2 DEF Turnable, ValidPlan
  <2> QED BY <1>3, <2>3, <2>4 DEF ValidPlans, Lever
<1>4. CASE k = "rothConversion"
  <2>1. v \in 0 .. 5 /\ v + 1 \in 1 .. 6
    BY <1>4, RothTrack
  <2>2. q = [p EXCEPT !.rothConversion = CONVERSION_STEPS[v + 1]]
    BY <1>4 DEF With
  <2>3. q \in Turnable /\ q.rothConversion = CONVERSION_STEPS[v + 1]
    BY <1>0, <2>1, <2>2 DEF Turnable
  <2>4. ValidPlan(q)
    BY <1>0, <2>2 DEF Turnable, ValidPlan
  <2>5. q \in ValidPlans
    BY <2>3, <2>4 DEF ValidPlans
  <2>6. conversionStepOf(q) = v
    BY <2>1, <2>3, <2>5, StepOf
  <2> QED BY <1>4, <2>5, <2>6 DEF Lever
<1> QED BY <1>1, <1>2, <1>3, <1>4 DEF LeverKey

(* The track of the turned plan does not reach beyond the one it was turned  *)
(* on.                                                                       *)
LEMMA TrackHolds ==
  ASSUME NEW p \in ValidPlans, NEW k \in LeverKey, NEW v \in Int,
         leverRange(k, p).min <= v, v <= leverRange(k, p).max
  PROVE  /\ leverRange(k, With(k, v, p)).min >= leverRange(k, p).min
         /\ leverRange(k, With(k, v, p)).max <= leverRange(k, p).max
<1> DEFINE q == With(k, v, p)
<1>0. q \in ValidPlans /\ p \in Turnable
  BY TurnedPlan DEF ValidPlans
<1> SUFFICES /\ leverRange(k, q).min >= leverRange(k, p).min
             /\ leverRange(k, q).max <= leverRange(k, p).max
  OBVIOUS
<1>1. CASE k = "retirementAge"
  <2>1. q.retirementAge = v /\ q.lifeExpectancy = p.lifeExpectancy
    BY <1>0, <1>1 DEF With, Turnable
  <2>2. PICK top \in Int : top = Min({100, p.lifeExpectancy - 1})
    <3>1. PICK life \in Int : life = p.lifeExpectancy
      BY PlanTyped
    <3> QED BY <3>1, Smaller
  <2>3. PICK m \in Int : /\ 70 <= m * 5 /\ leverRange(k, p).max = Min({top, m * 5})
    BY <1>1, <2>2, AgeTrack
  <2> HIDE DEF q
  <2>4. PICK n \in Int : /\ 70 <= n * 5 /\ (n * 5 <= 70 \/ n * 5 < v + 5)
                         /\ leverRange(k, q).max = Min({top, n * 5})
    <3>1. PICK n \in Int :
            /\ 70 <= n * 5 /\ (n * 5 <= 70 \/ n * 5 < q.retirementAge + 5)
            /\ leverRange("retirementAge", q).max = Min({Min({100, q.lifeExpectancy - 1}), n * 5})
      BY <1>0, AgeTrack
    <3> QED BY <1>1, <2>1, <2>2, <3>1
  <2>5. v <= m * 5
    <3>1. Min({top, m * 5}) <= m * 5
      BY Smaller
    <3> QED BY <2>3, <3>1, TrackIsOrdered
  <2>6. n <= m
    BY <2>3, <2>4, <2>5
  <2>7. Min({top, n * 5}) <= Min({top, m * 5})
    BY <2>6, Smaller
  <2>8. leverRange(k, p).min = 45 /\ leverRange(k, q).min = 45
    BY <1>0, <1>1, AgeTrack
  <2> QED BY <2>3, <2>4, <2>7, <2>8
<1>2. CASE k = "spending"
  <2>1. q.currentSpending = v /\ q.currentSalary = p.currentSalary
    BY <1>0, <1>2 DEF With, Turnable
  <2>2. AxisBottom(q) = AxisBottom(p) /\ AxisBand(q) = AxisBand(p)
    BY <2>1 DEF AxisBottom, AxisBand
  <2>3. PICK a \in Int : AxisBottom(p) = a
    <3>1. PICK j \in Nat \ {0} : AxisBottom(p) = j * 20
      BY Axis
    <3> QED BY <3>1
  <2>4. PICK n \in Nat \ {0}, b \in Nat \ {0} :
          /\ AxisBand(p) = b /\ AxisTop(p) = n * b
    BY SpendingTrack
  <2>5. PICK m \in Nat : leverRange(k, p).min = m * 20
    BY <1>2, SpendingTrack
  <2>6. PICK low \in Int : low = Down(p.currentSpending, 20)
    <3>1. PICK s \in Int : s = p.currentSpending
      BY PlanTyped
    <3>2. Down(s, 20) \in Int
      BY RoundsDown
    <3> QED BY <3>1, <3>2
  <2>7. PICK M \in Int : M = MAX_PLAN_DOLLARS
    BY LargestAmount
  <2>8. leverRange(k, p).min = Min({a, low}) /\ leverRange(k, p).max = Min({M, n * b})
    BY <1>2, <2>3, <2>4, <2>6, <2>7, SpendingTrack
  <2>9. leverRange(k, q).min = Min({a, Down(v, 20)}) /\ leverRange(k, q).max = Min({M, AxisTop(q)})
    <3> HIDE DEF q
    <3> QED BY <1>0, <1>2, <2>1, <2>2, <2>3, <2>7, SpendingTrack
  <2>10. Down(v, 20) \in Int /\ m * 20 <= Down(v, 20)
    <3>1. m * 20 <= v
      BY <2>5
    <3>2. m * 20 <= Down(v, 20)
      BY <3>1, DownStaysOver
    <3>3. Down(v, 20) \in Int
      BY RoundsDown
    <3> QED BY <3>2, <3>3
  <2>11. m * 20 <= a
    BY <2>5, <2>8, Smaller
  <2>12. m * 20 <= Min({a, Down(v, 20)})
    BY <2>10, <2>11, Smaller
  <2>13. n * b \in Int /\ v <= n * b /\ b <= n * b
    <3>1. n * b \in Int /\ b <= n * b
      OBVIOUS
    <3>2. Min({M, n * b}) \in Int /\ Min({M, n * b}) <= n * b
      BY <3>1, Smaller
    <3> QED BY <2>8, <3>1, <3>2
  <2>14. Up(v, b) \in Int /\ Up(v, b) <= n * b
    <3>1. Up(v, b) \in Int
      BY RoundsUp
    <3>2. Up(v, b) <= n * b
      BY <2>13, UpStaysUnder
    <3> QED BY <3>1, <3>2
  <2>15. AxisTop(q) = Max({b, Up(v, b)})
    BY <2>1, <2>2, <2>4 DEF AxisTop
  <2>16. AxisTop(q) \in Int /\ AxisTop(q) <= n * b
    BY <2>13, <2>14, <2>15, Larger
  <2>17. Min({M, AxisTop(q)}) <= Min({M, n * b})
    <3>1. PICK x \in Int, y \in Int : x = AxisTop(q) /\ y = n * b /\ x <= y
      BY <2>13, <2>16
    <3>2. Min({M, x}) <= Min({M, y})
      BY <3>1, Smaller
    <3> QED BY <3>1, <3>2
  <2> QED BY <2>5, <2>8, <2>9, <2>12, <2>17
<1>3. CASE k = "socialSecurityClaimAge"
  BY <1>0, <1>3, ClaimTrack
<1>4. CASE k = "rothConversion"
  BY <1>0, <1>4, RothTrack
<1> QED BY <1>1, <1>2, <1>3, <1>4 DEF LeverKey

LEMMA ImageIsNoLarger ==
  ASSUME NEW S, IsFiniteSet(S), NEW f
  PROVE  /\ IsFiniteSet({f[x] : x \in S})
         /\ Cardinality({f[x] : x \in S}) <= Cardinality(S)
<1> DEFINE T == {f[x] : x \in S}
           g == [x \in S |-> f[x]]
<1>1. g \in Surjection(S, T)
  BY DEF Surjection
<1> HIDE DEF g, T
<1>2. IsFiniteSet(T) /\ Cardinality(T) <= Cardinality(S)
  BY <1>1, FS_Surjection
<1> QED BY <1>2 DEF T

(* However often the step is doubled, the multiples fit the slider's track   *)
(* and are no more than the curve may have.                                  *)
LEMMA Multiples ==
  ASSUME NEW min \in Int, NEW max \in Int, NEW step \in Nat \ {0}, NEW maxCount \in Nat,
         max - min <= (maxCount - 1) * (step * (64 * 128))
  PROVE  LET values == multiplesWithin(min, max, step, maxCount)
         IN  /\ \A v \in values : v \in Int /\ min <= v /\ v <= max
             /\ IsFiniteSet(values) /\ Cardinality(values) <= maxCount
<1> DEFINE Fit == {d \in Doublings : max - min <= (maxCount - 1) * (step * d)}
<1>1. Doublings \subseteq Nat \ {0} /\ 64 * 128 \in Doublings
  BY SMT DEF Doublings
<1>2. 64 * 128 \in Fit
  BY <1>1
<1>3. PICK d \in Fit : \A e \in Fit : d <= e
  BY <1>1, <1>2, LeastNatural
<1>4. Min(Fit) \in Fit
  BY <1>3 DEF Min
<1>5. PICK s \in Nat \ {0} : s = step * Min(Fit) /\ max - min <= (maxCount - 1) * s
  <2>1. PICK e \in Nat \ {0} : e = Min(Fit) /\ max - min <= (maxCount - 1) * (step * e)
    BY <1>1, <1>4
  <2>2. step * e \in Nat \ {0}
    OBVIOUS
  <2> QED BY <2>1, <2>2
<1> HIDE DEF Fit
<1> DEFINE q == (min + s - 1) \div s
           h == max \div s
<1>6. q \in Int /\ h \in Int /\ h * s <= max
  OBVIOUS
<1>7. Up(min, s) = q * s
  BY DEF Up
<1>8. min <= q * s
  BY <1>7, RoundsUp
<1>9. (q * s) \div s = q
  BY <1>6
<1>10. multiplesWithin(min, max, step, maxCount) = {s * i : i \in q .. h}
  BY <1>5, <1>7, <1>9 DEF multiplesWithin, Fit
<1> HIDE DEF q, h
<1>11. ASSUME NEW i \in q .. h
       PROVE  s * i \in Int /\ min <= s * i /\ s * i <= max
  <2>1. i \in Int /\ q <= i /\ i <= h
    BY <1>6
  <2>2. q * s <= i * s /\ i * s <= h * s
    BY <1>6, <2>1
  <2>3. s * i = i * s /\ s * i \in Int /\ q * s \in Int /\ h * s \in Int
    BY <1>6, <2>1
  <2> QED BY <1>6, <1>8, <2>2, <2>3
<1>12. h - q + 1 <= maxCount
  <2>1. (h - q) * s = h * s - q * s
    BY <1>6
  <2>2. h * s \in Int /\ q * s \in Int /\ (maxCount - 1) * s \in Int
    BY <1>6
  <2>3. (h - q) * s <= (maxCount - 1) * s
    BY <1>5, <1>6, <1>8, <2>1, <2>2
  <2>4. SUFFICES ASSUME h - q >= maxCount PROVE FALSE
    BY <1>6
  <2>5. (h - q) * s >= maxCount * s
    BY <1>6, <2>4
  <2>6. maxCount * s = (maxCount - 1) * s + s
    OBVIOUS
  <2> QED BY <2>2, <2>3, <2>5, <2>6, <1>6
<1>13. IsFiniteSet(q .. h) /\ Cardinality(q .. h) <= maxCount
  <2>1. IsFiniteSet(q .. h) /\ Cardinality(q .. h) = IF q > h THEN 0 ELSE h - q + 1
    BY <1>6, FS_Interval
  <2> QED BY <1>6, <1>12, <2>1
<1> DEFINE f == [i \in q .. h |-> s * i]
<1>14. {s * i : i \in q .. h} = {f[i] : i \in q .. h}
  OBVIOUS
<1> HIDE DEF f
<1>15. /\ IsFiniteSet({f[i] : i \in q .. h})
       /\ Cardinality({f[i] : i \in q .. h}) <= Cardinality(q .. h)
  BY <1>13, ImageIsNoLarger
<1>16. Cardinality({f[i] : i \in q .. h}) \in Nat /\ Cardinality(q .. h) \in Nat
  BY <1>13, <1>15, FS_CardinalityType
<1> DEFINE values == multiplesWithin(min, max, step, maxCount)
<1>17. IsFiniteSet(values) /\ Cardinality(values) <= maxCount
  <2>1. values = {f[i] : i \in q .. h}
    BY <1>10, <1>14
  <2>2. Cardinality({f[i] : i \in q .. h}) <= maxCount
    BY <1>13, <1>15, <1>16
  <2> QED BY <1>15, <2>1, <2>2
<1>18. \A v \in values : v \in Int /\ min <= v /\ v <= max
  BY <1>10, <1>11
<1> QED BY <1>17, <1>18

CurveLength == [retirementAge |-> 9, spending |-> 14, socialSecurityClaimAge |-> 8, rothConversion |-> 7]

LEMMA SweepIsOnTrack ==
  ASSUME NEW p \in ValidPlans, NEW k \in LeverKey
  PROVE  /\ \A v \in sweptValues(k, p) :
              v \in Int /\ leverRange(k, p).min <= v /\ v <= leverRange(k, p).max
         /\ IsFiniteSet(sweptValues(k, p))
         /\ Cardinality(sweptValues(k, p)) <= CurveLength[k]
<1> DEFINE r == leverRange(k, p)
           axis == multiplesWithin(r.min, r.max, sweepStep[k], maxSweepValues[k])
           own == IF k # "spending" /\ Lever(k, p) \in r.min .. r.max THEN {Lever(k, p)} ELSE {}
<1>1. r.min \in Int /\ r.max \in Int
  BY TrackIsOrdered
<1>2. /\ sweepStep[k] \in Nat \ {0} /\ maxSweepValues[k] \in Nat
      /\ CurveLength[k] = IF k = "spending" THEN maxSweepValues[k] ELSE maxSweepValues[k] + 1
      /\ CurveLength[k] \in Nat /\ CurveLength[k] >= 1
  BY DEF LeverKey, sweepStep, maxSweepValues, CurveLength
<1>3. r.max - r.min <= (maxSweepValues[k] - 1) * (sweepStep[k] * (64 * 128))
  <2>1. CASE k = "retirementAge"
    <3>1. r.min = 45 /\ r.max \in 45 .. 100
      BY <2>1, AgeTrack
    <3>2. sweepStep[k] = 5 /\ maxSweepValues[k] = 8
      BY <2>1 DEF sweepStep, maxSweepValues
    <3> QED BY <3>1, <3>2, SMT
  <2>2. CASE k = "spending"
    <3>1. PICK m \in Nat : r.min = m * 20
      BY <2>2, SpendingTrack
    <3>2. r.max <= MAX_PLAN_DOLLARS
      BY <2>2, SpendingTrack
    <3>3. sweepStep[k] = 10 /\ maxSweepValues[k] = 14
      BY <2>2 DEF sweepStep, maxSweepValues
    <3>4. r.max - r.min <= 130 * (64 * 128)
      BY <1>1, <3>1, <3>2, LargestAmount, SMT
    <3>5. (14 - 1) * (10 * (64 * 128)) = 130 * (64 * 128)
      BY SMT
    <3> QED BY <3>3, <3>4, <3>5, SMT
  <2>3. CASE k = "socialSecurityClaimAge"
    <3>1. r.min = 62 /\ r.max = 70
      BY <2>3, ClaimTrack
    <3>2. sweepStep[k] = 2 /\ maxSweepValues[k] = 7
      BY <2>3 DEF sweepStep, maxSweepValues
    <3> QED BY <3>1, <3>2, SMT
  <2>4. CASE k = "rothConversion"
    <3>1. r.min = 0 /\ r.max = 5
      BY <2>4, RothTrack
    <3>2. sweepStep[k] = 1 /\ maxSweepValues[k] = 6
      BY <2>4 DEF sweepStep, maxSweepValues
    <3> QED BY <3>1, <3>2, SMT
  <2> QED BY <2>1, <2>2, <2>3, <2>4 DEF LeverKey
<1>4. r.sweepValues = axis \cup own
  BY DEF leverRange
<1> HIDE DEF r
<1>5. /\ \A v \in axis : v \in Int /\ r.min <= v /\ v <= r.max
      /\ IsFiniteSet(axis) /\ Cardinality(axis) <= maxSweepValues[k]
  BY <1>1, <1>2, <1>3, Multiples
<1>6. /\ \A v \in own : v \in Int /\ r.min <= v /\ v <= r.max
      /\ IsFiniteSet(own) /\ Cardinality(own) <= 1
      /\ k = "spending" => Cardinality(own) = 0
  <2>1. IsFiniteSet({}) /\ Cardinality({}) = 0
    BY FS_EmptySet
  <2>2. IsFiniteSet({Lever(k, p)}) /\ Cardinality({Lever(k, p)}) = 1
    BY FS_Singleton
  <2>3. CASE own = {}
    BY <2>1, <2>3
  <2>4. CASE k # "spending" /\ Lever(k, p) \in r.min .. r.max /\ own = {Lever(k, p)}
    BY <1>1, <2>2, <2>4
  <2> HIDE DEF own
  <2> QED BY <2>3, <2>4 DEF own
<1> HIDE DEF axis, own
<1>7. /\ IsFiniteSet(axis \cup own)
      /\ Cardinality(axis \cup own) <= Cardinality(axis) + Cardinality(own)
  <2>1. /\ IsFiniteSet(axis \cup own)
        /\ Cardinality(axis \cup own) =
             Cardinality(axis) + Cardinality(own) - Cardinality(axis \cap own)
    BY <1>5, <1>6, FS_Union
  <2>2. Cardinality(axis) \in Nat /\ Cardinality(own) \in Nat
    BY <1>5, <1>6, FS_CardinalityType
  <2>3. Cardinality(axis \cap own) \in Nat
    BY <1>5, FS_Intersection, FS_CardinalityType
  <2> QED BY <2>1, <2>2, <2>3
<1>8. Cardinality(axis \cup own) <= CurveLength[k]
  BY <1>2, <1>5, <1>6, <1>7, FS_CardinalityType
<1>9. CASE k = "socialSecurityClaimAge" /\ (~p.ssEnabled \/ p.manualOverride)
  <2>1. sweptValues(k, p) = {p.claimAge}
    BY <1>9 DEF sweptValues
  <2>2. r.min = 62 /\ r.max = 70
    BY <1>9, ClaimTrack DEF r
  <2>3. p.claimAge \in Int /\ 62 <= p.claimAge /\ p.claimAge <= 70
    BY PlanTyped, PlanBounded
  <2>4. IsFiniteSet({p.claimAge}) /\ Cardinality({p.claimAge}) = 1
    BY FS_Singleton
  <2> QED BY <1>2, <2>1, <2>2, <2>3, <2>4 DEF r
<1>10. CASE ~(k = "socialSecurityClaimAge" /\ (~p.ssEnabled \/ p.manualOverride))
  <2>1. sweptValues(k, p) = axis \cup own
    BY <1>4, <1>10 DEF sweptValues, r
  <2> QED BY <1>5, <1>6, <1>7, <1>8, <2>1 DEF r
<1> QED BY <1>9, <1>10

Curve(k, p) == {[id |-> scenarioId(k, v), plan |-> With(k, v, p)] : v \in sweptValues(k, p)}

LEMMA CurveIsShort ==
  ASSUME NEW p \in ValidPlans, NEW k \in LeverKey
  PROVE  IsFiniteSet(Curve(k, p)) /\ Cardinality(Curve(k, p)) \in Nat
         /\ Cardinality(Curve(k, p)) <= CurveLength[k]
<1> DEFINE S == sweptValues(k, p)
           f == [v \in S |-> [id |-> scenarioId(k, v), plan |-> With(k, v, p)]]
<1>1. IsFiniteSet(S) /\ Cardinality(S) <= CurveLength[k] /\ CurveLength[k] \in Nat
  BY SweepIsOnTrack DEF CurveLength, LeverKey
<1>2. Curve(k, p) = {f[v] : v \in S}
  BY DEF Curve
<1> HIDE DEF S, f
<1>3. IsFiniteSet({f[v] : v \in S}) /\ Cardinality({f[v] : v \in S}) <= Cardinality(S)
  BY <1>1, ImageIsNoLarger
<1>4. Cardinality(S) \in Nat /\ Cardinality({f[v] : v \in S}) \in Nat
  BY <1>1, <1>3, FS_CardinalityType
<1>5. Cardinality({f[v] : v \in S}) <= CurveLength[k]
  BY <1>1, <1>3, <1>4
<1> QED BY <1>2, <1>3, <1>4, <1>5

LEMMA UnionIsNoLarger ==
  ASSUME NEW S, IsFiniteSet(S), NEW T, IsFiniteSet(T)
  PROVE  /\ IsFiniteSet(S \cup T) /\ Cardinality(S \cup T) \in Nat
         /\ Cardinality(S \cup T) <= Cardinality(S) + Cardinality(T)
<1>1. /\ IsFiniteSet(S \cup T)
      /\ Cardinality(S \cup T) = Cardinality(S) + Cardinality(T) - Cardinality(S \cap T)
  BY FS_Union
<1>2. Cardinality(S \cap T) \in Nat /\ Cardinality(S) \in Nat /\ Cardinality(T) \in Nat
  BY FS_Intersection, FS_CardinalityType
<1>3. Cardinality(S \cup T) \in Nat
  BY <1>1, FS_CardinalityType
<1> QED BY <1>1, <1>2, <1>3

(* 9 ages, 14 spendings, 8 claiming ages and 7 conversions are 38 scenarios. *)
LEMMA SweepIsBounded ==
  ASSUME NEW p \in ValidPlans
  PROVE  IsFiniteSet(scenarios(p)) /\ Cardinality(scenarios(p)) <= 38
<1> DEFINE A == Curve("retirementAge", p)
           B == Curve("spending", p)
           C == Curve("socialSecurityClaimAge", p)
           D == Curve("rothConversion", p)
<1>1. scenarios(p) = (A \cup B) \cup (C \cup D)
  BY DEF scenarios, LeverKey, Curve
<1>2. /\ IsFiniteSet(A) /\ Cardinality(A) \in Nat /\ Cardinality(A) <= 9
      /\ IsFiniteSet(B) /\ Cardinality(B) \in Nat /\ Cardinality(B) <= 14
      /\ IsFiniteSet(C) /\ Cardinality(C) \in Nat /\ Cardinality(C) <= 8
      /\ IsFiniteSet(D) /\ Cardinality(D) \in Nat /\ Cardinality(D) <= 7
  <2>1. /\ CurveLength["retirementAge"] = 9 /\ CurveLength["spending"] = 14
        /\ CurveLength["socialSecurityClaimAge"] = 8 /\ CurveLength["rothConversion"] = 7
    BY DEF CurveLength
  <2> HIDE DEF A, B, C, D
  <2>2. "retirementAge" \in LeverKey /\ "spending" \in LeverKey
        /\ "socialSecurityClaimAge" \in LeverKey /\ "rothConversion" \in LeverKey
    BY DEF LeverKey
  <2> QED BY <2>1, <2>2, CurveIsShort DEF A, B, C, D
<1> HIDE DEF A, B, C, D
<1>3. /\ IsFiniteSet(A \cup B) /\ Cardinality(A \cup B) \in Nat
      /\ Cardinality(A \cup B) <= Cardinality(A) + Cardinality(B)
  BY <1>2, UnionIsNoLarger
<1>4. /\ IsFiniteSet(C \cup D) /\ Cardinality(C \cup D) \in Nat
      /\ Cardinality(C \cup D) <= Cardinality(C) + Cardinality(D)
  BY <1>2, UnionIsNoLarger
<1>5. /\ IsFiniteSet((A \cup B) \cup (C \cup D))
      /\ Cardinality((A \cup B) \cup (C \cup D)) \in Nat
      /\ Cardinality((A \cup B) \cup (C \cup D)) <= Cardinality(A \cup B) + Cardinality(C \cup D)
  BY <1>3, <1>4, UnionIsNoLarger
<1>6. Cardinality((A \cup B) \cup (C \cup D)) <= 38
  BY <1>2, <1>3, <1>4, <1>5
<1> QED BY <1>1, <1>5, <1>6

LEMMA GroupsAreNoMore ==
  ASSUME NEW all, IsFiniteSet(all)
  PROVE  /\ IsFiniteSet(distinctScenarios(all))
         /\ Cardinality(distinctScenarios(all)) <= Cardinality(all)
<1> DEFINE input == [s \in all |-> toSimulationPlan(s.plan)]
           f == [t \in all |-> {s \in all : input[s] = input[t]}]
<1>1. distinctScenarios(all) = {f[t] : t \in all}
  <2>1. distinctScenarios(all) = {{s \in all : input[s] = i} : i \in {input[s] : s \in all}}
    BY DEF distinctScenarios
  <2> HIDE DEF input
  <2>2. {{s \in all : input[s] = i} : i \in {input[s] : s \in all}} = {f[t] : t \in all}
    OBVIOUS
  <2> QED BY <2>1, <2>2
<1> HIDE DEF f
<1> QED BY <1>1, ImageIsNoLarger

LEMMA ScenariosAreTurns ==
  ASSUME NEW p, NEW s \in scenarios(p)
  PROVE  \E k \in LeverKey : \E v \in sweptValues(k, p) :
           s = [id |-> scenarioId(k, v), plan |-> With(k, v, p)]
BY DEF scenarios

LEMMA ScenariosAreValid ==
  ASSUME NEW p \in ValidPlans, NEW s \in scenarios(p)
  PROVE  /\ ValidPlan(s.plan)
         /\ p.retirementSpendingMultiplier <= 100 => simulationPlanSchema(s.plan)
<1>1. PICK k \in LeverKey : \E v \in sweptValues(k, p) :
        s = [id |-> scenarioId(k, v), plan |-> With(k, v, p)]
  BY ScenariosAreTurns
<1>2. PICK v \in sweptValues(k, p) : s = [id |-> scenarioId(k, v), plan |-> With(k, v, p)]
  BY <1>1
<1>3. v \in Int /\ leverRange(k, p).min <= v /\ v <= leverRange(k, p).max
  BY SweepIsOnTrack
<1>4. s.plan \in ValidPlans /\ s.plan = With(k, v, p)
  BY <1>2, <1>3, TurnedPlan
<1>5. s.plan.retirementSpendingMultiplier = p.retirementSpendingMultiplier
  BY <1>4 DEF With, LeverKey, ValidPlans, Turnable
<1>6. ASSUME p.retirementSpendingMultiplier <= 100
      PROVE  retirementSpending(s.plan) <= 100 * MAX_PLAN_DOLLARS
  <2>1. PICK q : q = s.plan
    OBVIOUS
  <2>2. PICK m \in Nat : m = q.retirementSpendingMultiplier /\ m <= 100
    <3>1. q.retirementSpendingMultiplier \in 0 .. 1000
      BY <1>4, <2>1 DEF ValidPlans, ValidPlan
    <3>2. q.retirementSpendingMultiplier \in Nat
      BY <3>1
    <3> QED BY <1>5, <1>6, <2>1, <3>2
  <2>3. PICK x \in Nat, M \in Nat : x = q.currentSpending /\ M = MAX_PLAN_DOLLARS /\ x <= M
    <3>1. q.currentSpending \in Int /\ 0 <= q.currentSpending /\ q.currentSpending <= MAX_PLAN_DOLLARS
      BY <1>4, <2>1, PlanTyped, PlanBounded
    <3> QED BY <3>1, LargestAmount
  <2>4. x * m <= M * m /\ M * m <= M * 100
    BY <2>2, <2>3
  <2>5. x * m <= 100 * M
    <3>1. x * m \in Int /\ M * m \in Int /\ M * 100 = 100 * M
      OBVIOUS
    <3> QED BY <2>4, <3>1
  <2> QED BY <2>1, <2>2, <2>3, <2>5 DEF retirementSpending
<1>7. ValidPlan(s.plan)
  BY <1>4 DEF ValidPlans
<1> QED BY <1>6, <1>7 DEF simulationPlanSchema

LEMMA SweepIsAccepted ==
  ASSUME turned \in ValidPlans
  PROVE  SweepAccepted
<1> DEFINE all == scenarios(turned)
<1>1. \A s \in all : ValidPlan(s.plan)
  BY ScenariosAreValid
<1>2. turned.retirementSpendingMultiplier <= 100 => \A s \in all : simulationPlanSchema(s.plan)
  BY ScenariosAreValid
<1>3. IsFiniteSet(all) /\ Cardinality(all) <= 38
  BY SweepIsBounded
<1> HIDE DEF all
<1>4. PICK n \in Nat : n = Cardinality(distinctScenarios(all)) /\ n <= 38
  <2>1. /\ IsFiniteSet(distinctScenarios(all))
        /\ Cardinality(distinctScenarios(all)) <= Cardinality(all)
    BY <1>3, GroupsAreNoMore
  <2>2. Cardinality(distinctScenarios(all)) \in Nat /\ Cardinality(all) \in Nat
    BY <1>3, <2>1, FS_CardinalityType
  <2> QED BY <1>3, <2>1, <2>2
<1>5. n <= MAX_BATCH_SIMULATIONS
  BY <1>4 DEF MAX_BATCH_SIMULATIONS
<1>6. SWEEP_PATHS * n <= MAX_BATCH_TOTAL_PATHS
  BY <1>4, SMT DEF SWEEP_PATHS, MAX_BATCH_TOTAL_PATHS
<1> QED BY <1>1, <1>2, <1>4, <1>5, <1>6 DEF SweepAccepted, all

(* A scenario is known by its name. *)
LEMMA NamesAreUnique ==
  ASSUME NEW p, NEW s \in scenarios(p), NEW t \in scenarios(p), s.id = t.id
  PROVE  s = t
<1>1. PICK k \in LeverKey : \E v \in sweptValues(k, p) :
        s = [id |-> scenarioId(k, v), plan |-> With(k, v, p)]
  BY ScenariosAreTurns
<1>2. PICK v \in sweptValues(k, p) : s = [id |-> scenarioId(k, v), plan |-> With(k, v, p)]
  BY <1>1
<1>3. PICK j \in LeverKey : \E w \in sweptValues(j, p) :
        t = [id |-> scenarioId(j, w), plan |-> With(j, w, p)]
  BY ScenariosAreTurns
<1>4. PICK w \in sweptValues(j, p) : t = [id |-> scenarioId(j, w), plan |-> With(j, w, p)]
  BY <1>3
<1>5. k = j /\ v = w
  BY <1>2, <1>4 DEF scenarioId
<1> QED BY <1>2, <1>4, <1>5

(* The answer of a group is the answer of each of its scenarios. *)
LEMMA GroupsAnswer ==
  ASSUME NEW p, NEW omitted, NEW t \in scenarios(p),
         runScenarios(distinctScenarios(scenarios(p)), omitted) # Failed
  PROVE  runScenarios(distinctScenarios(scenarios(p)), omitted)[t.id] = toSimulationPlan(t.plan)
<1> DEFINE all == scenarios(p)
           groups == distinctScenarios(all)
           input == [s \in all |-> toSimulationPlan(s.plan)]
           chosen == {CHOOSE s \in g : TRUE : g \in groups}
           first == [g \in groups |-> (CHOOSE s \in g : TRUE).id]
           computed == runDistinctScenarios(chosen, omitted)
           ids == {s.id : s \in UNION groups}
           G == CHOOSE g \in groups : \E s \in g : s.id = t.id
           r == CHOOSE s \in G : TRUE
<1>1. groups = {{s \in all : input[s] = i} : i \in {input[s] : s \in all}}
  BY DEF distinctScenarios
<1>2. \A g \in groups : g # {} /\ g \subseteq all /\ \A s, u \in g : input[s] = input[u]
  <2> HIDE DEF input, all, groups
  <2> QED BY <1>1
<1>3. {s \in all : input[s] = input[t]} \in groups /\ t \in {s \in all : input[s] = input[t]}
  <2>1. t \in all
    OBVIOUS
  <2> HIDE DEF input, all, groups
  <2> QED BY <1>1, <2>1
<1>4. /\ runScenarios(groups, omitted)
           = IF \E g \in groups : first[g] \notin DOMAIN computed THEN Failed
             ELSE [id \in ids |-> computed[first[CHOOSE g \in groups : \E s \in g : s.id = id]]]
  BY DEF runScenarios
<1>5. /\ \A g \in groups : first[g] \in DOMAIN computed
      /\ runScenarios(groups, omitted)
           = [id \in ids |-> computed[first[CHOOSE g \in groups : \E s \in g : s.id = id]]]
  <2> HIDE DEF groups, first, computed, ids, all
  <2> QED BY <1>4 DEF groups, all
<1>6. t.id \in ids
  <2> HIDE DEF groups, input
  <2> QED BY <1>3
<1>7. runScenarios(groups, omitted)[t.id] = computed[first[G]]
  <2> HIDE DEF groups, first, computed, ids
  <2> QED BY <1>5, <1>6
<1>8. G \in groups /\ t \in G
  <2>1. \E g \in groups : \E s \in g : s.id = t.id
    <3> HIDE DEF groups, input
    <3> QED BY <1>3
  <2>2. G \in groups /\ \E s \in G : s.id = t.id
    <3> HIDE DEF groups
    <3> QED BY <2>1
  <2> HIDE DEF groups, G, input
  <2>3. PICK s \in G : s.id = t.id
    BY <2>2
  <2>4. s \in all
    BY <1>2, <2>2
  <2> QED BY <2>2, <2>3, <2>4, NamesAreUnique
<1>9. r \in G /\ r \in all /\ input[r] = input[t]
  <2> HIDE DEF groups, G, input, all
  <2> QED BY <1>2, <1>8
<1>10. first[G] = r.id /\ r \in chosen
  <2> HIDE DEF groups, G
  <2> QED BY <1>8
<1>11. computed = [id \in {s.id : s \in chosen} \ omitted |->
                    toSimulationPlan((CHOOSE s \in chosen : s.id = id).plan)]
  BY DEF runDistinctScenarios
<1>12. r.id \in DOMAIN computed
  <2> HIDE DEF groups, G, first, computed, r
  <2> QED BY <1>5, <1>8, <1>10
<1>13. chosen \subseteq all
  <2> HIDE DEF groups, input, all
  <2> QED BY <1>2
<1>14. (CHOOSE s \in chosen : s.id = r.id) = r
  <2> HIDE DEF chosen, r, G, groups
  <2>1. PICK u : u = CHOOSE s \in chosen : s.id = r.id
    OBVIOUS
  <2>2. u \in chosen /\ u.id = r.id
    BY <1>10, <2>1
  <2>3. u \in all
    BY <1>13, <2>2
  <2> QED BY <1>9, <2>1, <2>2, <2>3, NamesAreUnique
<1>15. computed[r.id] = toSimulationPlan(r.plan)
  <2> HIDE DEF chosen, r, G, groups, computed
  <2>1. computed[r.id] = toSimulationPlan((CHOOSE s \in chosen : s.id = r.id).plan)
    BY <1>11, <1>12
  <2> QED BY <1>14, <2>1
<1>16. toSimulationPlan(r.plan) = toSimulationPlan(t.plan)
  <2>1. t \in all
    OBVIOUS
  <2> HIDE DEF all, r
  <2> QED BY <1>9, <2>1
<1> HIDE DEF r, G, computed, first
<1> QED BY <1>7, <1>10, <1>15, <1>16

LEMMA CurvesAnswer == CurvesAnswerTheirPlan
<1> SUFFICES ASSUME NEW omitted, runSensitivityAnalyses(turned, omitted) # Failed,
                    NEW k \in LeverKey, NEW point \in runSensitivityAnalyses(turned, omitted)[k]
             PROVE  point.result = toSimulationPlan(With(k, point.x, turned))
  BY DEF CurvesAnswerTheirPlan
<1> DEFINE results == runScenarios(distinctScenarios(scenarios(turned)), omitted)
<1>1. /\ results # Failed
      /\ runSensitivityAnalyses(turned, omitted) =
           [j \in LeverKey |->
             {[x |-> v, result |-> results[scenarioId(j, v)]] : v \in sweptValues(j, turned)}]
  BY DEF runSensitivityAnalyses
<1> HIDE DEF results
<1>2. PICK v \in sweptValues(k, turned) : point = [x |-> v, result |-> results[scenarioId(k, v)]]
  BY <1>1
<1> DEFINE t == [id |-> scenarioId(k, v), plan |-> With(k, v, turned)]
<1>3. t \in scenarios(turned)
  BY DEF scenarios
<1>4. results[t.id] = toSimulationPlan(t.plan)
  <2> HIDE DEF t
  <2> QED BY <1>1, <1>3, GroupsAnswer DEF results
<1> QED BY <1>2, <1>4

LEMMA DragsHold ==
  ASSUME turned \in ValidPlans
  PROVE  DragHolds
<1> SUFFICES ASSUME NEW k \in LeverKey, NEW v \in Positions(k)
             PROVE  /\ ValidPlan(With(k, v, turned)) /\ Lever(k, With(k, v, turned)) = v
                    /\ leverRange(k, With(k, v, turned)).min >= leverRange(k, turned).min
                    /\ leverRange(k, With(k, v, turned)).max <= leverRange(k, turned).max
  BY DEF DragHolds
<1>1. v \in Int /\ leverRange(k, turned).min <= v /\ v <= leverRange(k, turned).max
  <2>1. PICK a \in Int, b \in Int :
          a = leverRange(k, turned).min /\ b = leverRange(k, turned).max /\ a <= b
    BY TrackIsOrdered
  <2>2. v \in {a, b} \cup (Stops \cap a .. b)
    BY <2>1 DEF Positions
  <2> QED BY <2>1, <2>2
<1>2. With(k, v, turned) \in ValidPlans /\ Lever(k, With(k, v, turned)) = v
  BY <1>1, TurnedPlan
<1> QED BY <1>1, <1>2, TrackHolds DEF ValidPlans

(* An edit the schema refuses leaves the plan as it was. *)
LEMMA UpdatesStayValid ==
  ASSUME turned \in ValidPlans, NEW candidate, updatePlan(candidate),
         ValidPlan(candidate) => candidate \in Turnable
  PROVE  turned' \in ValidPlans
BY DEF updatePlan, ValidPlans

LEMMA PlanStaysValid ==
  ASSUME turned \in ValidPlans, Turn
  PROVE  turned' \in ValidPlans
<1>0. turned \in Turnable
  BY DEF ValidPlans
<1>1. ASSUME NEW k \in LeverKey, NEW v \in Positions(k), Drag(k, v) PROVE turned' \in ValidPlans
  <2>1. PICK a \in Int, b \in Int :
          a = leverRange(k, turned).min /\ b = leverRange(k, turned).max /\ a <= b
    BY TrackIsOrdered
  <2>2. v \in {a, b} \cup (Stops \cap a .. b)
    BY <2>1 DEF Positions
  <2>3. v \in Int /\ leverRange(k, turned).min <= v /\ v <= leverRange(k, turned).max
    BY <2>1, <2>2
  <2>4. With(k, v, turned) \in ValidPlans
    BY <2>3, TurnedPlan
  <2> QED BY <1>1, <2>4, UpdatesStayValid DEF Drag, ValidPlans
<1>2. CASE EditAge
  <2>1. PICK a \in Ages : updatePlan([turned EXCEPT !.age = a])
    BY <1>2 DEF EditAge
  <2>2. ValidPlan([turned EXCEPT !.age = a]) => [turned EXCEPT !.age = a] \in Turnable
    <3> DEFINE q == [turned EXCEPT !.age = a]
    <3>1. q.age = a
      BY <1>0 DEF Turnable
    <3>2. ValidPlan(q) => a \in Int
      <4>1. ValidPlan(q) => q.age \in 18 .. 100
        BY DEF ValidPlan
      <4> HIDE DEF q
      <4> QED BY <3>1, <4>1
    <3> QED BY <1>0, <3>2 DEF Turnable
  <2> QED BY <2>1, <2>2, UpdatesStayValid
<1>3. CASE EditLifeExpectancy
  <2>1. PICK a \in Lifetimes : updatePlan([turned EXCEPT !.lifeExpectancy = a])
    BY <1>3 DEF EditLifeExpectancy
  <2>2. ValidPlan([turned EXCEPT !.lifeExpectancy = a]) => [turned EXCEPT !.lifeExpectancy = a] \in Turnable
    <3> DEFINE q == [turned EXCEPT !.lifeExpectancy = a]
    <3>1. q.lifeExpectancy = a
      BY <1>0 DEF Turnable
    <3>2. ValidPlan(q) => a \in Int
      <4>1. ValidPlan(q) => q.lifeExpectancy \in 65 .. 120
        BY DEF ValidPlan
      <4> HIDE DEF q
      <4> QED BY <3>1, <4>1
    <3> QED BY <1>0, <3>2 DEF Turnable
  <2> QED BY <2>1, <2>2, UpdatesStayValid
<1>4. CASE EditWages
  <2>1. PICK w \in Wages : updatePlan([turned EXCEPT !.currentSalary = w])
    BY <1>4 DEF EditWages
  <2>2. ValidPlan([turned EXCEPT !.currentSalary = w]) => [turned EXCEPT !.currentSalary = w] \in Turnable
    <3> DEFINE q == [turned EXCEPT !.currentSalary = w]
    <3>1. q.currentSalary = w
      BY <1>0 DEF Turnable
    <3>2. ValidPlan(q) => w \in Int
      <4>1. ValidPlan(q) => q.currentSalary \in 0 .. MAX_PLAN_DOLLARS
        BY DEF ValidPlan
      <4> HIDE DEF q
      <4> QED BY <3>1, <4>1, LargestAmount
    <3> QED BY <1>0, <3>2 DEF Turnable
  <2> QED BY <2>1, <2>2, UpdatesStayValid
<1>5. CASE EditMultiplier
  <2>1. PICK m \in Multipliers : updatePlan([turned EXCEPT !.retirementSpendingMultiplier = m])
    BY <1>5 DEF EditMultiplier
  <2>2. ValidPlan([turned EXCEPT !.retirementSpendingMultiplier = m])
          => [turned EXCEPT !.retirementSpendingMultiplier = m] \in Turnable
    <3> DEFINE q == [turned EXCEPT !.retirementSpendingMultiplier = m]
    <3>1. q.retirementSpendingMultiplier = m
      BY <1>0 DEF Turnable
    <3>2. ValidPlan(q) => m \in Int
      <4>1. ValidPlan(q) => q.retirementSpendingMultiplier \in 0 .. 1000
        BY DEF ValidPlan
      <4> HIDE DEF q
      <4> QED BY <3>1, <4>1
    <3> QED BY <1>0, <3>2 DEF Turnable
  <2> QED BY <2>1, <2>2, UpdatesStayValid
<1>6. CASE IncludeBenefits
  <2>1. PICK b \in BOOLEAN : updatePlan([turned EXCEPT !.ssEnabled = b])
    BY <1>6 DEF IncludeBenefits
  <2>2. [turned EXCEPT !.ssEnabled = b] \in Turnable
    BY <1>0 DEF Turnable
  <2> QED BY <2>1, <2>2, UpdatesStayValid
<1>7. CASE BenefitSource
  <2>1. PICK b \in BOOLEAN : updatePlan([turned EXCEPT !.manualOverride = b])
    BY <1>7 DEF BenefitSource
  <2>2. [turned EXCEPT !.manualOverride = b] \in Turnable
    BY <1>0 DEF Turnable
  <2> QED BY <2>1, <2>2, UpdatesStayValid
<1> QED BY <1>1, <1>2, <1>3, <1>4, <1>5, <1>6, <1>7 DEF Turn

LEMMA StoredIsValid ==
  ASSUME NEW stored \in StoredPlans
  PROVE  stored \in ValidPlans
<1>1. ValidPlan(stored)
  BY DEF StoredPlans
<1>2. /\ stored \in [age : Ages, lifeExpectancy : Lifetimes, retirementAge : StoredRetirementAges,
          currentSalary : Wages, currentSpending : StoredSpendings,
          retirementSpendingMultiplier : {100}, claimAge : {67},
          ssEnabled : {TRUE}, manualOverride : {FALSE},
          rothConversion : {CONVERSION_STEPS[1]}]
  BY DEF StoredPlans
<1>3. PICK a \in Ages, l \in Lifetimes, r \in StoredRetirementAges, w \in Wages, s \in StoredSpendings :
        stored = [age |-> a, lifeExpectancy |-> l, retirementAge |-> r, currentSalary |-> w,
                currentSpending |-> s, retirementSpendingMultiplier |-> 100, claimAge |-> 67,
                ssEnabled |-> TRUE, manualOverride |-> FALSE,
                rothConversion |-> CONVERSION_STEPS[1]]
  BY <1>2
<1>4. /\ stored.age \in Int /\ stored.lifeExpectancy \in Int /\ stored.retirementAge \in Int
      /\ stored.currentSalary \in Int /\ stored.currentSpending \in Int
  BY <1>1, LargestAmount DEF ValidPlan, MIN_RETIREMENT_AGE
<1>5. a \in Int /\ l \in Int /\ r \in Int /\ w \in Int /\ s \in Int
  BY <1>3, <1>4
<1>6. CONVERSION_STEPS[1] \in {CONVERSION_STEPS[i] : i \in 1 .. 6}
  OBVIOUS
<1>7. stored \in Turnable
  BY <1>3, <1>5, <1>6 DEF Turnable
<1> QED BY <1>1, <1>7 DEF ValidPlans

(* Whatever plan is loaded, typed or dragged, to whatever stop: the service  *)
(* accepts its sweep, every curve answers that plan with its own lever       *)
(* turned, and a handle stays where it is dropped (levers.ts 109, 188;       *)
(* simulation.ts 285, 447).                                                  *)
THEOREM LeversAreHeld == LeversSpec => []LeversHold
<1> DEFINE Sound == turned # Unloaded => turned \in ValidPlans
<1>1. LeversInit => Sound
  BY DEF LeversInit
<1>2. Sound /\ [LeversNext]_leverVars => Sound'
  <2>1. ASSUME Load PROVE turned' \in ValidPlans
    BY <2>1, StoredIsValid DEF Load
  <2>2. ASSUME turned \in ValidPlans, Turn PROVE turned' \in ValidPlans
    BY <2>2, PlanStaysValid
  <2>3. UNCHANGED leverVars => turned' = turned
    BY DEF leverVars
  <2> QED BY <2>1, <2>2, <2>3 DEF LeversNext, Turn
<1>3. Sound => LeversHold
  BY SweepIsAccepted, CurvesAnswer, DragsHold DEF LeversHold
<1> QED BY <1>1, <1>2, <1>3, PTL DEF LeversSpec
=============================================================================
