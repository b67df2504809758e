------------------------------- MODULE Signup -------------------------------
(***************************************************************************)
(* Creating an account: the form (app/auth/signup/page.tsx, auth.ts), the   *)
(* provider that follows Firebase (lib/firebase/auth-context.tsx) and the   *)
(* sync-user route (api/data-routes.ts) with the users table.  Form and     *)
(* provider both call the route for a new credential, in an order neither   *)
(* controls; every call passes the server in three steps of its own and may *)
(* lose its reply.  All attempts here are for one email address, which the  *)
(* table holds at most once, from one client address, whose invite attempts *)
(* are metered.  The quota's window is abstracted to its being over.        *)
(***************************************************************************)
EXTENDS Integers, Sequences, FiniteSets

CONSTANTS
  InviteLimit,  \* INVITE_RATE_LIMIT.limit
  MaxSignups,   \* bound: credentials Firebase creates
  MaxCalls,     \* bound: calls of the route; nobody begins what might need more
  MaxFaults     \* bound: requests or replies that are lost

ASSUME SignupAssumption == {InviteLimit, MaxSignups, MaxCalls, MaxFaults} \subseteq Nat

VARIABLES
  form,      \* where handleSubmit is
  formUser,  \* the credential it created
  stash,     \* sessionStorage: whether the parked invite code is right
  created,   \* credentials Firebase ever created: 1..created
  live,      \* the credential that exists now
  authUser,  \* auth.currentUser of the page
  notified,  \* the user onAuthStateChanged last reported
  provider,  \* AuthProvider: generation, user, cloudReady, loading
  calls,     \* the calls of sync-user, oldest first
  rows,      \* ids of the users table
  used,      \* invite attempts spent in the open window
  faults     \* requests and replies lost so far

firebaseVars == <<created, live, authUser>>
serverVars == <<rows, used>>
signupVars == <<form, formUser, stash, firebaseVars, notified, provider, calls, serverVars, faults>>

Nobody == 0
Uids == 1..MaxSignups
Calls == DOMAIN calls
Fault == faults < MaxFaults /\ faults' = faults + 1

(* A call waits for its token, passes UPDATE, quota and INSERT, and is        *)
(* answered; at "done" its caller has gone on.                               *)
Call == [by : {"form", "provider", "unloaded page"}, uid : Uids, generation : Nat,
         code : {"none", "right", "wrong"},
         at : {"token", "update", "quota", "insert", "replied", "done"}, ok : BOOLEAN]

SignupTypeOK ==
  /\ form \in {"idle", "creating", "naming", "syncing", "deleting", "failed", "done"}
  /\ formUser \in Uids \cup {Nobody}
  /\ stash \in {"none", "right", "wrong"}
  /\ created \in 0..MaxSignups /\ {live, authUser, notified} \subseteq 0..created
  /\ provider \in [generation : Nat, user : 0..created, cloudReady : BOOLEAN, loading : BOOLEAN]
  /\ calls \in Seq(Call) /\ Len(calls) <= MaxCalls
  /\ rows \subseteq 1..created /\ Cardinality(rows) <= 1
  /\ used \in 0..InviteLimit /\ faults \in 0..MaxFaults

FreshProvider(generation) ==
  [generation |-> generation, user |-> Nobody, cloudReady |-> FALSE, loading |-> TRUE]

(* The client's address may have spent invite attempts already. *)
SignupInit ==
  /\ form = "idle" /\ formUser = Nobody /\ stash = "none"
  /\ created = 0 /\ live = Nobody /\ authUser = Nobody
  /\ notified = Nobody /\ provider = [FreshProvider(0) EXCEPT !.loading = FALSE]
  /\ calls = <<>> /\ rows = {} /\ used \in 0..InviteLimit /\ faults = 0

(* syncUserRecord begins by asking for an ID token. *)
Asks(by, uid, generation) ==
  calls' = Append(calls, [by |-> by, uid |-> uid, generation |-> generation,
                           code |-> "none", at |-> "token", ok |-> FALSE])

-----------------------------------------------------------------------------
(* The form *)

Submit(code) ==
  /\ form \in {"idle", "failed"} /\ created < MaxSignups /\ Len(calls) + 3 <= MaxCalls
  /\ form' = "creating" /\ stash' = code
  /\ UNCHANGED <<formUser, firebaseVars, notified, provider, calls, serverVars, faults>>

(* createUserWithEmailAndPassword signs the new credential in. *)
CreateUser ==
  /\ form = "creating" /\ live = Nobody
  /\ created' = created + 1 /\ live' = created + 1 /\ authUser' = created + 1
  /\ formUser' = created + 1 /\ form' = "naming"
  /\ UNCHANGED <<stash, notified, provider, calls, serverVars, faults>>

CreateRefused ==
  /\ form = "creating"
  /\ \/ live # Nobody /\ UNCHANGED faults
     \/ Fault
  /\ form' = "failed"
  /\ UNCHANGED <<formUser, stash, firebaseVars, notified, provider, calls, serverVars>>

(* updateProfile: if it fails, signUp reports an error and no user. *)
UpdateProfile ==
  /\ form = "naming"
  /\ \/ form' = "syncing" /\ Asks("form", formUser, 0) /\ UNCHANGED faults
     \/ form' = "failed" /\ Fault /\ UNCHANGED calls
  /\ UNCHANGED <<formUser, stash, firebaseVars, notified, provider, serverVars>>

Finished(call) == [call EXCEPT !.at = "done", !.code = "none", !.ok = FALSE]
Done(i) == calls' = [calls EXCEPT ![i] = Finished(@)]

(* A failed sync rolls the credential back; a good one reloads the page, and  *)
(* what the old page still awaits answers to nobody.                         *)
SyncFailed(i) ==
  /\ calls[i].by = "form" /\ calls[i].at = "replied" /\ ~calls[i].ok
  /\ form' = "deleting" /\ Done(i)
  /\ UNCHANGED <<formUser, stash, firebaseVars, notified, provider, serverVars, faults>>

Unloaded(call) ==
  IF call.at \in {"token", "replied", "done"} THEN Finished(call)
  ELSE [call EXCEPT !.by = "unloaded page"]

SyncSucceeded(i) ==
  /\ calls[i].by = "form" /\ calls[i].at = "replied" /\ calls[i].ok
  /\ form' = "done" /\ stash' = "none"
  /\ calls' = [j \in Calls |-> Unloaded(calls[j])]
  /\ notified' = Nobody /\ provider' = FreshProvider(provider.generation + 1)
  /\ UNCHANGED <<formUser, firebaseVars, serverVars, faults>>

(* user.delete().catch(() => undefined) *)
DeleteUser ==
  /\ form = "deleting" /\ form' = "failed"
  /\ \/ live' = Nobody /\ authUser' = Nobody /\ UNCHANGED faults
     \/ UNCHANGED <<live, authUser>> /\ Fault
  /\ UNCHANGED <<formUser, stash, created, notified, provider, calls, serverVars>>

-----------------------------------------------------------------------------
(* The provider *)

(* onAuthStateChanged reports the current user once it is another one. *)
AuthStateChanged ==
  /\ authUser # notified \/ (provider.loading /\ provider.user = Nobody /\ authUser = Nobody)
  /\ notified' = authUser
  /\ IF authUser = Nobody
     THEN /\ provider' = [generation |-> provider.generation + 1, user |-> Nobody,
                          cloudReady |-> FALSE, loading |-> FALSE]
          /\ UNCHANGED calls
     ELSE /\ provider' = [provider EXCEPT !.generation = @ + 1, !.loading = TRUE,
                                          !.cloudReady = FALSE]
          /\ Asks("provider", authUser, provider.generation + 1)
  /\ UNCHANGED <<form, formUser, stash, firebaseVars, serverVars, faults>>

(* A mistake for the runs to find: the answer of an older user counts. *)
Current_Any(call) == TRUE

Current(call) == call.generation = provider.generation

(* A mistake: a failed sync returns before the page stops loading. *)
ProviderResumes_OnSuccess(i) ==
  /\ calls[i].by = "provider" /\ calls[i].at = "replied"
  /\ Done(i)
  /\ IF Current(calls[i]) /\ calls[i].ok
     THEN provider' = [provider EXCEPT !.user = calls[i].uid, !.cloudReady = TRUE, !.loading = FALSE]
     ELSE UNCHANGED provider
  /\ UNCHANGED <<form, formUser, stash, firebaseVars, notified, serverVars, faults>>

(* A failed sync still shows the user, without the cloud. *)
ProviderResumes(i) ==
  /\ calls[i].by = "provider" /\ calls[i].at = "replied"
  /\ Done(i)
  /\ IF Current(calls[i])
     THEN provider' = [provider EXCEPT !.user = calls[i].uid, !.cloudReady = calls[i].ok,
                                       !.loading = FALSE]
     ELSE UNCHANGED provider
  /\ UNCHANGED <<form, formUser, stash, firebaseVars, notified, serverVars, faults>>

-----------------------------------------------------------------------------
(* The route *)

(* The parked code is read when the token is there. *)
Send(i) ==
  /\ calls[i].at = "token"
  /\ calls' = [calls EXCEPT ![i].at = "update", ![i].code = stash]
  /\ UNCHANGED <<form, formUser, stash, firebaseVars, notified, provider, serverVars, faults>>

Replies(i, ok) ==
  calls' = [calls EXCEPT ![i] = IF @.by = "unloaded page" THEN Finished(@)
                                ELSE [@ EXCEPT !.at = "replied", !.ok = ok]]
Passes(i, place) == calls' = [calls EXCEPT ![i].at = place]
RouteUnchanged == UNCHANGED <<form, formUser, stash, firebaseVars, notified, provider, faults>>

Update(i) ==
  /\ calls[i].at = "update"
  /\ IF calls[i].uid \in rows THEN Replies(i, TRUE) ELSE Passes(i, "quota")
  /\ RouteUnchanged /\ UNCHANGED serverVars

(* An attempt is spent whether or not its code is right. *)
ConsumeInvite(i) ==
  /\ calls[i].at = "quota"
  /\ \/ /\ used = InviteLimit /\ Replies(i, FALSE) /\ UNCHANGED used
     \/ /\ used < InviteLimit /\ used' = used + 1
        /\ IF calls[i].code = "right" THEN Passes(i, "insert") ELSE Replies(i, FALSE)
  /\ RouteUnchanged /\ UNCHANGED rows

(* ON CONFLICT (id): the same id is an update, the same email an error. *)
Insert(i) ==
  /\ calls[i].at = "insert"
  /\ \/ rows \subseteq {calls[i].uid} /\ rows' = {calls[i].uid} /\ Replies(i, TRUE)
     \/ ~(rows \subseteq {calls[i].uid}) /\ UNCHANGED rows /\ Replies(i, FALSE)
  /\ RouteUnchanged /\ UNCHANGED used

(* A request or its reply is lost, or the token cannot be had. *)
Lost(i) ==
  /\ Fault
  /\ \/ calls[i].at \in {"token", "update"}
     \/ calls[i].at = "replied" /\ calls[i].ok
  /\ Replies(i, FALSE)
  /\ UNCHANGED <<form, formUser, stash, firebaseVars, notified, provider, serverVars>>

WindowOver ==
  /\ used > 0 /\ used' = 0
  /\ UNCHANGED <<form, formUser, stash, firebaseVars, notified, provider, calls, rows, faults>>

SignOut ==
  /\ form \in {"failed", "done"} /\ authUser # Nobody /\ authUser' = Nobody
  /\ UNCHANGED <<form, formUser, stash, created, live, notified, provider, calls, serverVars, faults>>
SignIn ==
  /\ form \in {"failed", "done"} /\ authUser = Nobody /\ live # Nobody /\ authUser' = live
  /\ Len(calls) < MaxCalls
  /\ UNCHANGED <<form, formUser, stash, created, live, notified, provider, calls, serverVars, faults>>

FormSteps ==
  CreateUser \/ CreateRefused \/ UpdateProfile \/ DeleteUser
    \/ \E i \in Calls : SyncFailed(i) \/ SyncSucceeded(i)
Serves(i) == Send(i) \/ Update(i) \/ ConsumeInvite(i) \/ Insert(i)
Proceeds(i) == Serves(i) \/ ProviderResumes(i)

SignupNext ==
  \/ \E code \in {"right", "wrong"} : Submit(code)
  \/ FormSteps \/ AuthStateChanged
  \/ \E i \in Calls : Proceeds(i) \/ Lost(i)
  \/ WindowOver \/ SignOut \/ SignIn

SignupSpec == SignupInit /\ [][SignupNext]_signupVars

(* Requests are answered, awaits resume and Firebase reports its users. *)
SignupFairSpec ==
  /\ SignupSpec /\ WF_signupVars(FormSteps) /\ WF_signupVars(AuthStateChanged)
  /\ \A i \in 1..MaxCalls : WF_signupVars(i \in Calls /\ Proceeds(i))

-----------------------------------------------------------------------------
(* The generation guard: once the provider is not loading, it shows the user  *)
(* Firebase last reported, ready for the cloud only if that user has a row,  *)
(* whatever older answers arrive.                                            *)
SettledIsCurrent ==
  ~provider.loading =>
    /\ provider.user = notified
    /\ provider.cloudReady => provider.user \in rows

(* A sign-up that ends well leaves a credential and its row: the page that    *)
(* loads next can read and save a plan.                                      *)
DoneIsMember == form = "done" => formUser \in rows /\ live = formUser

(* Signup's promise about the provider and the form, in states of its types.  *)
SignupSafe == SignupTypeOK /\ SettledIsCurrent /\ DoneIsMember

(* Whatever is lost, the provider stops loading and the form answers.        *)
SignupSettles ==
  /\ form \in {"creating", "naming", "syncing", "deleting"} ~> form \in {"failed", "done"}
  /\ provider.loading ~> ~provider.loading

(* "Too many signup attempts. Try again later." (data-routes.ts:234), "Could  *)
(* not finish creating your account. Please try again." (signup/page.tsx:88):*)
(* a failed attempt whose credential is gone leaves the email free.          *)
RetryPossible == form = "failed" /\ live = Nobody => rows = {}
=============================================================================
