# RetirePlan: a TLA+ verification project

RetirePlan (`src/`) is a retirement planner: a React page that keeps a plan in the
browser or in the cloud, an edge worker and a database behind it, and a Monte Carlo
engine in Rust that runs both as a private service and as WebAssembly in the page.
This directory holds TLA+ models of its stateful parts, the TLC runs that check them
and the theorems that TLAPS proves about them. Paths below are relative to `src/`;
`web/` stands for `apps/web/src/` and `rust/` for `rust-simulation-service/src/`.

## 1. Inventory

| component | state | operations | modelled by |
|---|---|---|---|
| plan store `web/state/usePlan.ts`, `lib/persistence.ts`, `services/client/*` | the page's plan, its dirty flag and revision, the save in flight, localStorage, storage mode | bootstrap, edits, flush, account operations, storage toggle, reload | `PlanSync` |
| profile rows `web/services/server/database.ts` | `user_profiles` with a revision, `accounts`, `users` | read, compare-and-set, account CRUD | `PlanSync` (profiles), `Database` (accounts) |
| simulation pipeline `web/state/usePlan.ts`, `services/simulation.ts`, `workers/mc.worker.ts` | debounce timer, generation, controller, result and pending marks | run, abort, fall back, commit | `SimPipeline`, abstractly `Headline` |
| sign-up `web/app/auth/signup/page.tsx`, `lib/firebase/*`, `api/data-routes.ts` | Firebase credential, auth context, parked invite code, `users` row, invite quota | submit, sync, roll back, sign in and out | `Signup` |
| edge simulation routes `web/worker/simulation-routes.ts`, `application-user.ts`, `rust-service.ts`, `lib/simulation-proxy.ts` | membership cache, both budgets, one handler per request | admit, charge, validate, forward, time out | `EdgeSimulation` |
| quota counter `web/worker/quota-counter.ts` | rows of a Durable Object, its alarm | consume, alarm | `QuotaCounter` |
| origin rate limiter `web/lib/rate-limit.ts` | map of windows, overflow buckets | check, cleanup | `RateLimiter` |
| Rust service `rust/server.rs`, `main.rs`, `simulation/monte_carlo.rs` | semaphore, blocking jobs, cancellation tokens | receive, acquire, compute, reply, disconnect | `RustServer` |
| token mint `web/worker/google-id-token.ts`, `lib/rust-service-client.ts` | the isolate's imported key and memo, the colo cache, the origin's client map | mint, join, share, rotate, evict | `IdToken` |
| edge proxy `web/worker/index.ts`, `proxy.ts`, `lib/origin-auth.ts` and the origin behind it `server/app.ts` | the shared secret on both sides, the origin's charges | route, strip, forward, admit, charge | `EdgeProxy` |
| browser engine `web/engine/mc.ts`, `workers/mc.worker.ts` | the main Worker, the sweep pool, the run of each | shard, run, answer, fail, abort, terminate | `EngineWorkers` |
| schema, connections and accounts `web/services/server/migrate.ts`, `database.ts`, `worker/request-database.ts` | `schema_migrations`, advisory locks, the isolate's memo, a request's connection, `accounts` | migrate, open, check the floor, account operations, close | `Database`, abstractly `AccountTable` |
| engine, one path `rust/simulation/projection.rs`, `healthcare_premiums.rs`, `roth_conversion.rs` | within a call: account buckets, Roth basis ledger, HSA allowance, MAGI history, care episode | begin, fund and close each year from the as-of date to life expectancy | `Portfolio`, `YearRules`, `Projection` |
| chart and preview `web/components/ui/charts/cash-flow-*`, `domain/healthcare.ts` | none | a year's bars, the first retirement year's premium | `Reports` |
| levers and sweeps `web/domain/levers.ts`, `services/simulation.ts`, `lib/simulation-request.ts` | the plan on screen | ranges, stops, scenarios, batches, curves, drags | `PlanLevers` |
| editing pages `web/components/retire/pages/accounts.tsx`, `profile.tsx`, `app/page.tsx` | an editor with its draft, a focused field, calls in flight | open, type, submit, delete, focus, blur, navigate | `PlanEditor` |
| stored bundles `web/state/usePlan.ts`, `domain/schemas.ts`, `domain/age.ts` | what browser and cloud hold, in any version | load, upgrade, edit, write back | `Hydration` |
| retired builds `web/lib/chunk-recovery.ts`, `components/error-boundary.tsx` | a marker in session storage | preload error, reload, boundary | `ChunkRecovery` |
| engine, tables `rust/simulation/tax.rs`, `state_tax.rs`, `rmd.rs`, `ssa.rs`, `ltc.rs` | none | brackets, benefits, distribution factors, care distributions | constants of `YearRules` |
| presentation, Firebase wrappers, analytics, generated tables, wasm glue, Terraform and CI | | | not modelled |

How they meet: the page's store calls the data routes with the Firebase user's token;
its simulation pipeline calls the edge routes, or the Workers when the session has no
registered account or the cloud fails. The edge routes consult the quota object and
the `users` table and call the Rust service with a minted token. The page's sign-up
form and its auth provider both call `sync-user`, which fills the table the edge
routes read. Nothing is shared but the database, the colo cache, the Durable Object
and one browser's localStorage.

What is hard here: awaits in the page between which users, plans and storage modes
change; two tabs on one row; replies that are lost or late; two stores (cache and
cloud) written one after the other; timers and abort signals racing answers; permits
held by work whose client left; windows, caches and alarms that end at the moment of
a call; and, in the engine, balances, a basis ledger, an allowance and lookbacks that
are carried from year to year through searches with tolerances. `PROJECT.json` lists each hazard at its line with the properties that would
catch it.

What makes each part correct: edits that were saved are never lost and never land in
another owner's plan; the number on screen is of the plan on screen; a budget is kept
over every window and a refusal is justified; compute never exceeds its slots;
membership ends within its TTL; a sign-up leaves a usable account or nothing; a
projected year accounts for every dollar and calls a household ruined only when
nothing is left to sell; what is typed lands in the plan it was typed for and reads
back as it was; an interleaving of requests is an order of account operations; and a
tab, a Worker or a request that is waiting comes to an end.

## 2. Plan

In the order in which a failure would hurt a user most; all of it is done.

1. `PlanSync` - plans of several users, tabs and storage modes; proved: the revision,
   owner and mode arguments, what clean means, and that a local plan is durable.
2. `SimPipeline` and the promise it implements, `Headline`; proved: freshness, one live
   run and the refinement. `EngineWorkers`, which runs what the pipeline asks for, and
   the count of its paths, proved.
3. `RustServer` - permits, cancellation and exact replies; all three proved.
4. `QuotaCounter` and `EdgeSimulation`, which extends it: budgets, membership, time
   limits; `IdToken` and `EdgeProxy` beside it; the safety of each proved.
5. `Signup` and `RateLimiter`, proved safe.
6. `Database` and the table it implements, `AccountTable`; proved: the refinement and
   the migrations.
7. The engine: one path with its rules (`Portfolio`, `YearRules`, `Projection`), and
   the browser's own figures beside it (`Reports`, `PlanLevers`); proved: the ledgers,
   the premium thresholds, the ruin of a retired year, the books of every year and the
   reports made of them.
8. The page: `PlanEditor`, `Hydration`, `ChunkRecovery`, whose safety is proved.

What a further step would take up: the ruin of a working year, which rests on the number
of shortfall passes, and the engine's generated tables against their sources.

## 3. Modules and the code they model

`PROJECT.json` maps every definition to its lines; here is how state and steps
correspond. Every action is one stretch of code between two awaits, callbacks or
messages; the JavaScript of a page, an isolate or a Durable Object runs such a
stretch without interruption.

**PlanSync** (`MCPlanSync`). A plan section is the set of edits it incorporates, so
that overwriting an edit is dropping it from a set. `page[t]` is `PlanState` with the
module variables of `usePlan.ts`; `save`, `boots` and `accountOps` are its requests;
`orphanSaves` and `orphanOps` are requests whose page was reloaded and which the
server may still apply. `AuthSettled`, `RetryCloud` and `setCloudSyncEnabled` start a
bootstrap; `BootStep` performs its two reads one by one and resumes it;
`flushProfileToDb`, `saveUserProfile` and `SaveReply` are the three moments of a save;
`updatePlan` is an edit. `Reload` is the page reloaded or crashed at any moment; the
flush that `beforeunload` attempts is the flush step followed by a reload. An absent
row and a null revision are both revision -1, so that the INSERT of a new row and the
UPDATE of an old one are one compare-and-set. Left out: the migration of a legacy
storage key, the rejection of an invalid edit (it changes nothing), the account cap,
error texts.

**SimPipeline** (`MCPage`) and **Headline**. A plan is its object identity and
whether the schema accepts it; a result is the plan and engine it was computed for. A
signal is aborted when its controller is no longer the active one. `scheduleSimulations`
clears and arms the timer; `TimerFires` starts the headline run; `MainRunSteps` and
`SweepRunSteps` move a run from the server to the browser and to its end; `MainReply`
and `SweepReply` are the continuations after the awaits, with their generation
checks. `Headline` is three actions - invalidate, publish, fail - and `Promise` states
that the pipeline implements it, with `plan` as the pair of plan and engine.

**RustServer** (`MCOrigin`). `handler` is the future of a request, `job` its
blocking task, `busy` the units of work that threads have begun. Receiving, waiting for
one of the fair (FIFO) semaphore's permits, starting the task, each unit's begin and
end, the reply and the drop of the future are separate steps. Units run on any number
of threads, a superset of what Rayon does; a panic in one leaves the others running.
A projection is abstracted to whether it succeeds; the representative path that
`aggregate_results` projects again, behind its own look at the token, is no unit here.

**QuotaCounter** is one shard of the Durable Object: `consume` and `alarm` are each a
step, since the input gate admits no other event while storage is awaited.
**EdgeSimulation** (`MCEdge`) extends it with its callers. A request's `at` is
the await it is suspended in: the request budget, the cache, the database, the put,
the body, the path budget, the token, Rust. The verification of a token, the validity
of a body, failures of the object (before or after it charged), of the cache, the
database, the token mint and Rust are all choices of a step. Answers are kept by
class; a caller may leave at any moment; `Register` and `Remove` change the users
table from outside.

What was granted or charged in a window is a sum (`Totals`), written as the size of a
set that has one element for each unit.

**RateLimiter** (`MCOrigin`). The map is a sequence in insertion order; `check` is
one step (it awaits nothing) and the timer's `Cleanup` may run at any tick.

**Signup** (`MCPage`). One email, one address, one tab. `form` is where `handleSubmit`
waits; `provider` the auth context with its generation; `calls` the `sync-user`
requests of both, each with the route's stages (update, quota, insert); `rows` the
`users` rows of that email. Calls of a page that has been left end on the server only.

**Portfolio**, **YearRules**, **Projection** (`MCProjection`). One Monte Carlo path:
`project_scenario_internal_prepared`, whose loop body is cut where it reads something
the model leaves open. `BeginWorkingYear` and `BeginRetiredYear` season the Roth
ledger, find the required distribution, price healthcare and care and let the market
move by any percentage of `Growth`; `ShortfallPass` is one pass of the working year's
loop; `FundRetiredYear` is the search for a budget with `finish_ordered_withdrawals`;
`CloseWorkingYear` invests the residual, `CloseRetiredYear` converts, and both push the
year's MAGI and observe care. `row` is the year's `PathProjection`, `now` the locals of
the loop body. `Portfolio` holds the buckets and the withdrawal order with its MAGI
band, `YearRules` the rules of a year, under the names of their functions. The ledger's
lots are a sequence: `Principal` adds up the oldest, `Leads` says which have seasoned,
and a used-up lot stays with nothing left, as in the code.

Money is in whole dollars and a share is rounded down. Tax is any function of ordinary
income, benefit and gains (`Tax`, `TaxableIncome`, `PayrollTax`), so nothing depends on
a table. The bisection for a budget is modelled by where it may end (`Solutions`), the
false-position search for a conversion by its result, the largest that fits. The
years of `as_of_date` are whole (the code prorates the first), growth rates of salary,
spending and premiums are zero, the schema version is the newest, all invested
buckets earn the same return and surplus cash nothing, and the draw of a care episode
is a free choice.

**EngineWorkers** (`MCPage`). `run[k]` is the newest headline or sweep, `pool[k]` the
Workers the page holds for that kind; a Worker is a queue of calls and whether its wasm
is ready. Begin, a Worker's answer, its failure and the abort of the shared signal are
the steps; what a path computes is left out, and a run tallies how often each path was
counted, from which `sweepPathShards` is checked.

**IdToken** (`MCEdge`). `signingKey` and `current` are the isolate's two memos, `cache`
the colo's copy per key, `client` the origin's map. A mint is under way in steps that
others join; a key may be rotated and an isolate evicted at any moment. A token is its
key and its expiry.

**EdgeProxy** (`MCEdge`). A request carries its headers as a function from names to
values through `Arrive` (by the worker) or `ArriveDirectly` (at the origin), and is
served, refused, forwarded, admitted, charged and computed; the two sides take the new
secret one after the other. One classification of a path (`Routes`) serves both routers:
the worker compares the raw pathname (`index.ts:33`, `proxy.ts:168`), and that the
origin's router reads it alike rests on the platform, which normalizes URLs before the
worker sees them.

**Database** and **AccountTable** (`MCOrigin`). A migration job and a request are each
one transaction or statement at a time under READ COMMITTED: an advisory lock is
`holder`, what a transaction has not committed is in its `job` or `request` record. A
job may fail or be cancelled before any statement. `Fail` is a failed statement or a
limit on its time, which the code sets within transactions only
(`database-connection.ts:40`); connecting and single statements of the edge client are
bounded by Hyperdrive. A migration's DDL locks no table here. The schema is a set of objects that
migrations create, require or drop. `AccountTable` is the same accounts with one atomic
operation per request; `Database` implements it with `rows` as they are.

**Reports** (`MCProjection`). Operators over the rows of `Projection`: `toCashFlowRow`
beside the engine's own books, and the first retirement year's premium beside the one
the engine charges.

**PlanLevers** (`MCPlanData`). `plan` is what the levers and the fields that bound them
hold, in thousands of dollars; a drag and an edit go through the schema as `updatePlan`
does. Ranges, stops, scenario ids, grouping and the drawing of curves are operators
under the source's names, evaluated in every state.

**PlanEditor** (`MCPlanData`). A render of `app/page.tsx` with its effects is one step
(`Renders`): a page that was unmounted comes back without its drafts. `EditorAssumption`
is that a field has two legal amounts and an account a text. `commit` is the last value
written and the owner and account it was typed for.

**Hydration** (`MCPlanData`). A payload is a record with the fields its bundle has; a
plan what `hydratePlan` makes of it; `loaded` is the one on screen. A date is a year and
a day of it. Browser and cloud hold what some version wrote; `Edit` writes the present
one. `FromOldBundle` says what an old bundle may have stored: its date; a birth date, or
an age and a birth year that agree; the target of an HSA or the flag that replaced it;
spending in dollars, whole percents of each other, since a rounded percent need not
give the dollars back.

**ChunkRecovery** (`MCPage`). A build is a number, and its chunks resolve while it is
the deployed one and sound; `reloads` lists when the tab reloaded by itself.

## 4. Runs, bounds and what they show

Two of everything that can race is enough for each property below to be broken by a
plausible mistake in the code: the project holds such a mistake for each (operators
named `X_Something` before the definition `X`), and TLC finds each violation within the
bounds of the run. A type invariant is checked as a part of the property that relies on
it, or proved (section 6).

Four runs check components that share no variable. Their MC module extends the
components (`MCPlanData` instantiates `PlanLevers`, whose names clash with the engine's)
and fixes a variable `driven` in the initial state:
a behaviour takes the steps of one component and the others rest in one initial state.
The reachable states are the union of the components' own, not their product, so the
composition costs no bound; fairness is stated of the driven component over its own
variables. Where components do interact, one module extends the other or implements it:
`EdgeSimulation` extends `QuotaCounter`, `Reports` reads the state of `Projection`,
`SimPipeline` implements `Headline`, `Database` implements `AccountTable`.

| run | bounds | shows |
|---|---|---|
| `plan_owners` | 1 tab, 2 users and a guest, 3 bootstraps, 1 fault, 1 account operation | plans, caches and rows stay their owner's (`OwnerIsolation`); a local plan survives a reload (`LocalDurable`); a cloud edit reaches its row, and bootstraps end, under fairness (`EditReachesCloud`, `EventuallyUsable`) |
| `plan_tabs` | 2 tabs of one user, 2 edits, 1 fault | a current revision means knowing the row (`RevisionInv`); clean means saved (`CleanMeansSaved`); no save removes a saved edit (`NoSavedEditLost`) |
| `plan_storage` | 1 tab, storage that may refuse writes, unreadable items, rows of an old or unusable schema | local edits are never uploaded (`LocalStaysLocal`), cloud sessions never mix in local data (`CloudAllOrNothing`) |
| `page` | pipeline: 2 changes, 1 re-bootstrap; Workers: 1, 3 or 6 cores, 2 or 5 paths, 3 refreshes, 1 failure; sign-up: 2 attempts, 4 calls, 1 fault, 1 invite attempt a window; chunks: 4 builds, a window of 2 in 7 ticks | an unmarked headline is current and at most one run is live (`HeadlineSafe`), unmarked curves are current (`CurvesFresh`), the pipeline implements `Headline` (`Promise`) and nothing stays pending (`PendingSettles`); every path counted once, no Worker busy for nobody (`EveryPathOnce`) and runs settle (`RunsSettle`); `SignupSafe`, `SignupSettles`; own reloads are a window apart (`NoSpin`) and the first retired chunk heals itself (`RecoversAlone`) |
| `plan_data` | engine: fourteen plans over five portfolios, ages to 7, a market of -50% or +50% each year; levers: spending far beyond wages of 0 or 140, a life to 70 or 85; editor: 2 users, 2 accounts, 4 opens, 2 calls; payloads of eleven old bundles and three edits | years reconcile (`CashReconciles`), ruin means nothing is left (`RuinMeansEmpty`), a MAGI threshold is crossed only if nothing else can pay (`CliffNotCrossed`), the Roth ledger, the allowance and care are exact (`LedgersExact`), chart and preview agree with the engine (`ReportsAgree`); `LeversHold`; `EditsLandWhereTyped`; `ReloadKeepsPlan` |
| `edge` | 2 requests of 2 paths after an earlier one or none, budgets of 2 requests and 3 paths, windows, TTL and time limit within 3 ticks; or the same 2 requests with an account that comes and goes and callers that stay; 2 calls for tokens on one isolate, two, or the origin, 2 keys, 1 fault; 2 callers of the origin in turn, 2 addresses | budgets and decisions are exact and compute and queries are paid (`Budgeted`); `MembershipTimely`; every request ends (`RequestsEnd`); `TokensRight`; `BoundaryKept` |
| `origin` | headline, sweep and batch on 2 slots, one engine error, one panic; 3 addresses on 2 routes in a map of 2, limit 2, windows of 2 ticks, 3 ticks; 2 migration jobs and a request, 1 job and two requests in turn, or 2 requests of one user at once, a cap of 2 | `ComputeBounded`, `ReplyExact`, `GoneBeginsNothing`, `QueuedServed`; `LimiterExact`; `SchemaSound`; `AccountsAtomic`, `ConnectionsReturned` |
| `plan_reload` (violation) | 1 guest, storage that may refuse writes | a plan stored as a starter plan is dropped by the next reload |
| `signup_retry` (violation) | 1 attempt, no fault | a failed sign-up leaves a row that blocks the email |
| `preview` (violation) | the households of `plan_data` | the premium preview promises a credit the engine does not give |
| `origin_rotation` (violation) | 1 request, both updates | a rotation that begins at the worker refuses its requests |
| `first_visit` (violation) | nothing stored | a first visitor's plan changes by itself at the next load |

`CHECK_DEADLOCK FALSE` is in every cfg but that of `first_visit`, whose loads never
come to an end: users may stop editing, bounded histories end,
and a state in which nothing is left to do is a proper end of each of these systems.

Some instances are cut along a line the properties do not cross. In `edge`, the users
table is fixed while budgets are counted and callers stay while membership is looked up,
since no budget reads the table and no membership the signal; an `EarlierRequest` that
was charged and ended stands for a third caller. The second caller of the proxy comes
after the first, as nothing but the charge of the first outlives it. In `origin`, two
requests of one isolate come in turn when they meet a migration, so that the second
relies on what the first one confirmed. `plan_data` evaluates the sweeps only where the
levers are driven.

In the engine the ages at which rules change (penalties, claim, Medicare and care,
required distributions) are 4, 4, 5, 5 and 6 and a life ends at 7, so that every order
of retirement before, between and after them occurs within seven years; a conversion
seasons in two. Penalties and the gain share are large because a small share of a small
sum rounds to nothing. Twelve shortfall passes stand for fifty: with these sums the gap
closes, or the portfolio is empty, in fewer, or `RuinMeansEmpty` would fail.

The counters that bound a run - `MaxGeneration`, `MaxFaults`, `MaxAccountOps`,
`MaxInvalidations`, `MaxBootstraps`, `MaxSignups`, `MaxCalls`, `MaxSignals`,
`MaxFailures`, `MaxOpens`, `MaxBuilds`, `MaxTime`, `Horizon`, `MaxLookup` - appear in
guards of users, faults, deploys and the clock only, never in a guard of the code, and
are named as bounds where they are declared. `MaxLookup` is also an assumption: an
answer of the database is put in the cache within that time.

### The violations

* `plan_reload`: a stored profile without stored accounts is loaded as a "starter"
  plan and saved back as one; the next load replaces it by the defaults, although a
  test says that a stored plan is preserved.
* `signup_retry`: form and provider both sync a new credential. If the provider's call
  takes the last invite attempt and inserts the row, the form's call is refused and the
  credential, not the row, is deleted; the email can never sign up again, although the
  messages invite another try.

* `preview`: the profile page's `estimatedFirstRetirementYearMagi` never goes over the
  MAGI ceiling; the engine does when nothing else can pay. A household whose Roth
  cannot pay what the ceiling keeps out is shown a premium with a credit and charged the list premium, although the
  page says that it prices the year as the engine does.
* `origin_rotation`: the origin accepts its current and its previous secret. Updating it
  first is safe; updating the worker first has every request refused until the origin
  follows, although the comment says "in either order".
* `first_visit`: a browser that has stored nothing gets a birth date derived from age
  35, the default plan is 30; the untouched plan is stored as a starter and the next
  load shows the default.

### Observations without a run of their own

Reading the code for the models also showed:

* `usePlan.ts:43` says localStorage "doubles as a write-through cache so unsaved changes
  survive crashes", but a cloud bootstrap hydrates from the row alone and writes it
  over the cache (`usePlan.ts:568`): an edit that was not flushed is lost.
* The installments of a care episode are charged in retired years only
  (`projection.rs:1219`). A household that still works when the episode begins never
  pays the earlier ones, although "the installments sum to the sampled lifetime total"
  (`projection.rs:183`); `CareChargedInFull` is therefore stated of those who are
  retired by then.
* Surplus cash is kept out of taxable gains when a retirement year's tax is computed
  (`projection.rs:589`), but the shortfall of a working year, the tax of a conversion
  and MAGI count a gain on it (`projection.rs:1131`, `1384`, `1470`).
* A separate filer is in the top surcharge tier at 391,000 exactly
  (`healthcare_premiums.rs:241`), where the band takes the bound itself for still under
  it (`healthcare_premiums.rs:139`); the margin of a dollar hides it.
* With a single tab, a lost reply to an applied save is retried with the old revision
  and reported as "Profile changed in another browser"
  (`web/services/client/profile-client.ts:15`).
* The reply of an account operation is applied if the owner is the same, even if the
  session was switched to browser-only storage meanwhile (`web/state/usePlan.ts:699`).
* A Durable Object has one alarm and `consume` replaces it (`quota-counter.ts:38`): a
  row whose window closes after the alarm that fires stays until the shard's next call,
  against "expire them rather than keep a row per key". No budget suffers.
* When the limiter's map is full, the first overflow bucket of a namespace evicts the
  oldest entry, spent or not (`rate-limit.ts:76`); its identifier then draws on the
  fresh bucket, against "or evicting entries to bypass the limiter". An identifier that
  moves from a bucket to an entry of its own starts afresh, too. `SlidingBound` is
  therefore stated of keys, and of those never evicted.
* If `updateProfile` fails after the credential was created (`lib/firebase/auth.ts:44`),
  nothing rolls it back.
* `quota-counter.ts:17` says callers key on a verified identity, "never an IP"; the
  invite budget of `api/data-routes.ts` is keyed on the client's address.
* Levers: at a salary of 500,000 the spending slider reaches 500,000 and the curve ends
  at 480,000, the last multiple of the sweep's step (`levers.ts:194`, against
  `levers.ts:42`). A refresh may run 31 scenarios and with the headline 36,000 paths,
  where `simulation-request.ts:110` counts 35,000. The service's limit on retirement
  spending refuses a very large spending times a multiplier above 1, which the page
  accepts.
* Account editor: a second press of Create before the first answer creates twice; the
  reply of a save closes whatever editor is open by then and drops its draft
  (`accounts.tsx:130`, and `handleDelete`'s closure); editing only the name rounds the
  allocation to whole percents (`accounts.tsx:94`); an account is saved whole, so of two
  devices the last writer wins; replies of two concurrent account calls may arrive out
  of order and leave the older list on screen (`usePlan.ts:699`). A visit to a currency
  field commits its value again and reruns the simulations.
* Upgrades: an as-of date on December 31 and an age one below the calendar difference
  shift the age by one (`age.ts:31`); a working growth rate other than zero makes the
  recovered multiplier miss the stored dollar target (`usePlan.ts:285`); the target is
  lost where no working spending was stored. An old bundle without `hsaEligible` is
  refused by the save route.
* Retired builds: a failed import beside the page, such as the measurement of web
  vitals, may reload a page that works; the URLs of Workers and of the wasm binary raise
  no preload error and are not recovered.
* The preview has no IRMAA lookback for a household that retires at 65 or later, and
  takes no social security into account (`profile.tsx:72`).
* `worker/index.ts` remembers a rejected import of a subsystem for the isolate's life;
  `base-app.ts:42` maps `SchemaFloorError` to 503, but the data routes answer it as 500
  before it gets there.

## 5. Fairness

* `PlanSync`: Firebase reports its user, the 30-second flush timer fires, requests are
  answered or fail, and bootstraps resume. Nothing is assumed of users, of the toggle
  or of requests that outlive their page. A fault is not fair, and `MaxFaults` bounds
  them: after the last one, retries succeed.
* `SimPipeline`: an armed timer fires, a run ends and resumes, and the Plan page's
  effect runs. A run ends because the server's request has a time limit and a Worker
  answers or errors.
* `EngineWorkers`: a Worker that exists loads and works on its calls. One whose script
  never loads leaves its run waiting until the next refresh; that is assumed away.
* `ChunkRecovery`: the browser answers an import and completes a reload it began;
  nothing is assumed of deploys or of a person at the button.
* `Database`: a request runs to its end, since every wait on the database is bounded: by
  the statement timeout within a transaction, by Hyperdrive's limits for connecting and
  for a single statement at the edge. Nothing is assumed of migration jobs.
* `RustServer`: the runtime polls its futures and the threads finish the units they
  have begun; the semaphore is FIFO. No client is assumed to stay or to leave.
* `EdgeSimulation`: handlers continue, a fired signal aborts the fetch, the clock
  advances; nothing is assumed of Rust, which may never answer, or of the caller. A
  token mint has no time limit of its own and is assumed to end.
* `Signup`: requests are answered, awaits resume, Firebase reports its users.

## 6. Proofs

TLAPS checks the theorems below for every value of the constants that satisfies the
named assumptions, which TLC evaluates in the runs. The bounds of a run are constants
like the others: no theorem depends on their size.

What the assumptions say, and why the code justifies it:

* of plans: the guest is no user, a tab has a browser and an edit an author, what is
  stored at the start has a state the code knows (`OwnerAssumption`,
  `BrowserAssumption`, `AuthorAssumption`, `InitialAssumption`);
* of requests: each asks for one of the three modes, and there is at least one slot
  (`RequestAssumption`, `SlotAssumption`; `main.rs:37` insists on one slot);
* of budgets: limits are natural and windows positive, the two budgets of a user are two
  keys, and a request has at least one path (`BudgetAssumption`, `EdgeAssumption`); no
  cost exceeds the limit of the origin's limiter (`LimiterAssumption`), since the schemas
  bound a batch's paths far below the limit in paths and every other call costs one;
* of identities: requests, jobs, isolates, owners and keys are distinct
  (`DataAssumption`, `TokenAssumption`), and a token outlives the margin at which it is
  renewed;
* of numbers: cores, paths, windows, ages and bounds are natural
  (`WorkersAssumption`, `SignupAssumption`, `WindowAssumption`, `CalendarAssumption`,
  `BoundAssumption`), and a field has two legal amounts (`EditorAssumption`);
* of old bundles: `FromOldBundle` of section 3 (`PayloadAssumption`).

Two theorems outside the engine assume more, in their statement. `MembershipIsTimely` has a TTL above zero.
`LocalPlanIsDurable` has storage that works and one tab in each browser: a second tab
writes the same items, and an account operation whose write was refused goes on without
them, which is what `plan_reload` shows.

**Plans** (`PlanSyncProofs`, `PlanSyncIsolationProofs`)

* `TypeCorrect`: `TypeOK` is inductive; one lemma per action.
* `RevisionSafe` and `SavedEditsKept`: a compare-and-set saves a whole profile, so the
  revision must vouch for everything the row holds. The invariant `RevisionInv` says so
  of every copy there is - on a page, in a read of a bootstrap, in a save, in its reply,
  in a request that outlived its page - and is inductive with `TypeOK`: a commit makes
  every other copy of the row outdated (`CopiesSurviveWrite`), and each place that takes
  a revision over also takes the profile, or checks the generation. A commit then only
  adds edits.
* `CleanIsSaved`: that a page marked clean shows what its row holds is not inductive
  either; a page clears the mark when it sends a save, before the row has it. `SavedInv`
  adds the page that waits for a reply (`FlightHolds`), the save that was applied
  (`SaveLanded`) and the read of a bootstrap (`ReadHeld`), and rests on rows that only
  grow while a revision is current.
* `OwnersAreIsolated`: `OwnerIsolation` speaks of pages, caches and rows only, and is not
  inductive: a request under way carries a plan too. `OwnInv` adds the saves, the reads
  of bootstraps, the account operations and the requests whose page was reloaded, each
  tied to the owner it was sent for. A page between two owners may still hold the first
  one's plan, and nothing leaves it before the bootstrap ends.
* `LocalEditsStayLocal` and `CloudSessionsArePure`: `UpInv` says of the cloud and of every
  copy on its way there that its edits were made in cloud mode, and of a cloud session
  that its accounts are on the server. It needs that neither what the cloud has nor how
  an edit was made is ever taken back (`Grows`).
* `LocalPlanIsDurable`: `KeptInv` says that what is on screen is in the browser's two
  items (`Kept`) whichever mode the session is in, that nothing typed is in one item
  alone (`BothOrNone`), and that an account request under way belongs to a plan stored
  in full (`OpStored`), so that its reply is not the first to write.

**The page** (`PageProofs`)

* `PipelineTypeCorrect`, `HeadlineIsFresh`, `CurvesAreFresh`: the strengthening
  `PipelineInv` ties the live generation's run to the plan and engine on screen: a run
  whose generation and controller are current was started after the last invalidation.
  `HeadlineIsSafe` adds that one run is live: a signal is given once, to the headline
  whose timer its invalidation armed, and to one batch while the page is marked busy
  (`LiveInv`). `PipelineImplementsHeadline`: every step maps to `Invalidate`, `Publish`,
  `Fail` or a stutter.
* `PathsAreCounted`, for any number of cores and paths: the shards of `sweepPathShards`
  are disjoint and cover every path; a run misses as many answers as its pool owes, and
  has tallied exactly the shards that are not owed (`WaitsForOwed`); a busy Worker has
  one call, of the current signal (`OneCallEach`).
* `SignupIsSafe`: `CallsSound` says which calls may still be under way, and for whom: the
  form has at most one, and the provider's answers count only in its present generation;
  `FormSound` that the form's credential is the one signed in; `CallsFit` that the bound
  on calls is never what stops one.
* `NeverSpins`: the marker in session storage is never older than a reload (`MarkerKept`),
  so that the listener compares with the latest of them.

**The edge** (`EdgeProofs`)

* `BudgetsAreKept`: a decision is exact when it is made; that it is right of the past is
  `KeyInv`. However the grants of a key split into windows, no window holds more than
  the limit, and the row tells the open one (`RowTells`), also after an alarm has removed
  rows. `ChargeInv` adds, for any times, that what the requests of a user were charged is
  what the counter granted (`PathsPaid`), that every query of the users table was
  preceded by a granted request (`QueriesPaid`), and where in a handler which charge has
  been made (`Paid`).
* `MembershipIsTimely`: `Trust` bounds an entry of the cache by the time its row was last
  there plus the TTL and a lookup; `Sound` says of a request that is about to fill the
  cache when its row was seen, and of one that is under way whether its row was missing
  since it began. The clock cannot pass an answer by more than `MaxLookup`, and an entry
  that has run out is not matched.
* `TokensAreRight`: `TokenInv` follows each mint from its key to its token: who joined a
  mint has its key (`EdgeSound`), what settles is usable when it settles, a memo is of a
  request that began (`MemoSound`), a client that failed is dropped by the request that
  made it (`ClientSound`), and a request fails only if a fault came after it began
  (`FailsFresh`).
* `BoundaryIsKept`: `CrossesSafely` says at each stage of a request's way what vouches for
  its address, that one which came through the worker never reaches the origin's
  simulations, and whose private headers the answer shows.

**The origin** (`OriginProofs`)

* `ComputeIsBounded`: the permits plus the running jobs are the slots (`PermitsKept`), for
  which a queued future must have no job (`NoEarlyJob`). `AbandonedStops`: a future that
  is gone has set the token of its job (`GoneIsCancelled`), which every unit reads before
  it begins. `RepliesAreExact`: a job that finished well has done all its request asked
  for (`FinishedIsComplete`), and threads do nothing else.
* `AccountsAreAtomic`: every statement is a step of `AccountTable` or a stutter, and the
  INSERT's commit is the step of a creation. That it respects the cap needs `RoomLeft`,
  the count is still true, which needs `LockHeld`, a creation in its transaction holds
  its owner's lock, and `RowAhead`, its row is not there yet.
* `SchemaIsSound`: one job at a time is past the lock (`OneMigrator`) and has applied the
  first migrations beyond the ledger, whatever it was when it read the version
  (`NextInList`); the ledger is one of five and tells which objects are there
  (`LedgerTold`); a request that serves, and an isolate that remembers, have seen the
  last version (`FloorHolds`). A failed transaction leaves no trace.
* `LimiterIsExact`: an entry holds what was granted through its key, all of it that still
  counts unless the key was evicted (`EntryTells`), and a key without an entry was
  granted nothing that counts (`Forgotten`); so the sliding count is exact and a refusal
  justified.

**Editing, stored bundles and levers** (`PlanDataProofs`)

* `EditsLand`: a draft is of the page on screen and of the owner in the store
  (`DraftsHeld`), since the pages are on screen only while the gate is open (`Gated`) and
  no bootstrap begins without a render that closes it, for which the effect must have
  run with the inputs of the last render (`EffectRan`).
* `PlansReadBack`: `hydratePlan` undoes what this version writes (`PlanReadsBack`), and
  every stored payload that came from an old bundle still reads with its age, its target
  and its HSA (`StoredKept`), through upgrades, reloads and edits.
* `LeversAreHeld`: the plan shown is one the schema accepts (`ValidPlans`), whether it was
  stored, typed or dragged; no assumption is needed. Each lever then has an ordered track
  within the schema's bounds that starts where the engine lets it, and every stop of it
  turns the plan into a valid one that the same track describes (`TurnedPlan`,
  `TrackHolds`), so a handle that is dropped stays. The step that is doubled until the
  sweep is small enough always fits (`Multiples`); at most 9, 14, 8 and 7 stops of the
  four levers make 38 scenarios, below the batch limit (`SweepIsAccepted`), and
  scenarios shared between curves are found again by name (`GroupsAnswer`).

**The engine** (`EngineProofs`)

`PathIsSound`: `PathInv` is inductive for any plans, portfolios, markets, episodes,
thresholds, tables, tolerances and numbers of passes, and the theorems follow from it.
Beside the types it says where the path is (`Placed`: a year is in progress until the
last one closes, and a working year has drawn its forced distribution before anything
else), and

* `LedgersAreExact`: within a year the lots that have seasoned are gone (`LedgerKept`),
  else the principal taken by a withdrawal would not be what the lots lose; lots are in
  the order of their years, and one is added at the end of a year only. The installments
  are followed through the years (`CareKept`): what was charged is the price of the half
  years so far (`Charged`), observation comes at the age it must, and the last year
  closes the sum (`ChargedEnds`).
* `CliffIsKept`: the invariant of a finished row says nothing of the year in progress.
  `CliffKept` says of a shortfall's passes and of a funded year that a draw beyond the
  forced distribution, while Roth money is left, keeps the year's income `Under` every
  threshold a later premium is tested against. Several passes compose, since the band is
  computed from all that was drawn before; the share of gains rounds down each time, and
  the margin of a dollar pays for the dollar that rounding may hide (`ShareOfSum`).
* `RuinIsReal`: where a search may end (`Solutions`) is short only at the end of its
  bracket, which the search has widened to the whole portfolio; drawing the whole
  portfolio leaves nothing (`RuinKept`), whatever the order, and nothing is deposited
  or converted afterwards.
* `YearsReconcile`: `CashReconciles` speaks of a closed year, `Balanced` of the year in
  progress. A funded year has its target beside the surplus that was reinvested, and a
  year that is short has whatever cash there is, which is not negative. A conversion
  loses from the portfolio what pays its tax, whoever pays it. The working year is the
  hard one: contributions lower the tax that limits them, so `FlowBooks` follows the four
  passes (each finds no more tax than the one before), and where taxes and spending leave
  nothing it finds that nothing was contributed. What the passes of a shortfall sold is
  then never more than what was missing (`WorkBalanced`), although every draw raises the
  tax and the penalties, and a draw too small to count is the tolerance's.
* `ReportsFollow`: the chart's stacks meet because the books of the year do. What is
  paid back and so taken off the withdrawals, bucket by bucket (`NettedIs`), leaves what
  the year drew beyond its deposits; that care is cut to the spending leaves no negative
  band, since no closed year spends less than nothing (`Booked`), even a working year
  whose taxes and penalties leave little. The preview of `healthcare.ts` and the engine's
  estimate draw the same traditional money while the Roth covers the rest (`RothCovers`).
  The two bands they leave open differ where the engine's cliff is passed or no premium
  tests it; the incomes are then equal, both beyond the cliff, or the premium is zero
  (`BandFollows`), and the credit is the same (`CreditFollows`). Without the Roth it is
  false, as `preview` shows. That the cliff lies below the first surcharge is
  `TierAssumption`; 4 times the poverty level of one or two persons is far below 109,000
  and 218,000 dollars (`healthcare_premiums.rs`).

The assumptions are those of `Portfolio`, `YearRules` and `Projection`: amounts are
whole, thresholds and tables natural, the market loses no more than everything, the
installments of an episode are whole (`InstallmentAssumption`; the engine divides in
floating point, the model in the units care is priced in), and `CeilingMargin` is at
least a dollar, as `healthcare_premiums.rs` has it; those of `Reports` concern
`ReportsFollow` only. Two premises are in the theorems'
statements, since TLC cannot range over the integers: `TaxIsWhole`, that the tax of whole
amounts is whole, and for `YearsReconcile` and `ReportsFollow` also `TaxIsOrderly`, that
a dollar more of income or gain never lowers the tax nor costs more than itself, and
that taxes, payroll tax included, and penalties never exceed wages and the income beside
them. `tax.rs` is of that kind: the brackets, the share of
the benefit that is taxed, the deductions' phase-out and the investment surtax are all
continuous and never fall, and their rates stay below a dollar in the dollar even where
they meet (a dollar that brings 85 cents of benefit into the top bracket, moves gains to
the next rate and is taxed by California and the surtax costs at most 98 cents); with a
penalty of 20 % on every dollar of income the average stays below one. The instance's
tax functions have both forms for the amounts TLC is given (`TaxesAssumption`).

`TotalsProofs` holds the lemmas about sums (of one more unit, of two functions, of a
union) and two inductions, over the elements of a finite set and over the naturals,
stated of a set rather than of an operator.

Only model-checked:

* every liveness property, since TLAPS has no reasoning about ENABLED here;
* the working years of `RuinMeansEmpty`, which rest on where the shortfall passes end:
  on there being enough of them for the taxes each draw brings.

## 7. Not modelled

* The engine's tables and random draws: brackets, benefits, distribution factors, care
  tables, historical and parametric returns are pure arithmetic over generated tables.
  The models leave tax an arbitrary function and the market a free choice, so that
  nothing rests on them; the crate's own tests cover them. Sums over a whole
  distribution of paths (percentiles, success rates) are arithmetic as well.
* Rendering and widget state, formatting, analytics and web vitals: no state but their
  own.
* The Firebase wrappers: thin calls into an SDK; the model has what they report.
* The generated wasm glue, and Terraform, Docker and CI: not part of the program.
* Shape checks of single fields in the plan schemas; what a lever, an edit or an old
  bundle can meet of them is in `PlanLevers` and `Hydration`.

Details left out of modelled parts are named with each component in `PROJECT.json` and
in section 3.
