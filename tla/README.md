# A verification development of Crusherly

TLA+ modules for the stone-crusher ERP in `src/`: a FastAPI backend over PostgreSQL
(`src/backend/app`) and an Angular frontend (`src/frontend/src/app`). The modules model the
parts of the program whose correctness depends on the order of things (overlapping requests,
transactions, crashes, tokens that expire, tabs that share storage). TLC checks them on small
instances; TLAPS proves the central ones for every instance.

## 1. Inventory

| Component | State | Operations | Hard behaviour | Correct when |
|---|---|---|---|---|
| Document numbering (`numbering_service`, `models/numbering.py`) | counter rows `DocumentSequence`, documents' unique numbers | `next_number()` from `create_ticket()` and `create_entry()` | racing SELECT/INSERT/UPDATE, a COMMIT in the middle of a request, NULL in a unique key | numbers of a scope are 1, 2, 3, ..., each given once |
| Weighbridge tickets (`weighbridge_service`) | ticket rows, their audit events | create, complete, cancel | status checked without a lock, two writers of one row, rounding | weights, status and audit trail agree |
| Production entries (`production_service`) | entry rows, outputs, audit events | create, submit, cancel | as above | status is the one the last audit event names |
| Authentication (`auth_service`, `security/tokens.py`) | users' status and failure counter, `RefreshSession` and `PasswordResetToken` rows | login, refresh, logout, forgot and reset password | lost updates of the counter, double rotation, status read after the session | revoked stays revoked, the limit locks |
| Users and roles (`user_service`, `role_service`) | users, roles, `RolePermission`, `UserRole` | create, update, deactivate, assign, replace permissions, delete | NULL in `uq_user_role_scope`, racing replacements | assignments and audit agree |
| Scope authorization (`authorization_service`, `security_context_service`) | grants, organization tree | `build_security_context()`, `is_authorized()` | walk to the root bounded by `_MAX_DEPTH` | a grant covers exactly its subtree |
| Tenants (`tenant_service`) | tenant, its first administrator | create, update, suspend | several inserts, one commit | both or neither exist |
| Master data (`master_data_service`) | vehicles, materials, parties | create, update, deactivate | lookup of the code, then insertion | one row per code |
| Settings (`settings_service`) | settings by tenant, unit, module | upsert, resolve | NULL in the unique key, ties of specificity | the most specific value wins |
| Attachments (`attachment_service`, `storage_service`) | rows and stored files | upload, delete, URL | two systems without a common commit | a row names a file that is there |
| Notifications, event bus | notifications, handlers | `send()`, `publish()`, `subscribe()`, which nothing calls | - | - |
| Rate limiter (`middleware/rate_limit.py`) | hits per client | dispatch | window edge, one log per process, restarts | at most the limit in any span of a window, nobody refused for less |
| Audit (`audit_service`) | `AuditEvent` rows | record | written with the change, before the commit | event if and only if change |
| Frontend session (`auth.service.ts`, `auth.interceptor.ts`) | `localStorage`, `currentUser`, `refreshInFlight$` | bootstrap, login, logout, refresh and retry | shared refresh, late answers, several tabs | calls settle, the stored token is live |
| List screens (`users-list`, `weighbridge-list`, `production-list`, `tenants-list`, `audit-log`, the data table, search box, paginator and dialogs) | rows, total, page, filter, loading flag, open dialog | load, search, filter, page, create, edit, confirm, change | answers in any order, count and page in two statements, a dialog dismissed while it saves | the load sent last, with the user's own changes, ends up in the table |
| Roles screen (`roles-list`, `role-form-dialog`) | list, dialog, the save it waits for | load, edit, submit, dismiss, delete | one edit is two requests, either may fail or be overtaken | a toast is true, the dialog starts from what is committed |
| Settings screen (`settings.component.ts`) | key, value, loading and saving flags | load, save | the key is retyped while its value is under way | a value is stored under the key it was loaded for |
| Dashboard page | - | reads counts once | - | - |
| Seed (`core/seed.py`) | permissions, system roles, first users, demo tenant, units | insert what is missing, one commit | run twice at once, cut short, run again over old or edited data | the whole plan or nothing, no row twice, safe to repeat |
| Migrations (`alembic/versions`) | the tables and their keys | run by hand | - | the keys the other modules rely on |
| Workflow tables, jobs base class | - | - | - | no behaviour of their own to check |

How they interact. A route builds a `SecurityContext` (`security/dependencies.py`), a service
reads rows through a repository, decides, writes, records an audit event in the same session
and commits; `get_db()` (`core/database.py`) rolls back what an exception leaves open. The
engine runs PostgreSQL's READ COMMITTED: handlers overlap at every `await`, a SELECT sees
committed rows only and locks nothing, an UPDATE locks its row until the transaction ends.
Ticket and entry creation call `next_number()`, which commits on its own. The frontend's
interceptor refreshes an expired access token once for all calls that fail together.

## 2. Modules

| Module | Models | Composed with |
|---|---|---|
| `DocumentNumbering` | creation requests down to the counter rows and unique keys | INSTANCE of `NumberDispenser` |
| `NumberDispenser` | abstract: numbers 1, 2, 3, ... per scope, each given once | |
| `DocumentNumberingProofs` | theorems about `DocumentNumbering` | |
| `WeighbridgeTickets` | tickets after creation, their row lock and audit trail | |
| `WeighbridgeTicketsProofs` | theorems about `WeighbridgeTickets` | |
| `ProductionEntries` | entries after creation | |
| `AuthSessions` | one account, its sessions and reset tokens | |
| `AuthSessionsProofs` | theorems about `AuthSessions` | |
| `AccessControl` | roles, a user's assignments, the requests they authorize | |
| `AccessControlProofs` | theorems about `AccessControl` | |
| `TenantRecords` | settings, master data, users, tenants, attachments and files | |
| `BackendProofs` | theorems about `TenantRecords` and `RateLimiter`, which share no state | |
| `Seeding` | runs of the seed script over the tables it fills | |
| `ProductionAndSeedingProofs` | theorems about `ProductionEntries` and `Seeding`, which share no state | |
| `RateLimiter` | the limiter of one backend process | |
| `BrowserSession` | tabs of one browser; the backend reduced to check, rotate later, refuse, expire | |
| `BrowserSessionProofs` | theorems about `BrowserSession` | |
| `ListPages` | one list screen; the backend reduced to the two statements of a load and the commits | `ScreenRouter` |
| `RoleDialog` | the roles screen, its dialog and the requests of both | `ScreenRouter` |
| `SettingsForm` | the settings screen | `ScreenRouter` |
| `ScreenRouter` | the router, which shows one of the three screens at a time | INSTANCEs of `RoleDialog` and `SettingsForm`, EXTENDS `ListPages` |
| `ScreenRouterProofs` | theorems about the three screens | |
| `MC...` | symmetry sets and small constants for TLC | |

### Correspondence with the code

A request is a process with a program counter `pc[r]`; its steps are the statements at which
the handler's transaction meets the database, so every `await` that another request can
overtake lies between two steps. What a handler read and acts on later is kept in the request
(`scope`, `row`, `task`), never looked up again: that is how stale copies are modelled. A
retry is a new request. `Abort` is a crash, a dropped connection or a client that leaves; it
keeps what was committed.

* `DocumentNumbering`: `CreateTicket`/`CreateEntry` (route, fiscal year), `LookUp`,
  `InsertCounter`, `UpdateCounter`, `CommitCounter` (the four statements of `next_number()`),
  `InsertTicket`/`InsertEntry`, `CommitDocument`. `Waits` says which statement PostgreSQL answers only
  after another request's transaction. A counter row is named by the request that
  inserted it, so two rows of one scope can be told apart. The final values of `pc` are the
  answers: 201, 409, and the causes of a 500. `SwitchYear` is external: no route changes
  fiscal years.
* `WeighbridgeTickets`: `LoadToComplete`/`LoadToCancel` are the read and the status check,
  `Flush` the UPDATE with its row lock, `CommitCompletion`/`CommitCancellation` the commit
  with its audit event. Weights are integers in quarters of the column's last digit, so
  `Store` shows the rounding of `Numeric(12, 3)`, the tie included. `docs/weighbridge.md:34-35` says
  that a ticket that left OPEN is done; the code keeps that for the tickets no two requests
  work on at one time (`LifeUnlessContested`), and no more: of two overlapping requests each
  passes the status check, and the second to commit can turn COMPLETED into CANCELLED or back.
* `ProductionEntries`: the same protocol; here each request's status differs from the one it
  read, so each writes and takes the lock.
* `AuthSessions`: reads (`Login`, `Refresh`, `ReadUser`, `Logout`, ...) and commits
  (`CommitFailure`, `CommitRotation`, ...). Flush and COMMIT are one step, since two handlers that
  write the same row queue for it and a reader sees neither half. Values written are
  computed from the copy (`failed_login_attempts += 1`), and a column whose value does not
  change is not written, as SQLAlchemy does. A token is named by the request that issued it.
* `AccessControl`: replacing a role's permissions is `LoadRole` (the rows are read once),
  `DeleteRow` for each row read, `BeginInsert` and `InsertRow` for each new one,
  `CommitReplacement`; these steps see what PostgreSQL shows a statement under READ COMMITTED
  (`queue` is the transaction whose row a DELETE waits for), and `BreakDeadlock` is its deadlock
  detection, which looks for a request in a cycle of waiting ones (`InACycle`). Rows are deleted in the order of their keys,
  and inserted in that of the SELECT of the permissions, which has no ORDER BY and so is arbitrary
  (`NextOf`, `next`). A deletion is the DELETEs of the rows
  read, then the role's row with its COMMIT in one step. An authorized request is `Authenticate`,
  `ReadAssignments`, `Authorize`, at the SELECTs of `build_security_context()`; its answer is
  `allowed` or `refused`. The tree of units is any tree and stays as it is, since no route changes
  it. The administrators who change a role are authorized by others than the one they change. Codes of
  roles are left out, and with them the 409 of a code that is taken. `Authorize` has the SELECTs of roles and of
  permissions in one step: with the roles read any earlier, the answer is one of the two it has anyway.
* `TenantRecords`: every request finds (`Upsert`, `Create...`, `LookUpTenant`, `Load`), keeps the
  copy it read, and commits (`Insert`, `Write`); master data of ten kinds share one service and one
  model. A row has a key, one value (the name or the setting) and a status. An UPDATE writes the
  columns that differ from the copy. `audited` is what the audit events named last of each column;
  columns an event repeats from the copy are left out. Attachments and files are sets of the
  requests that uploaded them, since each storage key has a random part. `StrictStorage` tells
  the Azure provider, which fails on a file that is gone, from the local one. The key of a user
  stands for the lower-cased email; the tenant whose users, settings and master data these are is
  there from the start.
* `BrowserSession`: `calls` are HTTP calls through the interceptor, `refreshing[t]` is
  `refreshInFlight$` of tab `t` with the backend's answer once there is one, `storage` the pair
  in `localStorage` that all tabs share. Answering (backend) and receiving (tab) are separate
  steps, so anything can happen in between. `/auth/refresh` is two steps, as in `AuthSessions`: `CheckRefresh` reads the
  token, `CommitRefresh` rotates it, so overlapping refreshes of one token are both granted. A refresh or logout the tab
  no longer waits for, because the connection was lost or the page reloaded, may still be processed
  (`abandoned`, `ProcessAbandoned`). Whether an access token has expired is decided in `AnswerCall`, the only
  step that looks at it; from its first 401 on a token stays expired.
* `ListPages`: `screen` is the set of things a screen offers, one set per component. `Load` is
  the component's `load()`, called in the steps that call it. `CountRows` and
  `ReadPage` are the two SELECTs of a paged route, `ReceivePage` and `ReceiveLoadError` the two
  handlers of the subscription, which nothing cancels. A save is `SubmitDialog`, `Confirm` or
  `ChangeRow`, then `CommitSave`, then `ReceiveSaved` or `ReceiveSaveError`; `closes` says that the
  dialog that sent it is still there to close, `heard` that the client still waits. The number of
  a record is its place in `ORDER BY created_at`; records created at the same instant are left out.
* `Seeding`: `Plan` is the order in which `run()` inserts; a step is one row with its links, the
  permissions of a role, the role of a user, the conversions of a category. The tables of the
  script are cut to one entry of each sort. `Find` is the lookup by natural key (a role comes with
  its permissions, which is one read here), `Insert`, `FindRole` and `Link` the flushes, which wait
  for another run's uncommitted row of the same key and fail once it is committed; `CommitSeed` is the
  only commit. The tenant of a system role is NULL, so `uq_role_tenant_code` compares no two of
  them (`Unique`). The initial databases lack what an earlier release, an administrator or a
  race may have left out, have a closed fiscal year, or hold a key twice. `AprilFirst` moves
  `date.today()` into the next fiscal year.
* `RateLimiter`: `Serve` and `Refuse` are the two ends of `dispatch()`, which does not await between
  the clock and the log. `Drops` is the loop that pops. Time is in whole seconds. The log belongs
  to one process; `Restart` forgets it. `/health` and `/ready` are exempt. Keys of clients that
  never come back stay in `_hits`; the clients of the module are a fixed set, so that growth is out of it.
* `RoleDialog`: `Submit` starts a chain of requests (`saves`), PATCH and PUT for an edit, POST for a new
  role, DELETE after a confirmation. A step of the backend is a whole transaction, since `AccessControl`
  overlaps those; `Fail` loses a request before or after it, and one that is lost before may still be committed later
  (`lost`), when nobody hears of it any more. The form is read once, at `Submit`, and stays
  editable. `touched` says that another request changed the role since, `behind` that the list may lack
  a change nobody reported. The code of a system role, typed for a new role, makes a second role this
  module does not follow.
* `SettingsForm`: `Load` and `Save` are the two buttons with the flags that disable them; one PUT is
  under way at a time, as `saving()` has it. `origin` is the key whose value the form holds, `retyped`
  that the key was changed since the last load was sent.
* `ScreenRouter`: `route` is the entry of `app.routes.ts` that is shown. The three screens have no state in
  common, and each is a component that starts anew when it is opened; a behaviour is the life of one of them.

History variables appear in no guard: `contested` (documents that two
requests worked on at one time; roles in `AccessControl`, columns in `TenantRecords`), `cutShort`
(files whose upload or deletion was cut short), `overlapped` (two requests were served at one time), `cutOff`
(stored tokens whose rotation or logout a reload left unanswered), `shown` (the load whose answer is in the
table, in `ListPages` and in `RoleDialog`), `touched` and `behind` (`RoleDialog`), `origin` and
`retyped` (`SettingsForm`), `served` and `refusedAt` (`RateLimiter`), `before` and `met` (the rows there before
the first run of the seed, the runs that overlapped), `counted`, `astray` and `narrowed` (whether the total belongs to the list that is
filtered now, whether the page may have been chosen for another list, whether a record was renamed out of it) and `acked` (own changes that were answered). They let a property say what the code
guarantees of requests that do not overlap, next to what it guarantees when they do.

## 3. Runs

| Run | What it shows | Bounds |
|---|---|---|
| `numbering_races` | distinct numbers, no lost or returned increment, no circle of waiting requests, refinement of the dispenser | 3 requests, 2 years, a unit and NULL |
| `null_unit` (violated) | without a unit, two requests get one number | 2 requests |
| `two_plants` (violated) | two plants of a tenant collide in the document's key | 2 requests, 2 plants |
| `weighbridge` | weights, status and audit trail agree; life cycle where requests do not overlap | 3 requests on 1 ticket, 4 weights |
| `production` | status follows the audit order; moves where requests do not overlap | 3 requests, 2 entries |
| `auth` | counter, limit, rotation, revocation | 4 requests, a limit of 2, 2 passwords |
| `access` | the replacement audited last is in force, deleted roles grant nothing, a context read by several SELECTs grants what is committed; all answered | 3 requests, 1 role, 2 permissions, 2 units |
| `records` | rows, audit events and files agree; the hierarchy of settings; tenants with administrators | 4 requests; 3 scopes, 1 code, 3 tenants, 2 users |
| `seeding` | a run leaves the whole plan or nothing, which rows two runs can insert twice, a repeated run inserts nothing, runs that wait for each other end | 2 runs, 8 ages of the database, each with or without a closed year or a key twice |
| `rate_limit` | no span of a window has more served requests than the limit, nobody is refused for less | 2 clients, a limit of 2 in 3 seconds, 8 seconds |
| `screens` | list screens: own changes show, no empty page past the end; roles screen: a toast is true of the whole form, the dialog waits for a request of its own and starts from the committed role; settings: a value is stored where it was loaded | 2 records, 3 loads (2 unanswered), 1 save, pages of 1 or 2; 3 forms, 3 loads, 2 saves, 1 change by others; 2 keys, 1 value, 2 loads, 2 saves |
| `browser` | the stored token is live, all calls settle | 2 tabs, 2 calls, 3 token pairs |

Why the bounds are enough. Every race here is between two requests on one row; the third one
is there to come after them (a number taken after an abort, a lookup that finds two rows) or to
hold the lock they wait for. In `auth` a login, a refresh and a logout of its token and a
refresh of the replaced one take four. `MaxFailed` is 2 in place of the 10 of `_MAX_FAILED_ATTEMPTS`, so that the limit is
reached with requests to spare. In `access` two replacements and a third request that deletes, assigns or is authorized show
what is left of each other's rows, and three the longest deadlock of this order of locks; one
permission is asked for at one unit, over every tree of two. In `records` a row takes one
request to create, two to race on it and one to come after; two scopes of a setting that rank
differently and one that is fully named cover the hierarchy and the NULL columns, and a tenant
with one's code and the other's slug finds both. In `seeding` one entry of each sort has every kind of
row and link, two runs make every race between a lookup and an insert, and the second, started
after the first, is the repetition. In `rate_limit` eight seconds hold two windows and the edges of
both. In `browser` the first pair is stored, the second is a
rotation and the third that of the other tab, or a login. In `screens` two
unanswered loads of a list are enough to reorder their answers, the third comes after a save that both
missed; two records make two pages of one row, and a second page is lost with one of them. The three
forms of a role differ in each field, one clears the description; two submissions are a failed one
and its repetition, or one that was dismissed and the next. `ScreenRouter` puts the three screens behind one router
because they share no state: its state space is the sum of theirs.
`MCScreens` has one initial state of each screen that is not shown.
`MaxPairs` (with `PairsForLogin`), `MaxLoads`, `MaxAtOnce`, `MaxSaves`, `MaxOthers` and `MaxTime` are the only bounds inside a
module's actions; the sets of requests, runs and calls bound the others.

TLC's deadlock check is on in the numbering runs, where the fiscal years keep changing; that no
requests wait in a circle there is the invariant `SomeoneIsServed`, which says so without ENABLED and is proved
for any number of requests; `access` and `seeding` have such theorems too (section 4). In the others the finite
requests, runs or calls run out, or the user leaves the screen alone, and the cfg says so.

Fairness is assumed in the runs `access`, `browser` and `seeding`, the others check safety only. In
`AccessControl` it is `WF` of the steps that serve a request (`Serve`): the event loop resumes a handler
whose statement was answered, and PostgreSQL answers a statement once nobody holds the lock it
waits for; `Serve` includes `BreakDeadlock`, since PostgreSQL looks for circles of
waiting transactions on its own. In `BrowserSession`: `WF` of the answers and of their delivery, since each HTTP call is
answered or errors out. In `Seeding`: `WF` of `Advance`, a started script goes on to its next statement; that
two runs never wait in a circle is then a consequence of their common order, not an assumption.
Starting a request or a run, aborting one, login, logout and reload are
never fair. Weak fairness is enough for the steps that wait for a lock because the requests
are finite: a lock is eventually released for good. Nothing makes the backend process a request whose
client has gone (`ProcessAbandoned`).

Type invariants are proved, not run, for most modules with proofs (section 4); `records` and `screens` run
those of `TenantRecords` and of the screens, which are proved too. `Seeding` has none: its rows are built by two operators and its
properties look at every field; `InPlan` and `RowsOf` of its proof say what a type invariant would.

### Where code and documentation disagree

`null_unit` and `two_plants` each check one sentence of a comment or a document and find it broken by
the code; `PROJECT.json` quotes the sentence under `findings`. The modules follow the code in these
smaller ones too:

* `auth.service.ts:123` calls `forceSessionExpired()` "when a token refresh itself fails"; the
  interceptor's outer `catchError` also calls it when the refresh succeeded and the retried call
  failed (`ReceiveRetryError`).
* `auth.service.ts:14` calls itself the single source of truth for who is logged in; a refresh
  answered after a logout and another login stores the first user's tokens beside the second
  user's `currentUser` (`ReceiveRefresh`).
* `docs/authentication.md:134-135` says "a refresh token can only ever be used once", and lines 226-228 that a reset token
  "can never be used twice", because it is marked in the same transaction. The mark is read before and without a lock, so two
  overlapping refreshes, or resets, with one token both find it unused and both succeed. `TokensUsedOnce`
  holds while requests do not overlap (`overlapped`); `CommitRefresh` of `BrowserSession` has the double rotation too.
* `docs/weighbridge.md:34-35` says a ticket that left OPEN is done (section 2, `WeighbridgeTickets`).
* `role-form-dialog.component.html:21` says the permissions of a system role can still be adjusted; the backend
  refuses (`Modifiable` in `RoleDialog`).
* The role dialog offers to clear a description; the null it sends is not written (`Patch`, and the exception in
  `ToastMeansSaved`).
* `rate_limit.py:1` calls the limiter fixed-window; its window slides (`Drops`), which is why `NeverOverLimit` holds
  across any border.
* `seed.py:16` says every insert first checks for an existing row; two overlapping runs can both insert a role or a
  fiscal year. `OneRowPerKey` states exactly when.

## 4. Proofs

Each proof module names the inductive invariant `IInv` of its component, proves that `Init` implies it and that every
action keeps it, one lemma per action with one step per conjunct the action can disturb, and
takes the theorems from it.

`DocumentNumberingProofs` proves for every set of requests, units and years:
`TypeCorrect`, `NumbersAreDistinct`, `CountersAreUnique`, `CountersAccount`, `CountersPersist`
`NobodyWaitsInACircle` (`SomeoneIsServed`) and the refinement `NumberingRefinesDispenser`. No assumption on the constants is needed.
Distinct numbers are not inductive: the state must also say that a counter row belongs to its
scope and is committed or the request's own (`RowOfScope`), that an uncommitted row has its
inserter as only user and counts 0 (`PendingRows`), that one transaction at a time is between
UPDATE and COMMIT of a row and holds its successor (`LockedRows`), that the numbers of a row are
distinct and at most its count (`RowNumbers`) and leave none out (`NumbersCoverCounter`), and
what a request does not own yet (`NothingEarly`). `CountersAccount` follows from
`RowNumbers` and `NumbersCoverCounter`; the refinement has `CommitCounter` as the one action that
is a step of the dispenser, every other one leaves the committed counts and the numbers issued alone.
`NobodyWaitsInACircle` goes backwards along the waits: an INSERT of a counter row waits for the inserter of a pending row, which is
at its UPDATE or COMMIT (`PendingRows`); an UPDATE and the INSERT of a document wait for a request at its COMMIT; a COMMIT waits for nobody.
`OneCounterPerScope`, which `CountersAreUnique` states, is proved and in no run.

`WeighbridgeTicketsProofs` proves `TypeCorrect`, `WeightsBelongTogether`, `NetIsInTrail` (`NetWeightIsAudited`),
`StatusIsInTrail` and `UncontestedLife` for every set of requests, tickets and weights. `WeighmentsAgree` holds because
the first weight never changes: a request at work still has the net weight of the row's first
weight, and the status it read is one its operation accepts (`TaskFits`), and a row without a
second weight was never completed (`OpenUnweighed`). `LifeUnlessContested` needs that on a ticket
not contested one request works at most and its copy is current (`ReadsAreCurrent`). The trail
of a ticket names its status (`TrailAgrees`); rounding is the lemma `RoundedNet`. `NetWeightIsAudited` names the
last completion of a trail by the largest of its places: a commit appends one event, whose place
is then the largest or leaves the largest alone.

`ProductionAndSeedingProofs` proves `TypeCorrect`, `StatusIsLastEvent` and `UncontestedLife` of the entries along the same argument:
a request at work has an existing entry (`WorkHasEntry`) and, on an entry not contested, works
there alone and on a status its operation accepts (`CheckStillValid`).

Of the seed script it proves the three invariants of the run `seeding`, for any number of runs and any lack of the
databases: `SeedingIsWholeOrNothing` (`WholeOrNothing`), `SeedingInsertsOnce` (`OneRowPerKey`) and `SeedingIsSafeToRepeat`
(`SafeToRepeat`), from one invariant, `SeedInv`. The plan itself is the one of the model; its twelve steps are the lemma
`PlanSteps`. Every step behind a run is `Complete` in the committed rows and the run's own together (`Behind`), what it is to
insert next makes the step it is at complete (`NewOf`), and a commit adds a set in which every step is complete, so
completeness survives whatever others commit in between (`CompleteJoin`): the run's commit leaves the whole plan. A role
inserted by a run has the links that run gave it, since a link names the role's own row and so its run (`OwnedBy`).
That a key is there twice is refused by the unique keys (`OnceByKey`) except for roles and
fiscal years. Two of these with one key come from two runs (`OnceByRun`) that both found it missing (`OnlyMissing`); had a
permission or the tenant been missing too, each of the runs would have inserted that before (`InsertedTogether`), which
the unique key refuses to one of them. `Undisturbed` is what a run that meets no other knows: the committed rows have not changed
since it read them, and after a run that is done it finds every step complete.

That runs of the seed end (`RunsEnd`) is liveness and stays with TLC; the two safety facts it rests on are proved, for any number of
runs. `SeedingNeverWaitsInACircle` (`SomeRunGoesOn`): while runs are at work, one of them does not wait. A run that
waits has not come as far in the plan as the one it waits for (`Place`, `WaitsForOneAhead`), because the links a run has inserted belong to
steps behind it and those it is about to insert to the step it is at (`LinksInPlanOrder`, a second invariant), and one step alone asks
for a given link (`OneStepAsksFor`); so the run that has come farthest waits for nobody. `SeedingGoesForward`
(`RunsGoForward`): every step of a run raises a number that is 52 at most (`Statements`), or ends the run for good.

TLC checked `SeedInv` on the run's instance
before it was proved, and the three formulas above. Assumed is `RunsAssumption`: rows that were there at first name no run.

`AuthSessionsProofs` proves `TypeCorrect`, the five properties of the run `auth` and `LimitLocks`
(`LimitMeansLocked`, which is in no run). `WorkFits`, `RowsOfAnswers` and
`SpentByGrant` tie a request's step to the rows its commit relies on. The counter needs two bounds:
no copy read holds more failures than were committed (`CopiesNotOvercounted`), so a stale copy
cannot overcount, and while requests do not overlap none is lost (`CountIsExact`), where the
answered failures are a finite set that grows by one with each commit. `ReadsAreCurrent` says
that a copy is current as long as `overlapped` is not set, `LockedStaysLocked` that only an
administrator unlocks, `LoggedOut` what a logout leaves of its token. Assumed: the set of
requests is finite (`RequestsAssumption`), the limit a positive number (`LimitAssumption`).

`AccessControlProofs` proves `TypeCorrect`, `ReplacementsTakeEffect` (`LastReplacementInForce`),
`DeletionsAreComplete` (`DeletedRolesGrantNothing`), `NothingUncoveredIsAllowed` (`AllowedMeansCovered`),
`NothingCoveredIsRefused` and `SmallOrganizationsAreCovered` (`RefusedMeansUncovered`), `EveryDeadlockIsACycle` and `EveryRequestGoesForward` for any requests, roles, permissions, payloads and
units. What carries them is how far a request has come (`Progress`): a replacement that deletes has every row of
its role before it or deleted, one that inserts has inserted, of the rows asked for, all but those
still to do, of which the one it turns to next is one (`next`). Both hold of roles not `contested`; that two requests at one role, and only such, make it
contested is `Contests`. For deletions it is `NothingForTheDeleted`: a replacement whose role went away has inserted no row,
because the DELETE of the role waited for those that had and an INSERT looks at the role. For the two about
requests it is that the assignments a context read are still there unless their role was deleted (`SeenIsThere`), and that the walk of
`get_self_and_ancestor_ids()` (`Climb`) comes only to units above the one it starts from; it comes to all of them where it
reaches the root within `_MAX_DEPTH` steps, a hypothesis of `NothingCoveredIsRefused` (`RootsReached`): over a deeper tree the
code does refuse what a grant at the root covers. For every tree of at most `_MAX_DEPTH` units that hypothesis is proved
(`RootsOfSmallTrees`): a walk that is not at the root after `_MAX_DEPTH` steps has come to one unit twice, and the units in between
would be a set without a root, which a tree does not have. `SmallOrganizationsAreCovered` is the theorem without it.

`EveryRequestAnswered` is liveness and stays with TLC; two theorems are the safety behind it, for any finite set of requests.
`EveryDeadlockIsACycle`: while one is under way, one is
`Answerable`, or stands in a cycle as `BreakDeadlock` looks for it (`SomeRequestGoesOn`). A DELETE queues for a request that has ended or
still changes the same role (`QueuesFit`, an invariant of its own), so whoever is not answered waits for another request under
way (`UnansweredWait`); of the sets in which everybody waits for another member a smallest one is a cycle, since
a member nobody waits for could be left out (`WaitingInACycle`). TLC checked `QueuesFit`, `SomeRequestGoesOn` and that `Answerable` or
`InACycle` is when `Serve` is enabled on the run's instance. `EveryRequestGoesForward` (`RequestsGoForward`) counts the statements a
request has yet to send (`StatementsLeft`, for finitely many permissions): each of its steps leaves fewer or is its answer, and no step of another leaves more. A DELETE whose
queue was broken off is sent anew, and the count still falls, because it holds twice the number of requests not answered. Assumed is
`AccessAssumption`: permissions are keys, units and roles are not `Null`.

`BrowserSessionProofs` proves `TypeCorrect`, `WaitersAreServed` (`NoOrphanedWaiters`, in no run; `CallsSettle` is its
liveness) and `StoredTokenIsLive` (`StorageHoldsLiveToken`) for any tabs, users, calls and token pairs.
`StorageHoldsLiveToken` says something only of the moment when nothing is in flight; the invariant follows the pairs on
their way there. A token the browser may show was issued, and so was one in a request nobody waits for
(`PresentedWereIssued`); a pair that was granted and not yet
stored is live, shown by nobody and held by one tab (`HeldAreFresh`, `HeldByOne`), so neither another refresh nor one
processed late spends it before its tab stores it; and a pair that is stored and spent, or may yet be spent late, was shown by a refresh or
a logout whose tab is still to overwrite it, or which a reload cut off (`SpentWillBeReplaced`). `PairsAssumption` keeps `Null` out of the pairs.

`BackendProofs` proves the five invariants of the run `records` for any requests, keys and values and either storage provider:
`RecordsTypeCorrect`, `RowsAreAudited` (`RowsMatchAudit`), `SettingsResolve` (`ResolvedAsLastSet`), `TenantsComeWithAdmins`
(`TenantsHaveAdmins`) and `FilesAreAttached` (`FilesMatchAttachments`). What a request at work holds fits its step and the row it
read is still there (`TaskFits`); rows come from requests that are done (`RowsNamed`). A column that two requests are to write is
`contested` (`ClaimsApart`), so until then a copy is current in the columns its request writes (`CopiesAreCurrent`), and writing
only what differs from it leaves the row as the event says: `TrailAgrees`. A NULL in the key of settings is the
one case where two requests can insert a key: one row a key is had from the unique key or from not being contested (`RowsOnce`),
which needs that a request about to insert an uncontested setting finds no row of it (`InsertersAlone`). `resolve()` then
picks a single row, because the rank of `_specificity` falls along the documented hierarchy (`HierarchyRanks`).
Attachments have an invariant of their own (`FilesInv`), which knows what a request between the file and the row has done.
Assumed is `RecordsAssumption`: scopes are those of the hierarchy, each kind of record has keys of its own, as it has a table of
its own, and `Null` is none of the keys and values.

Of the limiter it proves `LimiterTypeCorrect`, `LimitHoldsInEveryWindow`, `RefusalsAreDeserved` and `LogsAreBounded` for every limit,
window and set of clients (`LimiterInv`). The log of a client is the end of its history and what was dropped is older than the
window (`Agree`), times only grow, and so a log with room for one more means that the request
`Limit` places earlier is out of the window (`Spaced`).

`ScreenRouterProofs` proves the seven properties of the run `screens` for any number of records, loads, saves, forms, keys and
values, with one invariant for each screen. Their common theme is that requests are numbered in the order they are sent and
answered in any order, so what the screen shows is tied to the one sent last.

* Settings (`SettingsInv`; `SettingsAreSavedWhereLoaded`): the disabled button leaves one GET in flight and hides the form until
  it is answered (`OneGet`), and until the key is retyped that GET and the form are about the key shown (`KeyIsCurrent`).
* Roles (`RolesInv`; `RoleToastsAreTrue`, `RoleDialogWaitsForARequest`, `EditDialogsStartFromCommitted`): what each request of a
  save has written is there until another request is committed (`WroteWhatItSays`); a dialog that saves waits for a
  save of its own (`DialogWaits`), and one whose dialog is gone, or which was lost on the way, is on record (`UnheardIsBehind`); the load sent last has
  read the committed role, unless the list is `behind` or a save or a deletion is under way (`LastLoadIsFresh`).
* Lists (`ListInv`; `ListsShowOwnChanges`, `ListsNeverEndBeforeThePage`): no change is answered before it is committed
  (`VersionsAgree`), so the load sent after the answer reads it (`LastLoadHasAcked`). The list still has the rows that were
  ever counted and the page that is asked for (`CountsHold`), so the load sent last, whose count and page are read at
  two moments, finds rows (`LastLoadIsForThePage`). Two things break that and are kept as history: a page
  chosen for another list (`astray`: the audit log pages by the filter form as typed, applied or not) and a
  record renamed out of the filtered list (`narrowed`). A single history that a new search resets is not enough,
  as the attempt at the proof showed and a larger instance confirmed: the search goes back to page 1, but a count from before
  the rename may still reach the paginator.

Assumed are that the bounds and the page sizes are numbers (`BoundsAssumption`, `SizesAssumption`, `RouterAssumption`).

Model-checked only: the liveness properties `EveryRequestAnswered`, `CallsSettle` and `RunsEnd`, which speak of fairness and
are out of the prover's reach. Of each the safety it rests on is proved: `EveryDeadlockIsACycle` with `EveryRequestGoesForward`, `WaitersAreServed`, and
`SeedingNeverWaitsInACircle` with `SeedingGoesForward`.

## 5. Not modelled

Password hashing, JWT signing, HTTP and JSON, layout and the validation of forms, logging, and the
read-only routes other than the lists. Foreign-key and permission checks of the inputs, which reject a request before
it changes anything. Serialization failures and statement timeouts beyond `Abort`.

Notifications and the event bus: nothing in the repository calls `send()`, `publish()` or `subscribe()`, so
no notification and no event ever exists. Workflow tables, which no service writes; the jobs base class,
which has no job; the dashboard and its page, which read counts. The migrations give the tables their keys, which the
modules rely on, and are run by hand before the program.

Rows of `ScopeAssignment`, which no code writes. The bodies of answers, one of which is stale (`role_service.py:146`).
Middleware other than the limiter, which adds headers.

## 6. Plan

Done in this order: numbering with its proofs, tickets, entries, authentication (each with
proofs), browser session, access control, tenant records, list screens; then the seed script, the roles and settings
screens, the rate limiter, and the proofs about access control, the browser session, the limiter,
the three screens, the tenant's records and the seed script; last the proofs that waiting ends: in numbering, the seed script
and role changes some request always goes on. Left:

1. Wider maps of the routes and schemas the modules stand for.
2. Notifications and events, once something sends them.
