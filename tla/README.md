# TLA+ models of the privileged access management service

The repository is a NestJS service (`src/rbac-service`) with a Next.js dashboard
(`src/PAM-frontend`). Employees ask for access to a resource for some time,
managers approve, reject or revoke, a worker closes what has run out, and roles
with permission strings decide who may do which. State lives in MongoDB, in
Redis and in an in-process cache, and no transaction spans two of them; this
project models what happens in between.

Paths below are relative to `src/rbac-service/src/`, those of the dashboard to
`src/PAM-frontend/sentry-ui/`.

## Inventory

| Part | State | Operations | Talks to |
| --- | --- | --- | --- |
| Access requests, `modules/access-requests/access-requests.service.ts` | request documents (MongoDB) | create, approve, reject, revoke | grant keys, queue `grants` |
| Expiry worker, `grant-expiry.processor.ts` | the job it runs | `process` | queue `grants`, documents, keys, audit queue |
| Access check, `modules/grants/grants.controller.ts` | none | `checkAccess`, lists of active grants | keys, documents |
| Grant keys, `infrastructure/cache/grant-cache.service.ts` | `grant:{user}:{resource}` with a TTL (Redis) | set, get, TTL, delete, scan | |
| Roles, `modules/rbac/roles/roles.service.ts` | role documents | create, PATCH, add and remove a permission, deactivate | permission cache |
| Role assignments, `modules/rbac/user-roles/user-roles.service.ts` | UserRole documents | assign, remove, list and check permissions | permission cache |
| Permission cache, `infrastructure/cache/rbac-cache.service.ts` | a permission list per user with a TTL, a reverse index per role | store, invalidate, index | |
| Guard and context rules, `modules/auth/guards`, `modules/rbac/context` | none | decide on a request | role assignments, audit |
| Audit, `modules/rbac/audit` | log documents, queue `audit` | queue, store, merge, mark suspicious | |
| Accounts, `modules/auth`, `modules/users` | user documents, tokens in use | register, log in, update, deactivate | |
| Permission catalogue, `modules/rbac/permissions`, `infrastructure/database/schemas/permission.schema.ts` | permission documents, a unique index on their names | create, seed, PATCH, deactivate | |
| Seed scripts, `seed.ts`, `../seed-standalone.ts` | documents of permissions, roles, the administrator and the assignment; unique indexes | find-or-create of each, in order | the same database, the permission cache |
| Session of the dashboard, `lib/auth-context.tsx`, `app/login/page.tsx` | token (localStorage, shared by tabs); user, permissions and `loading` (per tab) | restore, sign in, log out, redirects | accounts, role assignments |
| Approval queue of the dashboard, `app/dashboard/page.tsx` | rows, filter, spinner, the review under way | list, select a filter, approve, reject, revoke | session, access requests |
| Other tabs of the dashboard, queue service, bonus demo | see `PROJECT.json` | | |

What is hard about it:

- An approval writes MongoDB, then Redis, then adds a delayed job; a failure or
  another handler fits between any two of these. The same holds for a revoke
  (document, key) and an expiry (document, key, audit entry).
- Every handler checks a status on a copy and saves later. `save()` sends only
  the fields that differ from that copy and puts no condition on the status.
- The access check writes: when the key is missing it re-creates it from a
  document it read earlier.
- Permission lists are filled from two queries and stored later, while role
  changes invalidate what the reverse index names; the index is itself a list
  read and written back.
- The guard decides on claims that are as old as the token and on an account
  looked up before the permission list; its audit entries travel through a
  queue whose worker merges, counts and marks them later, in any order.
- The cache is documented as Redis and configured in memory
  (`app.module.ts:31`): a restart empties it, index included.
- The seeds are find-or-create chains without a transaction. The two scripts
  and the service look for the same permission by different keys and rely on
  different unique indexes, one of which the standalone script drops.
- The dashboard sends each call with the token stored at that moment, shows the
  user an earlier call was answered with, and takes answers in whatever order
  they come; nothing cancels a call.

What makes each part correct is stated as the properties below; the hazards
they aim at are listed, with their lines, in `PROJECT.json`.

## Modules

### AccessGrants

Access requests, worker, access check and grant keys together, because the
properties are about how they interact.

| Variable | Code |
| --- | --- |
| `docs` | `AccessRequest` documents: `status`, `expiresAt` as the seconds left (`expiresIn`, `NoExpiry` for null), `isPermanent`, `autoExpired`, `reviewerId` |
| `keys` | Redis keys by `<<user, resource>>`: the request id and the TTL, 0 for a key without EX |
| `jobs` | delayed and waiting BullMQ jobs: request, seconds of delay left, how often stalled |
| `hs` | HTTP handlers: the await each is at, and its local variables |
| `worker` | the job the worker runs (`concurrency: 1`) and the await it is at |
| `audited` | requests whose expiry was handed to the audit queue |
| `faults` | failures so far, at most `MaxFaults` |

A step of a handler is one call to MongoDB, Redis or BullMQ with the local code
up to the next await. So `approve` is `ApproveRead`, `ApproveSave`,
`ApproveGrant`, `ApproveSchedule`; `reject` is `RejectRead`, `RejectSave`;
`revoke` is `RevokeRead`, `RevokeSave`, `RevokeDelete`; `checkAccess` is
`CheckGet`, then `CheckTtl` on a hit or `CheckFind`, `CheckSet` on a miss, then
`Respond`; the worker is `ExpireTake`, `ExpireRead`, `ExpireSave`,
`ExpireDelete`, `ExpireAudit`. A request that a status or ownership guard turns
away answers an error and takes no step. The second lookup of a cache hit
(`findById`, only for the answer's `expiresAt`) changes nothing and is part of
`CheckTtl`.

Libraries, as the code uses them: mongoose's `save()` writes the fields that
differ from the copy read (that is why `revoke` by the reviewer the copy
already named leaves `reviewerId` alone, see `seen`), and scalar fields carry
no version check, so the last write wins. BullMQ gives a job one attempt
(neither queue sets `attempts`) and re-runs a stalled one once
(`maxStalledCount` 1, the default). A key without EX answers TTL -1, a missing
key -2.

Time is seconds left, not dates: `Tick` takes one second off documents, keys,
jobs and the date an approval holds between read and save. One clock serves all
stores. A TTL that an access check has computed is a number and does not age.

Failures: a call of a handler or of the worker throws, the process restarts,
Redis loses keys and jobs. A call that throws has not taken effect.

### GrantLease

What AccessGrants promises to a downstream service, without documents, handlers
or jobs: a grant key is a lease. It names a request that was approved for
exactly this user and resource, each write (`Renew`) starts it for the time the
request asked for or less, every second takes one off (`Pass`), and it may end
at any moment (`End`: a revoke, an expiry, lost data). `ImplementsLease` is this
specification with `approved` taken from the request documents and `lease` from
the Redis keys; a re-hydration is a renewal, everything between the calls is a
stutter. The lease is what bounds the damage of every race the other properties
tell of: a revoked grant may have a key again, but never for longer than one
term after the last write.

### PermissionCache

`roles`, `holders` (UserRole documents), `cache`, `index` and the handlers `hs`
of RolesService and UserRolesService, one step per database or cache call.
`removePermission` replaces the array under mongoose's `__v` check (`fresh`),
`addPermission` is a `$push` without one, `update` replaces the array and may
set `isSystemRole` (the DTO allows it) and invalidates nothing. `patched`
remembers which roles PATCH replaced, for the properties only.

`RemoteCache` chooses between the documented Redis cache (each call a round
trip others can overtake, survives a restart) and the configured in-memory one
(a restart empties it). With the in-memory cache a call to MongoDB and what the
handler does with the answer are two steps: the commit or the read takes effect
when MongoDB makes it, the answer comes later, in any order, and other handlers
run in between. From the answer on, a handler's cache calls follow each other
within microtasks, so from its first cache call to its last (`MidTurn`) no other
handler makes one (`Turn`), while MongoDB goes on serving the calls that others
have under way. The answers of two requests that change one assignment at once
may come back in the other order and leave the index wrong for that pair:
`raced` remembers these pairs, and `alone` whether every request so far came
when no other was under way; both are history for the properties. `Seeded`
holds assignments written by the seed script, which runs in a process of its own
and leaves an in-memory index empty. A hit in the cache changes nothing and takes no step.

### Seeding

`seed.ts`, `seed-standalone.ts`, `POST /permissions/seed` (`endpoint`) and
`POST /permissions` (`create`) as runs of one module, since they write the same
collections.

| Variable | Code |
| --- | --- |
| `catalogue` | permission documents: the (resource, action) pair, whether a name was written (the standalone schema has no such field), and the run that created it |
| `indexes` | the unique indexes MongoDB enforces: `name_1`, action and resource, user and role |
| `roles` | per seeded role whether it is absent, lacks what the seed gives it, or has it |
| `admin`, `links`, `indexed` | the account, the UserRole documents, the entry in the reverse index |
| `rs` | the runs: the program, the call it is at, its loop variables and the index builds `connect()` started |
| `overlapped` | whether two runs were ever active together |

Every call is a step. An index is built in the background (`Build`) and not
built at all when what is there violates it; nothing in the scripts waits for
it. MongoDB repeats an upsert that lost a race on the index of its own query,
any other duplicate key ends the program. A run may be killed at any call.

### Session and Dashboard

Session is one tab: `restore` and `login` are the two asynchronous functions of
AuthProvider and of the sign-in form, with the user each acts for. The sign-in
button is disabled by the state of the mounted form alone, so a form that is
left (`Navigate`) goes on signing in next to the one mounted later: `login` has
a slot for each submit under way (`Submits`), `form` is the one the mounted form
waits for. `ordinary` remembers whether what the comment of
`ShownUserOwnsSession` calls unusual has happened: a sign-in while somebody else
is shown or signing in, a restore for one user that ends after another has begun
to sign in, a logout during a sign-in, or a write of another tab. `token` is
shared with other tabs (`OtherTab`), the rest is lost on a reload. A call
carries the token stored when it was sent, so the call for the permissions is
`unsigned` if the token has gone in between, and a refusal of that call is no
error. The `catch` of `restoreSession` removes whatever token is stored.

Dashboard composes the approval queue with it (`EXTENDS Session`): a step of
the session that ends the display of the dashboard unmounts the queue, and
what comes back later finds no component (`CloseTab`). `lists` are the calls of
`fetchRequests` under way, `review` the PATCH of a button, `status` the requests
as the service has them (AccessGrants has the steps behind a review), `crossed`
remembers that calls of this mount overlapped or failed. The service shows a
list as it was at some moment between call and answer. A review may be refused,
or lost before or after the service has acted on it (`LoseReview`). One review is
under way at a time, although the buttons of other rows stay enabled while one
is: what a review does to the list is independent of the next one.

### AuditPipeline

AuditService, its worker and SuspiciousActivityService: `recorded` (the checks
handed in, for the properties), `jobs` and `auditor` (queue and worker, as in
AccessGrants), `logs` (the documents), `now`. `process` is `AuditTake`,
`AuditFind` (the `findOne` of `storeAuditLog`), `AuditSave`, `AuditAnalyze`
(denial count and off-hours rule), `AuditMark`. The clock counts half seconds,
so that `Math.round` goes both ways; `HourAt` is the hour of the day at each
time. Two callers stand for the rest of the program: on its own, `HandIn` hands
in any check made now or earlier; in RequestGuard the guard does.

Two things the model keeps although a comment sees them otherwise: an entry
stands for checks up to 5 s away on either side, not for "the same second"
(`audit.service.ts:39`), and on any resource, since `resourceId` is not
compared.

The README of the repository (`src/README.md:308-310`) gives the anomaly
detection three causes: off-hours access, more than 10 denials in 5 minutes, and
an unusual frequency of a permission. The code (`suspicious-activity.service.ts`)
has two, and other ones: at least 5 denials in the last 60 minutes (lines 24-31),
and a permission that contains "delete" outside 8 to 20 o'clock (lines 40-51);
frequencies are counted nowhere. The two disagree in both directions: five
denials in an hour are marked though README.md promises nothing of them, and a
read at night is not marked though it does. `Threshold`, `Span` and `OffHours`
are the code's; `RapidDenialsMarked` and `MarkedForCause` say that merging,
reordering, repetition and failures do not distort what the code means to count,
and that they hold is no evidence for what README.md promises.

### RequestGuard

What stands between a request and its controller, composed with AuditPipeline
(`EXTENDS`; `Pipeline` and `Crash` are its steps, `Audit` its `HandIn`).

| Variable | Code |
| --- | --- |
| `accounts` | user documents: `isActive`, `department`, `mfaVerified` |
| `tokens` | tokens issued and not expired: the claims copied at the login |
| `lists` | what `getUserPermissions` answers; `ListChanges` stands for PermissionCache |
| `hs` | requests in flight |

`Arrive` is `JwtStrategy.validate` and the guard up to its first await: the
account is looked up, the claims are taken from the token (a null department
from the account) and the context is built. `Decide` reads the list and applies
wildcards (`Matches`) and rules, `Audit` waits for the queue and throws on a
denial, `Run` is the controller. Of the controllers
only those of UsersController matter here; every guarded route of the program
names exactly one permission. `Ask`, `Answer`, `Respond` are
`POST /auth/check-permission`, which decides the same way, except that its
context is as old as the answer and not as the request, and hands nothing in.
`PERMISSION_RULES` is the rule table entry by entry.

### MC modules and runs

The `MC` modules give the constants small values.

| Run | Asks | Result |
| --- | --- | --- |
| `grants_safety` | Two requests that share a key (temporal, 2 s, and permanent), two handlers, one failure. `SeparationOfDuty`, `GrantProvenance`, `NoEarlyExpiry`, `ExpiryScheduled`, `ExpiryNotLost`, `KeyLifetime`, `ImplementsLease` | hold |
| `grants_live` | One temporal request, two handlers, one failure, fairness. `TemporalKeyDies`; without failures `TemporalGrantEndsWithoutFault`, `ExpiryAuditedWithoutFault` | hold |
| `grants_revoked` | "If status is REVOKED, we must not overwrite it with EXPIRED." | violated: revoke between the worker's read and save |
| `grants_revoke_key` | "Manual revoke must clear Redis immediately" | violated: a revoke between the save and the key of an approval, which then writes the key |
| `cache_memory` | In-memory cache, two users, one role, two overlapping requests, no failure. `IndexExact`, pairs that two requests changed at once apart; `CacheExact` as long as no requests overlapped | hold |
| `cache_concurrent` | Remote cache, an administrator assigned by the seed script, two handlers, two permissions, one failure, fairness. `NoResurrection`, `LostPermissionLeaves` | hold |
| `cache_fill_race` | "With the reverse index maintained correctly, changes propagate immediately." | violated: a fill has read the role before a permission was removed, and its answer comes after the invalidation |
| `audit_pipeline` | Three checks of two permissions, handed in early or late and in any order across the end of the business hours, one failure, fairness. `NoDuplicateLogs`, `MarkedForCause`, `MarkedForDeniedChecks`; without failures `NoCheckLost`, `RapidDenialsMarked`, `ChecksLogged` | hold |
| `guarded_requests` | An administrator's two concurrent requests while account, list and token change, the audit worker, one failure. `AccountChangesAudited` | hold |
| `seeding` | A standalone run, a run of either script and a request to the service, apart or overlapping, one of them killed, fairness. `SeriallyUnique`, `FailsForCause`, `DoneMeansSeeded`, `EveryRunEnds` | hold |
| `session` | One tab, two users, two sign-ins under way, two failing calls, a reload or a write by another tab, fairness. `ShownUserOwnsSession`, `LoadingEnds` | hold |
| `dashboard` | The queue in that session with one sign-in at a time: two list calls and a review under way, other reviewers, one failing call, fairness. `ReviewsOfOthersOnly`, `ListFitsFilter`, `SpinnerEnds` | hold |

The type invariant of each module is checked in one of its runs.

Observations from the runs. Approving a request twice (two reviewers that
both read it pending) moves `expiresAt` but never closes the request before the
date shown: the later job waits for the later date, and the earlier one finds
it only when that date has passed as well, which is the invariant behind
`NoEarlyExpiry`. And a fill reads assignments and roles at two moments, so it
can cache a permission that the user never had; `LostPermissionLeaves` is
therefore stated per role and not over the user's effective permissions. `RapidDenialsMarked`
holds although entries arrive out of order and are merged, because the last
entry saved among the recent denials has seen all of them; it says that one of
the recent denials is marked, not that all of them are.

What the dashboard and seeding properties leave out is as telling as what they
say. `SeriallyUnique` allows a twin of a permission, one with and one without a
name, for want of the standalone script's index, and overlapping runs may
create any twin before the builds are through. `ListFitsFilter` speaks of calls
that do not overlap: a filter clicked before the answer is there, or a review
answered after the filter has changed, can leave the rows of one filter under
the other, and so does a failed call. `ShownUserOwnsSession` needs the ordinary
session spelled out beside it: with the token of another tab, or when two users
sign in from two mounts of the form at once, the buttons are hidden by one user
and the call is made for another, and only the service's own check
(`SeparationOfDuty`) stands. And even in an ordinary session the token may be
gone: the `catch` of a restore removes whatever is stored by then.

The finding of `grants_revoke_key` is the shortest way to a key of a revoked
request. An access check that found the approved document before the revoke and
writes the key after it (`grants.controller.ts:70`) is another, with the same
result.

Three more disagreements between the code and its comments can be seen in the
models and have no run of their own: the fallback of the access check answers
granted, with 0 seconds left, for an approved request past its `expiresAt`
until the worker has run, although `access-request.schema.ts:43` calls it the
moment when the grant stops being valid; a failure between the save and the job
of an approval (`access-requests.service.ts:129` and `:153`) leaves an approved
temporal grant that nothing closes, although the dashboard says that temporal
grants "auto-revoke when the timer hits zero" (`app/dashboard/page.tsx:157`);
and a PATCH of a role invalidates nothing, nor does any change while the index
is empty after a restart, although README.md:256 promises zero stale permission
windows. What bounds the last one is that `rbac-cache.service.ts:52` passes 300
to a cache that counts milliseconds.

### Bounds

- Two handlers: every race listed in the hazards is between two requests or a
  request and the worker. Three actors (two handlers and the worker) is what
  the runs explore.
- Two requests that share one key are enough for one to disturb the other;
  one user and one resource, since keys of different pairs never meet.
- `Seconds` is 2, so a key can be half-way when something else happens; the
  violation runs need only 1. Durations are positive there: what "0 minutes"
  does is a hazard of its own (see `PositiveDurations`).
- One failure per behaviour (`MaxFaults`): each failure hazard needs one; the
  theorems hold for any number, those that start "until something fails" up to
  the first of them.
- `CacheTtl` 1 or 2 ticks: stored, still there, gone. `cache_memory` has one role
  and one permission: index entries of different roles never meet, and two users
  are what a lost update of one role's list takes.
- In the audit runs two denials make a user suspicious (`Threshold`) and the
  window is one second, so that three checks can merge, be counted, and fall
  out of the last hour (`Span`). `guarded_requests` has two checks and two
  moments, one in office hours and one after 20:00; the larger instance of the
  pipeline is the one of `audit_pipeline`, whose results `GuardedLog` carries over.
- In `seeding` one default permission that the service and the standalone
  script share and one that only the latter has; one role; three runs, so that
  a request can come between or into two scripts. One kill.
- In `session` two users, of whom one may be signed in while the other signs
  in, two sign-ins under way, and two failures, so that a restore and a sign-in
  can fail in the same behaviour. `dashboard` has one sign-in at a time, which
  keeps it small, since `session` has two and the theorem about reviews any
  number; no reloads and no writes of other tabs, which
  `session` explores: a reload is an unmount like a logout for the queue, and
  `ReviewsOfOthersOnly` excludes other tabs. Two list calls under way are
  enough for answers to come in the other order. Approved and pending stand for
  the filters; the rows of the other two have no buttons.
- Handler ids are interchangeable, so `grants_safety`, `cache_memory` and
  `guarded_requests` use symmetry. The liveness runs do not.

### Fairness

`WF` on each handler's continuation and each worker (Node runs a promise chain
to its end, BullMQ hands out due jobs), and on `Tick` where a timer must run
out. In `seeding` on each run's next call: a program that was started goes on to
its end. In `session` and `dashboard` on the continuation of each call, which
is answered or fails in the end, and on the redirects, which React runs after a
render. No fairness on arrivals, starts or clicks, since nobody need send
anything, and none on failures.

## Proofs

`AccessGrantsProofs` proves, for any constants that meet the module's
assumptions (any number of users, requests, handlers and failures; any
durations, zero included):

- `TypeCorrect`: `Spec => []TypeOK`. `HandlerOK`, a part of `TypeOK`, says what
  a handler knows at each await; without it the step after the await could not
  be typed. `GotoType` types one handler's move, `ContinueData` and
  `ContinueType` the later steps, `TickKeyType`, `TickJobType` and
  `TickHandlerType` the clock.
- `DutiesSeparated`: `Spec => []SeparationOfDuty`. Not inductive alone: between
  the guard and the save only the handler knows the reviewer. The
  strengthening says that a handler at `approve` or `reject` carries a
  reviewer other than the requester.
- `ExpiryAlwaysScheduled`: `Spec => []ExpiryScheduled`; inductive with typing
  alone. The places a temporal grant's job can be (queue, approving handler,
  worker) cover every step while nothing has failed.
- `NeverEarly`: `Spec => []NoEarlyExpiry`. `DatesInv` and `JobsInv` say that a
  date, once written, is never further away than the duration and that each
  job, and each handler about to add one, is due no earlier than any date the
  same request shows or may still be given. It covers double approvals, restarts and lost data alike.
- `ExpiryNeverLost`: `Spec => []ExpiryNotLost`. Until something fails
  (`FaultFrame`: then no step so far was a failure) the worker that has saved an
  expiry goes through the delete to the audit queue, and nothing else sets
  `autoExpired`.
- `SerialRevokeClears`: what the run `grants_revoke_key` refutes for two handlers
  holds for one handler next to the worker, `Spec => [](faults = 0 =>
  RevokeClearsKey)`. `SerialInv` says that a handler about to write a key holds
  a request that is not revoked, which is exactly what a second handler breaks.

`AuditPipelineProofs` (any window, span, number of checks and positive threshold,
`ThresholdAssumption`; the code's is 5):

- `AuditTypeCorrect`: `AuditSpec => []AuditTypeOK`, with the finiteness of log
  and history and `AuditorBusy` (a worker at work has a check).
- `LogsDistinct`: `AuditSpec => []NoDuplicateLogs`. The strengthening is
  `SaveInv`: when the worker is about to save, what it did not find is still
  not there, since nobody else saves.
- `ChecksStay`: `AuditSpec => []NoCheckLost`. A check is `OnItsWay` or in an
  entry; entries do not move, and merging keeps what an entry stands for
  (`LoggedStays`).
- `MarkedOnlyForCause`: `AuditSpec => []MarkedForCause`. `IdsInv` (entries are
  told apart by their ids, so marking one id marks one entry), `EntryInv` (the
  entry the worker analyses stands for its check, also when it was found and not
  saved), `OriginInv` (what is logged, waits or is worked on was handed in),
  `PastInv` (no check is ahead of the clock, so what was recent when it was
  counted lies within one span) and `MarkInv` (the entry about to be marked has
  a cause) make up `CauseInv`; `CauseStays` shows that no later step takes a
  cause away.
- `MarkedOnlyForChecks`: `AuditSpec => []MarkedForDeniedChecks`. By `OriginInv`
  each entry was written for a check that was handed in, at that check's second;
  by `NoDuplicateLogs` and `IdsInv` two entries never for the same one, so the
  denials in the log are no more than the denied checks (`DenialsWereChecks`, an
  injection). This is what re-run jobs could break.
- `RapidDenialsAreMarked`: `AuditSpec => []RapidDenialsMarked`. Ids are in the
  order of the saves, and `UpTo(l)` is the recent denials of a user up to entry
  `l`. `RapidInv` says of every entry whose `UpTo` reaches the threshold that it
  is marked or in the worker's hands. Time and later entries never add to `UpTo`
  (`UpToShrinks`), and the last of the recent denials (`LastEntry`, by
  well-foundedness of the numbers) has all of them in its `UpTo`.

`RequestGuardProofs` (any users, permissions, environments and requests):

- `GuardTypeCorrect`: `Spec => []GuardTypeOK`, which includes that a controller
  runs only for a granted request.
- `ChangesAudited`: `Spec => AccountChangesAudited`, from `RunInv`: a request
  at its controller has left its entry, unless it reads, and the two
  permissions that change accounts are no reads (`ReadAssumption`).
- `GuardedLog`: `NoDuplicateLogs`, `NoCheckLost`, `RapidDenialsMarked`,
  `MarkedForCause` and `MarkedForDeniedChecks` hold of the composition. The lemma
  `GuardUsesPipeline` (`Spec => AuditSpec`) carries them over; it is a consequence
  of how the modules are composed and says nothing about whom the guard audits,
  which is what `ChangesAudited` is for.
- `ChangesLeaveATrace`: `ChangesAudited` with `ChecksStay`. When an account
  changes before the first failure, the granted check that let the request
  through is waiting, being stored or in the log.

`GrantLeaseProofs` (durations positive, the assumption `PositiveDurations` that
the statements name, because "0 minutes" makes a key without end):

- `KeysNameApprovals` and `KeysLiveTheirTime`: `GrantProvenance` and
  `KeyLifetime`. The invariant `LeaseInv` carries them through the handlers: a
  handler about to write a key holds a request that was approved, the key of
  that request, and a TTL no longer than its duration.
- `GrantsAreLeases`: `Spec => ImplementsLease`. Initial states map to initial
  states, and each action is one step of GrantLease or a stutter.

`PermissionCacheProofs` (any users, roles and permissions):

- `CacheTyped`: `Spec => []TypeOK`, with `HandlerOK` as in AccessGrants.
- `RemovedStaysRemoved`: `Spec => NoResurrection`. `CopyInv`: what
  `removePermission` is about to save holds nothing the role lacks by now, as
  long as its copy is `fresh`; otherwise the save is refused.
- `IndexFollowsHolders` and `IndexNamesHolders`, until something fails. They
  assume `Undisturbed`: the cache is in memory, with any number of requests in
  flight, or it is remote and there is one request at a time; two requests with a
  remote cache lose entries, as the hazards say. The answers of the database may
  come in any order, so nothing is claimed of the pairs in `raced`. Of every other
  pair `PairInv` says (`PairOK`) that at most one request has changed it and not
  yet the index, that this request will write what the database says, and that
  without such a request index and database agree (`Agrees`); and (`TurnOK`) that
  one request at a time is between its cache calls, so that the list it writes
  back is the one it has read and no other pair's entry is lost. `Still`, `Begins`
  and `Ends` are what a step can be to a pair. An index may miss assignments that
  the process never knew (`Forgotten`: those of the seed script when the cache is
  in memory); with nothing forgotten `Agrees` is `IndexExact`.
- `ListsAreExact`: `Spec => [](faults = 0 => CacheExact)` for one request at a
  time and nothing forgotten (`Serial(h)`; the run `cache_fill_race` shows that
  two requests are too many). With one request no pair is ever raced (`LoneInv`),
  so the index is exact outside the request's own change (`SerialIndex`), and
  `CacheInv` says that a list is exact or that its user is `Pending`, among those
  the handler is still to invalidate.
- `SerialListsShowNothingLost`: under the same conditions the comment that
  `cache_fill_race` refutes is true (`StaleOnlyOutOfIndex`).

`SeedingProofs` (any lists, any number of runs and kills):

- `SeedingTyped`: `Spec => []TypeOK`, where `InLists` says that no run reads
  past the end of its list.
- `CompleteMeansSeeded`: `Spec => []DoneMeansSeeded`. `ProgressInv`: a run past
  a part of its work has left that part done, and nobody undoes it.
- `SerialRunsUnique` and `SerialRunsFailForCause`: from `SerialInv`, which says
  what one run at a time, with the index builds it started, has found and not
  yet created, and why no index refuses it.

`SessionProofs` and `DashboardProofs` (any users, requests, filters and calls):

- `SessionTyped`, and `ShownUserIsOwner` from `OwnerInv`, for any number of
  sign-ins under way: in an ordinary session all of them, and whoever is shown,
  are of one user (`OneAtATime`), and at each of its calls a flow acts for the
  owner of the stored token and for the user who is shown, or the token is gone
  (`ActsForOwner`).
- `QueueTyped`; `OwnRequestsNotReviewed`, from `MountedInv` (an open queue is
  in a shown dashboard, whose user `OwnerInv` relates to the token);
  `RowsFitFilter` from `FilterInv`: without overlaps the one list call under
  way has the selected filter.

Every invariant and every action property of the passing runs is proved.
Model-checked only are the liveness properties, since fairness and `ENABLED`
are beyond the prover: `TemporalKeyDies`, `TemporalGrantEndsWithoutFault`,
`ExpiryAuditedWithoutFault`, `LostPermissionLeaves`, `ChecksLogged`,
`EveryRunEnds`, `LoadingEnds` and `SpinnerEnds`. Of two of them the safety half
is proved: `ExpiryNotLost` and `NoCheckLost` say that what is to happen stays
on its way. The three violated properties are no theorems; two of them are
proved for requests that come one at a time, which tells where the code needs
more than it has.

## Not modelled

- Of the service: password hashing, JWT signatures and HTTP parsing;
  registration (look-up and create on a unique index, as `CreateAdmin` of
  Seeding does); routes that name no permission (the guard lets them pass
  without a step); the parsing of durations, of which AccessGrants takes the
  outcome; texts and labels; the read-only lists; PATCH and deactivation of
  permissions, whose description and `isActive` no decision reads.
- Of the seeds: which permissions a role has (absent, lacking or complete
  stands for them); that `seed.ts` boots the whole application and with it a
  second worker on the same queues, for as long as it runs; the builds of the
  indexes on role names and e-mail addresses, taken to be through. A document of
  `POST /permissions` is taken to have the name `resource:action`, which the DTO
  does not enforce, and the index builds that the service started and that are
  pending when its request ends are dropped, as if it stopped then.
- Of the dashboard: the countdown of active grants, the users tab with its role
  lists, the audit tab, own requests and the form for new ones, which read a
  list once and render it; reviews that overlap. That a caller lacks the
  permission or fails a context rule is one of the failures of a call.
- Around them: MongoDB and Redis beyond single-document and single-key
  atomicity; clocks that differ between servers; several instances of the
  service; the queue service, which nothing uses; the bonus demo, of which the
  guard is all.
- A next step would be the composition of RequestGuard with PermissionCache in
  place of `ListChanges`.
