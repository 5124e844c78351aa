# Formal models of Navtra License

TLA+ modules of the licence authority in `src/Project-source/forge-server` and
of the verifier SDK in `src/verifier-sdk`, checked with TLC and proved about
with TLAPS. Paths below are relative to `src/`; `app/` stands for
`Project-source/forge-server/app/`.

## 1. The system

A vendor issues licences; products ask whether they may run.

| Component | Code | State it keeps | Operations |
|---|---|---|---|
| Edge, activation | `app/services/edge.py` `activate`, `_match_binding` | `licenses` (status, seat_used), `fingerprint_bindings`, `clone_alerts`, the Redis key `forge:lock:seat:<id>` | activate |
| Edge, validation | `app/services/edge.py` `validate`, `_mint_lease` | `leases`, Redis keys `forge:lease:<hash>` | validate (renew) |
| Issuance | `app/services/issuance.py`, `app/api/admin/v1/licenses.py` | `licenses`, `revocations` | issue online, issue offline, revoke, hard delete |
| Worker | `app/worker.py` | none of its own | reap dead bindings, sweep expired licences, refresh the CRL |
| CRL | `app/services/crl.py` | `crl_bundles`, `revocations.crl_version` | generate, download |
| Keys | `app/licensing/keys.py`, `app/core/crypto.py` | `signing_keys` | ensure, sign |
| Operators | `app/services/{auth,session}_service.py`, `app/services/ratelimit.py`, `app/api/admin/v1/{auth,users,me}.py` | `users`, Redis sessions, counters and lockouts | log in and out, 2FA, create, change, disable, delete users, change and reset passwords |
| Catalog | `app/api/admin/v1/{customers,products,settings,audit,clone_alerts}.py` | one table each | create, read, update, delete |
| Online client | `verifier-sdk/*/online.*` | the cached lease and token, in memory | activate, revalidate |
| Offline verifier | `verifier-sdk/*/verifier.*` | a watermark file | verify a file against a CRL |
| Email failover | `app/adapters/email/base.py` | a failure counter | send |
| Start, migrations | `entrypoint.sh`, `app/cli/__init__.py`, `app/migrations/` | the schema, its revision, an advisory lock | migrate up and down, bootstrap, key initialisation |
| Identity collectors | `verifier-sdk/*/fingerprint.*` | the install_id file | collect the fingerprint, the signals and the uid |
| Database bridge | `app/db/sync_bridge.py` | a thread and a session per request | every database operation over a synchronous driver |
| Adapters, UI | `app/adapters/`, `Project-source/forge-admin` | none | - |

How they meet. The client talks to the edge over HTTP, loses answers and times
out on its own. Edge processes, worker and admin API share PostgreSQL and
Redis and nothing else: every request has its own database session (a
transaction that the code commits explicitly and that is rolled back when the
session closes, `app/db/session.py`), isolation is READ COMMITTED, and the only
mutual exclusion in the application is the Redis seat lock. Celery redelivers
tasks (`task_acks_late`) and may run two executions of one task at once.

What is hard:

* `activate` reads, decides and writes across eight awaits. The licence row it
  uses was read before the lock; the lock is freed before the commit; the lock's
  key expires by itself and is deleted without an owner check.
* The reaper, the sweep, revocation and hard delete commit in the middle of it.
* Renewal replaces the token; the answer may be lost; Redis and the database
  disagree about which tokens exist.
* The client decides on its own when the edge cannot be heard.
* Revocation of offline licences travels through a versioned list that several
  writers produce and a file that several processes of a product replace, on a
  host whose clock the customer sets.
* Sessions are read and written back in two commands, and the index of an
  operator's sessions is deleted after it was read.
* Checks of the admin API (the last super admin, a free address, a product on
  offer) and the write they justify are separated by awaits.
* Replicas start together, die half-way, and have no unique index on active keys.

What makes each component correct: seats (no more active bindings than sold, one
seat per machine, no identity taken for another), revocation (no lease after it,
bounded life of leases before it), renewal (who holds a token can renew it, who
was told no stays locked), CRL (versions grow and lists with them, deletion does
not un-revoke), sessions (a global logout is final, one super admin is left),
liveness (requests are answered, orphaned locks go away, an ended licence locks).

## 2. Modules

| Module | Content |
|---|---|
| `Identity` | `_match_binding`: the tiers by which a stored binding is recognised, the install_id double lock. Pure operators. |
| `SeatControl` | One online licence: any number of concurrent `activate` requests, reapers, the sweep, revoke, delete, crashes, key expiry. |
| `MCSeatControl` | Instances of it: identities, legacy rows, symmetry. |
| `MCSeatLifecycle` | One run for its safety: the whole lifecycle with two activations, and a race of three. |
| `SeatPool` | The abstract promise of `SeatControl`: seats booked one at a time, taken, given back. |
| `SeatControlProofs` | Its theorems, and the proof that it implements `SeatPool`. |
| `LeaseRenewal` | One deployment: client, network, `activate` and `validate`, lease keys, reaper, revoke, delete, end of term, a clock. |
| `MCLeaseRenewal` | An instance of it, for the statements that the code does not keep. |
| `LeaseRenewalProofs` | Its theorems. |
| `RevocationLedger` | The abstract promise: a log of revocations, and lists that are what it held at some moment. |
| `CrlPublication` | Offline licences at the server and overlapping executions of `CrlService.generate`. |
| `CrlPublicationProofs` | Its theorems, and the proof that it implements `RevocationLedger`. |
| `OfflineRevocation` | `CrlPublication` composed with a product that calls `verify_offline`: state file, clock, lists handed in in any order. |
| `MCClients` | One run for `LeaseRenewal` (on one host and on a host that changes) and `OfflineRevocation`. |
| `MCLiveness` | One run under fairness for `LeaseRenewal` and `SeatControl`. |
| `OfflineRevocationProofs` | Its theorems, resting on those of `CrlPublicationProofs`. |
| `Accounts` | Users and roles; `update_user`, `reset_password`, `delete_user` and the last-super-admin check. |
| `OperatorEmails` | `create_user`, `delete_user`, `update_my_profile` and the unique index on addresses. |
| `OperatorSessions` | The sessions of one operator in Redis: login, requests, logout, global logout. |
| `LoginGuard` | The counter of failed logins and the lockout. |
| `TwoFactor` | Setup and confirmation of the second factor. |
| `Catalog` | Products, customers, and the issue of a licence for one of each. |
| `Startup` | Entry point of the replicas: wait, migrate under the advisory lock, bootstrap, serve; `forge keys init`. |
| `KeyCustody` | The key-encryption keys of the roles api, edge and worker, and the environment file they come from. |
| `SchemaMigrations` | The six revisions, up and down, and the data they move. |
| `DeploymentIdentity` | `fingerprint.py` on a host that changes, against the matching rules of `Identity`. |
| `SyncBridge` | The thread, queue and connection of each database session over a synchronous driver, with cancellation. |
| `EmailFailover` | Choice of the e-mail adapter and the circuit breaker. |
| `MCServices` | One run for the parts that share no state, and what is assumed of their constants. |
| `OperatorsProofs` | Theorems about `Accounts`, `OperatorEmails`, `OperatorSessions`, `LoginGuard`, `TwoFactor`. |
| `ServicesProofs` | Theorems about `Catalog`, `SyncBridge`, `EmailFailover`. |
| `DeploymentProofs` | Theorems about `Startup`, `KeyCustody`, `DeploymentIdentity`, `SchemaMigrations`. |

`DeploymentIdentity` takes the matching tiers from `Identity` with INSTANCE, so
the client's collectors and the server's rules meet in one model.
`OfflineRevocation` EXTENDS `CrlPublication`. `SeatControl` EXTENDS `Identity`.
`SeatControl` and `LeaseRenewal` are two views of the edge: the first has many hosts and
no time, the second one deployment, whose seat is its own, the identities it may
present, and time.

### SeatControl

| State | In the code |
|---|---|
| `status`, `seatUsed`, `pastTerm` | the committed `licenses` row; `deleted` is a row that is gone |
| `revocation` | the `revocations` row; hard delete sets its `license_id` to NULL (`unlinked`) |
| `row` | committed `fingerprint_bindings`; `hb` is last_heartbeat_at as the reaper sees it |
| `holder` | `forge:lock:seat:<id>` and, as history, who set it; the code does not compare it |
| `pc`, `req`, `snapStatus`, `snapUsed`, `plan`, `target`, `seen` | a request's position and what its session has read |
| `late` | history: the request began after a revocation was committed |
| `doomed` | ids a reaper has selected |

An `activate` is the actions `LookUp` (139-142), `CheckRevoked` (53-58, 143),
`AcquireSeatLock` or `SeatLockBusy` (148-156), `MatchBinding` (158-188),
`FlushBinding` (169-173, 189-198), `ReleaseSeatLock` (199-201) and
`MintLeaseAndCommit` (203-209). Every one of them is what happens up to the next
await on shared state. A flush waits for another session's uncommitted row or
index entry (`FlushBlocked`), fails on the unique index, which also counts dead
bindings (`FingerprintTaken`), on a licence that was deleted, and on a row that
was deleted (`FlushFails`). `SeatUsedAfter` keeps the lost update of
`lic.seat_used += 1`: the value written is the one the session read plus one.
The worker's two statements, `ReapSelect` and `ReapCommit`, are two steps since
nothing locks the rows in between.

`SeatPool` says what this amounts to: `Book`, `Confirm`, `Cancel` and `GiveBack` of seats.
An active binding is a seat taken (`ActiveBindings`), a flushed and uncommitted
insertion a seat booked (`Pending`); `PoolSpec` is `SeatPool!Spec` under this mapping.
What the bound alone does not say is how seats are taken: a request may have matched a
binding that a reaper kills before the commit, and its UPDATE must not revive it, or
a seat that the next activation has already taken would be taken twice.

`Spec` lets the lock key of a request go only when the request is out of its
section; `SlowSpec` lets any key expire at any time, which is what happens when
the section takes more than 10 s.

### LeaseRenewal

| State | In the code |
|---|---|
| `license`, `endedAt` | the `licenses` row; when it ended |
| `bound`, `install`, `heartbeat` | the active binding: fingerprint, install_id, last_heartbeat_at |
| `dead`, `orphans` | the reaped bindings; the leases whose binding was reaped or deleted |
| `leaseRows`, `cached`, `mintedAt` | `leases`, `forge:lease:<hash>` in Redis, `issued_at` |
| `stage`, `kind`, `token`, `ident`, `since`, `answer`, `granted` | a request under way: its place, what it presents, its answer |
| `client`, `held`, `waiting`, `verdict` | the SDK: the identity computed at the start, lease and token, the call it waits for |
| `lost`, `barred`, `crossed` | history: Redis lost keys; a request could not be served when it arrived; the product restarted under an activation of another identity |

A token stands for the pair (lease, validation_token): the client replaces both
at once. A request of the client is an element of `Request`; it is `sent`,
`looked` up, its licence `windowed`, `cleared` of revocation, `answered`. The
client waits for one request at a time but the edge may still be serving ones
it gave up (`CallRaises`).

`LookUpLease` is `validate` down to 232: the token is in Redis or in `leases` (`Known`),
its binding is active (`BindingServes`), and the identity of the request agrees with it
(`IdentityAgrees`: the fingerprint unless the binding goes by a deployment_uid, and the
install_id when both sides have one). Each miss has its own code, and all of them lock
the client. The product computes its identity when it starts (`ProductRestarts` may find
another one), and an activation gives its binding the identity it presented, unless the
install_ids clash (`ActivateCommit`). `validate` writes the heartbeat and the leases row
in a transaction that is never committed: the model has only its row lock (`Flushed`,
`BindingLocked`) and the Redis key that stays (`CachedAfterMint`).

A call ends with a verdict: `active`, `grace`, `locked`, `rejected` (LOCKED with
a definitive code), `revoked`, or `raised` when an exception leaves the client.
The model is of the Python client. The Go client does not raise. The node client
does not raise and treats every code but LICENSE_REVOKED like a network failure.

### CrlPublication and OfflineRevocation

| State | In the code |
|---|---|
| `licence` | `licenses.status` of the offline licences, `deleted` when the row is gone |
| `log` | `revocations` of mode offline in commit order; a hard delete leaves them |
| `stamp` | `revocations.crl_version`, 0 for NULL |
| `bundle` | `crl_bundles`; `since` is history: how many there were when the ids were selected |
| `gpc`, `draft`, `unstamped` | one execution of `CrlService.generate`: its position, the bundle it builds, the rows it will stamp |

`generate` is `SelectRevoked`, `ReadLatest`, `FlushBundle` and `CommitBundle`: two
reads, an INSERT that autoflush sends before the third SELECT, and the commit. The
INSERT waits for an uncommitted bundle of the same version and fails on a
committed one. `AbortGenerate` is a request that dies, a failed signature or a
killed task. The worker's `refresh_crl` and the administrator's endpoint are the
same operation, so `Generator` stands for both.

In `OfflineRevocation` a check is `LoadState` (the arguments, the file) and
`SaveState` (what `verify_offline` computes and writes): two processes may load the
same file and the second to save wins (`overtaken`). Verdicts and watermarks follow
`verifier.py` branch by branch; a check that returns before the save is not a step
since it leaves everything alone. The same goes for a check without a state file, and
`ForgeVerifier.verify_offline` makes no other: it passes neither `state_path` nor
`crl_version` (`__init__.py:44-46`), so what the file records protects only callers of the
module's function `verify_offline`. Time is in months and the clock can be set to
any of them.

### The parts of MCServices

Each of these modules is small, has its own variables, and shares none with another:
accounts, addresses and sessions meet in the database only through rows that the
modules keep apart (who may call is read from the session before the handler
begins). History variables (`crossed`, `raced`, `ended`, `unguarded`, `replaced`,
`rekeyed`, `lost`, `unclosed`) name the race or the fault that a property excuses,
so that each property says exactly what it takes to break the promise. Where such a
variable is raised, the property says nothing: it shows that there is no other way, and
not that the race is harmless. What each one excuses is listed in section 3.

* `OperatorSessions`: a Redis call is a step when it writes or when its answer can be
  stale: GET and SET of `get` are two, SMEMBERS, each DEL and the DEL of the index of
  `destroy_all_for_user` are steps. An operator's change of his own password
  (`me.py:57-68`) is one of the changes and kills no session, although
  `session_service.py:4-5,68` names password change; `reset_password` kills them all.
  `GlobalLogout` is about the changes that do.
* `LoginGuard`: INCR, EXPIRE, SET of the lock and DEL of the counter are steps; a
  process may die between them.
* `Accounts`: SELECT of the account, COUNT of super admins and commit are steps. The
  permission that a handler asks for is looked up in the role map.
* `Catalog`: a PATCH writes the columns its body sets and no other (SQLAlchemy's
  change tracking); a delete sets `deleted_at`; an issue reads customer and product
  and signs later.
* `Startup`: an advisory lock may wait (PostgreSQL) or be best effort
  (`LockWaits = FALSE`, what the run uses, and the weaker of the two); the database may
  be unreachable at any time; the e-mail of the super admin is unique and the
  active key of a purpose is not.
* `KeyCustody`: the roles are containers of one environment file with two KEKs, of
  which each role is given those it needs; the operator edits the file and recreates a
  role whenever he likes. A key is sealed with the KEK the api had.
* `SchemaMigrations`: the state is which tables and columns exist and which rows hold
  what the revisions move; a command is one transaction, as on PostgreSQL.
* `DeploymentIdentity`: a host is what `fingerprint.py` can read of it: machine-id, card,
  name, processors (architecture and count, which make `cpu_sig`), board (for root only),
  container, injected uid, a writable directory or not. Under running processes it may be
  renamed, get another card or other processors (`HostDrifts`); with the product stopped
  it may get another system, or be a new container on the same node or on another
  (`HostRebuilt`).
* `SyncBridge`: an operation is queued, running, or done; a handler that is cancelled
  drops an operation its thread has not begun; `shutdown(wait=True)` holds the event loop.
* `EmailFailover`: sends overlap; the breaker is read before the await and counted
  after it. Nothing in the repository calls it yet.

## 3. What is checked

| Run | Instance | Shows |
|---|---|---|
| `SeatLifecycle` | 2 parts, one at a time | see below |
| `Clients` | 3 parts, one at a time | see below |
| `Liveness` | 2 parts, one at a time, under fairness | see below |
| `Services` | 13 parts, one at a time | see below |

| Part of `SeatLifecycle` | Instance | Shows |
|---|---|---|
| lifecycle | 2 requests, 2 rows, look-alike hosts, a cluster member, a legacy binding, 1 reaper, keys that expire at any time | `TypeOK`, `SeatUsedWithinRows`, `RevokedRefused`, `HostHoldsOneSeat`, `ClusterIdentityHolds` |
| race | 3 requests of 3 different hosts, 3 rows, 1 seat, keys that stay | `SeatOvershootBounded`, and the others again |

| Part of `Clients` | Instance | Shows |
|---|---|---|
| online | one host, 2 tokens, 2 requests under way, revocation at time 0, term to time 2, clock to 5, a window that is over at once, Redis may lose its keys | `BarredGetsNoLease`, `UnlockedEnds`, `HeldTokenRenewable` |
| moved | a product without install_id that is started again on another host by one with it; 2 tokens, 2 requests, clock to 1, before the end of a term that nobody cuts short | `HeldTokenRenewable`, `BarredGetsNoLease` |
| offline | 1 licence, 2 generations, 2 bundles, 2 processes of the product, clock 0 to 2 months, a term of one month | `RefusalLasts`, `ExpiryLasts` |

| Part of `Liveness` | Instance | Shows |
|---|---|---|
| lease | a deployment and its copy in another installation, 2 tokens, 1 request, term to time 1, clock to 3 | `LockedForGood` |
| seats | 2 requests of two installations for one row, 1 reaper, crashes, a legacy binding | `EveryRequestAnswered`, `SeatLockComesFree`, `SeatMutex`, and the refinement `PoolSpec` of `SeatPool` |

| Part of `Services` | Instance | Shows |
|---|---|---|
| `CrlPublication` | 2 licences, 2 generations, 3 bundles | `VersionsInOrder`, `ListsGrow`, `ListedAfterStamp`, and the refinement `LedgerSpec` |
| `Accounts` | 2 users, 2 requests | `SuperAdminRemains`: only two overlapping changes lock everybody out |
| `OperatorEmails` | 3 persons, 2 addresses, 2 requests | `LookupUnambiguous`: the lookup of an address finds one row at most, deleted ones included |
| `OperatorSessions` | 2 sids, 2 requests | `GlobalLogout`, `UnindexedSessionsRaced` |
| `LoginGuard` | 2 attempts, threshold 2, 1 crash | `GuessesBounded`: how far parallel guesses exceed the threshold |
| `TwoFactor` | 3 secrets, 2 requests | `LoginAsksForProvedSecret` |
| `Catalog` | 2 products with one slug, 1 customer, 2 requests | `IssuedWhileOffered`, `WithdrawnStaysWithdrawn` |
| `Startup` | 2 replicas, 1 `keys init` | `ReadyToServe`, `OneKeyPerPurpose` |
| `KeyCustody` | 3 roles, 2 KEKs and a malformed one, 2 edits | `ServingRolesSign` |
| `SchemaMigrations` | 3 licences | `DowngradesAreReversible` |
| `DeploymentIdentity` | 2 processes, 3 starts, 1 change of the host | `HostRecognised`, `RefusedOnlyIfIdLost` |
| `SyncBridge` | 2 requests, a pool of 1 | `SessionEndsWithRequest` |
| `EmailFailover` | 3 messages, threshold 2 | `FailuresBounded`: how far overlapping sends count past the threshold |

The initial state of `MCServices`, `MCClients` and `MCLiveness` picks the part that
moves; the others stay at a fixed initial state. The parts share no variable, so a
property of one cannot depend on a step of another, and the state space is their sum and
not their product. The parts online and moved of `Clients`, and those of
`SeatLifecycle`, are of one module and differ in what may happen: the third request and
row, `Third` and `Spare`, are at rest in the lifecycle, and only activations move in the
race. Two variables that nothing reads are left out of the fingerprint of states: the
clone alert of a full licence (`VIEW AlertAside`) and, in `Clients`, the verdict of the
client's last call (`VIEW VerdictAside`; the properties of that run look at the verdict
a step ends with). In the part moved the licence stays, as `HeldTokenRenewable` says
nothing of one that ended. In `Clients` a token and a generation are the same model
values, and so are a request and a process of the product: they never meet, and one
small symmetry group serves both parts.

Eight more runs check what a document or comment says and the code does not do;
each ends in a counterexample, explained under "findings" in `PROJECT.json`:

| Run | Statement | What happens |
|---|---|---|
| `SeatLimit` | `SeatLimitHolds`: the lock prevents more seats than sold | the lock is freed before the commit; two hosts take one seat |
| `InstallLock` | `InstallLockHolds`: another install_id is refused | both find the field empty and back-fill it |
| `RejectionStands` | a rejection never rides the grace window | the lease stays cached; the next network failure unlocks |
| `RenewalHeartbeat` | a renewal is a heartbeat | `validate` has no commit; the reaper kills a renewing deployment, and its token is refused from then on |
| `OutageRidesGrace` | no authoritative answer rides the grace window | read timeouts, dropped connections and error pages raise |
| `RefusalStands` | a product that imported the list is locked, and stays so | a check without a list unlocks it; the state file has the version, not the refusal |
| `StampNamesItsList` | a stamped revocation is in the list of that version | one committed between the two SELECTs is stamped and not listed |
| `BreakerCloses` | a later success on the primary closes the e-mail breaker | an open breaker never tries the primary again |

`SeatOvershootBounded` is the counterpart of `SeatLimit`: because a flush of an
INSERT also flushes the licence row, its row lock lets at most one uncommitted
insertion exist, so the excess is one seat however many requests compete.
`UnlockedEnds` is the counterpart of `RejectionStands`: whatever the client rides,
no call unlocks later than request lifetime + TTL + grace after the end.

`ListedAfterStamp` is that of `StampNamesItsList`: every list begun after the stamp was
committed names the revocation. `RefusalLasts` is that of `RefusalStands`: besides a
check without a list, only a newer list that was begun before the refusing one was
committed takes a refusal back, and no check takes the recorded version back.
`FailuresBounded` is that of `BreakerCloses`: the primary is not tried without end.

The missing commit of `validate` also touches `Project-design/design/04-services.md:98`, by
which the edge falls back to the database when Redis fails, without locking a customer:
the token of a renewal has no leases row to fall back to. `HeldTokenRenewable` therefore
promises the survival of a loss of Redis for the tokens of `activate` only.

What the properties excuse, because the code does not exclude it:

| Variable | Property | Excused |
|---|---|---|
| `crossed` | `SuperAdminRemains` | two super admins who demote, disable or delete each other at the same time: none is left |
| `raced` | `GlobalLogout`, `UnindexedSessionsRaced` | `get` writes a session back that was deleted after it was read; a login that verified before the change stores its session after it |
| `raced` | `LookupUnambiguous` | addresses for which two requests raced |
| `unguarded` | `OneKeyPerPurpose` | two processes that create the same key while one of them does not insert the super admin: `forge keys init`, or two replicas that both find the admin there and the keys missing |
| `replaced` | `LoginAsksForProvedSecret` | a setup that overwrites a secret already in use |
| `rekeyed` | `ServingRolesSign` | a KEK that is changed after keys were sealed with another |
| `unclosed` | `SessionEndsWithRequest` | the connection of a request cancelled a second time while its close was queued |
| `lost` | `RefusedOnlyIfIdLost` | a lost install_id file, and two first starts that each make an id up |
| `overtaken` | `RefusalLasts`, `ExpiryLasts` | a save of the state file by a process that loaded it before another's save |
| `crossed` | `HeldTokenRenewable` | an activation of the product's former identity, still under way at its restart, that takes the binding back |

`ListsGrow` compares a list with those that were committed before it was begun: a
generation that began earlier can commit the higher version with fewer ids. That a
reaper marks a binding dead whose heartbeat was renewed after it was selected is a step of
`SeatControl` and of the abstract pool; no property forbids it.

Each property of a passing run has a mutant: a variant of one operator, defined
beside it and marked "Faulty variant", under which TLC finds the property violated.

### Bounds and why they suffice

* Three requests are the least that could overshoot a one-seat licence by two;
  two are enough for every pairwise interleaving of the lifecycle. As many
  rows as hosts can occupy; slots are reused after a hard delete only.
* A one-seat licence makes each seat decision a boundary case.
* Two fingerprints, one uid, a shared signal vector: a host, the same host after
  drift, a cluster member on the same machine, that is every pair of tiers.
* In `LeaseRenewal` TTL and grace are one unit each and the clock runs to the bound
  that `UnlockedEnds` names: request lifetime + TTL + grace after the term's end at 2 is
  5. Two tokens are one activation and one rotation, or two activations, which is what
  a host that moves needs. When tokens run out the edge can mint no more; the run then
  explores expiry, rejection and the end of grace without new mints. `LeaseRenewalProofs`
  has the safety properties for any number of tokens.
* A race in the admin API, in Redis or between replicas is between two; a third
  actor adds a window of the same kind. The addresses take three persons because two
  may have held an address before the third, and an email breaker of threshold two needs a
  third send to arrive while it opens. Two KEKs are the right one and another.
* Two bundles are the least that an old list can be confused with a new one; the
  part of `CrlPublication` alone has three, two generations and two licences, and the
  theorems hold for any number.
* `Term = "1m"` with a clock of 0 to 2 and a skew of one is before, at and after the
  end of the term; `MaxAge = 1` makes lists that are too old. The first list is dated at 0
  and the second at 0 or at the bound; `OfflineRevocationProofs` has any dates.
* One reaper runs in each instance; that several may overlap is covered by the theorems
  of `SeatControlProofs`, whose set of reapers is any.
* `PartialIndex = TRUE` in `Services` is PostgreSQL, where the unique indexes leave out
  deleted rows; elsewhere they include them and more is refused.
* Symmetry is used in safety runs only: requests, rows and tokens are never compared
  except for equality.
* Deadlock is not checked: a licence that is deleted, and a clock at its bound, stop.

### Fairness

`SeatControl`: every step of a request that reached the server is weakly fair
(asyncio runs what is ready; PostgreSQL grants a row lock that is free), and so is
the expiry of an orphaned key. New requests, crashes, the worker and the
administrator are not fair. `LeaseRenewal`: the client calls revalidate again and
each call ends (it has a timeout), the edge serves or fails what it received,
and time passes. Time is strongly fair because a tick waits for requests that are
at the end of their life and these come and go; no successful answer is ever
assumed, so `LockedForGood` also holds for a product that never hears from the
edge again. In `Liveness` the part that does not move starts where none of its fair actions
is enabled (no request is under way, no lock is held, no token to renew), but for the
clock, whose fairness is asked for in its own part only. `BreakerCloses` is refuted under
`FairSpec` of `EmailFailover`, in which messages go on being sent and every send ends.
The other modules state safety only: what they promise is about races, and
their requests end whether or not anybody waits for them.

## 4. What is proved

`SeatControlProofs` proves, for any number of requests, reapers, rows, identities
and seats:

| Theorem | Statement |
|---|---|
| `SlowTypeCorrect`, `TypeCorrect` | `[]TypeOK`, under `SlowSpec` and `Spec` |
| `SeatMutexHolds` | `Spec => []SeatMutex` |
| `SeatOvershootBoundedHolds` | `Spec => []SeatOvershootBounded` |
| `RevokedRefusedHolds` | `SlowSpec => []RevokedRefused` |
| `HostHoldsOneSeatHolds` | `SlowSpec => []HostHoldsOneSeat` |
| `SeatUsedWithinRowsHolds` | `SlowSpec => []SeatUsedWithinRows` |
| `ClusterIdentityIsKept` | `SlowSpec => ClusterIdentityHolds` |
| `SeatsArePooled` | `Spec => PoolSpec`, the refinement of `SeatPool` |

Assumptions: `None` is no request, row, fingerprint, uid or install_id; `Slot` is
finite; the seat limit is a positive natural number; requests are identity
records; legacy rows are active rows without a heartbeat.

None of the invariants is inductive alone:

* `LockInv`: a request in the section is the holder. `SeatMutex` follows. It needs
  `SeatLockLapses`'s guard, so it is a theorem of `Spec` only.
* `RevInv`: a request may have a plan only if it passed the checks (`PlanInv`), a
  deleted licence has no rows and no uncommitted write (`DeletedInv`), and a late
  request gets past `_check_revoked` only if the licence was deleted (`LateInv`). The
  interesting case is a licence that is deleted after it was revoked: the revocation is
  unlinked, `_check_revoked` finds nothing, and what refuses the request is that the
  binding it would write no longer has a licence.
* `CountInv`: how many rows are active, plus the insertions that are decided but
  uncommitted (`Pending`), against the limit: `Admitted` bounds the decided one under
  the lock, `Occupied` the flushed one by the row lock. At most one of each exists,
  which gives the bound `SeatLimit + 1`. `SeatsArePooled` rests on it as well: a flush
  books a seat, since no other is booked and no more than `SeatLimit` are taken; a
  commit takes what was booked; the commit of a matched binding takes nothing, because
  its UPDATE leaves `status` as the reaper made it. What an abstract step does for each
  concrete one is a lemma (`FlushInPool`, `CommitInPool`, `FinishInPool`,
  `PoolGivesBack`).
* `FpInv`: committed rows and the rows flushed by uncommitted sessions have pairwise
  distinct fingerprints; this is what a unique index with waiting guarantees.
* `UidInv`: while a licence exists, the row that a reusing request has matched is there
  and carries the uid the request presented. A uid is written once, and a row comes back
  under another identity only after the licence was deleted; the commit then fails.
* `WithinInv`: `seatUsed` and every session's copy stay within the number of rows; the
  row lock on the licence keeps a stale `seat_used + 1` from passing the row count.

`CrlPublicationProofs` proves, for any licences, any number of overlapping
generations and any bound on the bundles (a natural number, the only assumption):

| Theorem | Statement |
|---|---|
| `CrlTypes` | `CrlSpec => []CrlTypeOK` |
| `CrlVersionsInOrder` | `CrlSpec => []VersionsInOrder` |
| `CrlListsGrow` | `CrlSpec => []ListsGrow` |
| `CrlListedAfterStamp` | `CrlSpec => []ListedAfterStamp` |
| `CrlImplementsLedger` | `CrlSpec => LedgerSpec`, the refinement of `RevocationLedger` |

The inductive invariant `CrlInv` has, besides the types and the order of the versions
(without which `LatestVersion` need not be the number of bundles):

* `OneInFlight`: a signed draft never skips a version; a flushed one is the next, and
  there is one at most. The waiting INSERT and the unique constraint are what this
  rests on.
* `NamesRevoked`: whoever is listed, drafted or stamped is in the log; a draft holds a
  prefix of the log, which is the witness for the ledger's `Publish`; a logged licence
  is revoked or deleted for good, so it is not logged twice (the ledger's `Revoke`).
* `Covers`: a draft holds every list and every stamped licence that was there when it
  was begun. Stamps are written with the bundle they number, after every open draft
  was begun, so a stamp cannot be ahead of a list that covers it, although
  the ids to stamp are read after the ids to list.

`LeaseRenewalProofs` proves, for any requests and tokens, any TTL, grace, window and
life of a request, any identities and any bounds of the clock:

| Theorem | Statement |
|---|---|
| `BarredGetsNoLeaseHolds` | `Spec => []BarredGetsNoLease` |
| `HeldTokenRenewableHolds` | `Spec => []HeldTokenRenewable` |
| `UnlockedEndsHolds` | `Spec => UnlockedEnds` |

Assumptions: `None` is no token, request or time; TTL is positive and the other
durations are naturals; the end of the term is a natural or `None`; every identity has a
fingerprint. The inductive invariant `LeaseInv` is made of

* `BarredStays`: what bars a request when it arrives does not go away while it is
  served, and keeps it from the window check.
* `MintedInTime`: a request that is not barred arrived before the end and lives no
  longer than `Serve`, so no lease is minted later than that; with TTL and grace added
  this is the bound of `UnlockedEnds`.
* `TokensMinted`: what is granted, held or presented was minted; and
  `CachedWhileGraced`: Redis has what was minted until its grace is over, unless it lost
  its keys.
* `OwnBinding`: the binding of a token that the product holds or is about to be handed
  serves it under the product's identity (`Serves`), unless it was reaped, when its
  heartbeat had left the window and its fingerprint cannot be activated again, or the
  licence was deleted; and only activations of the product's own identity can still
  commit, unless one of another was under way when it started (`crossed`). With the item
  before it gives `HeldTokenRenewable`: the token is known, its binding active,
  fingerprint and install_id agree.

`OfflineRevocationProofs` proves, for any licences, any number of processes that share
the state file, any times and every term:

| Theorem | Statement |
|---|---|
| `ServerIsCrlPublication` | `OfflineSpec => CrlSpec`, the theorems about it hold of the composition |
| `RefusalLastsHolds` | `OfflineSpec => RefusalLasts` |
| `ExpiryLastsHolds` | `OfflineSpec => ExpiryLasts` |

Assumptions: the licence held is an offline one, times are naturals, the term is one of
those the server issues. `OfflineInv` is `CrlInv`, the types, `FileRemembers` (the file
is dated no earlier than the list it names, and names none older than the one that
refused) and `CheckFollowsFile` (a check in progress is no older than the file it
read, unless another process has replaced the file since). A refusal is taken back by a
check without a list, which knows of no revocation, or by a list that does not name the
licence: such a list is newer, since no check takes an older one than the file has, and by
`CrlInv` it was begun before the refusing one was committed.

The other three proof modules are about the parts that `MCServices` instantiates, each
over its own variables. A theorem is about the part's own specification (`Acc!Spec =>
[]SuperAdminRemains`, and so on), and three more say that the run obeys each of
them: `ServicesRunOperators`, `ServicesRunRequests` and `ServicesRunDeployment` prove
that `MCServices!Spec` implies the specification of every part, `CrlSpec` included.
They hold for any number of operators, requests, replicas, processes, messages and so
on; the bounds of the run are constants of any value. Assumptions, stated in
`MCServices`: the null value `None` is none of the other values it is compared with;
products are not customers and `keys init` is not a replica; attempts are finitely
many; and the lock threshold is positive (a threshold below one locks at the first
wrong password, as one does, but the bound `GuessesBounded` counts from it).

`OperatorsProofs`:

| Theorem | Statement | Inductive invariant |
|---|---|---|
| `LoginAsksForProvedSecretHolds` | `Factor!Spec => []LoginAsksForProvedSecret` | `FactorInv`: until a setup replaces a secret under verification, the stored one is what every verification read |
| `GuessesBoundedHolds` | `Log!Spec => []GuessesBounded` | `LoginInv`: a guess is in the counter, or with a request that has not counted it, or its record died; after the lock every request past the check has one left |
| `LookupUnambiguousHolds` | `Mail!Spec => []LookupUnambiguous` | `EmailInv`: an address nobody raced for has one row, and who found it free finds it so |
| `SuperAdminRemainsHolds` | `Acc!Spec => []SuperAdminRemains` | `AccountInv`: whoever is about to commit a removal leaves another super admin |
| `GlobalLogoutHolds`, `UnindexedSessionsRacedHolds` | `Ses!Spec => []GlobalLogout`, `[]UnindexedSessionsRaced` | `SessionInv`: the two together, and `LoginsNotDue`, that a login past its password check stores nothing a global logout is done with, but by a race |

`ServicesProofs`:

| Theorem | Statement | Inductive invariant |
|---|---|---|
| `IssuedWhileOfferedHolds` | `Cat!Spec => []IssuedWhileOffered` | `CatalogInv`: what an issue resolved was on offer since it began |
| `WithdrawnStaysWithdrawnHolds` | `Cat!Spec => WithdrawnStaysWithdrawn` | the same: `CreatesAlone`, that a row under creation is nobody else's and absent, and `CustomersActive` |
| `SessionEndsWithRequestHolds` | `Bridge!Spec => []SessionEndsWithRequest` | `BridgeInv`: `ThreadFollows`, what queue, thread and connection can be at each place of the handler |
| `FailuresBoundedHolds` | `Send!Spec => []FailuresBounded` | `SendInv`: only the failover service has a counter; no send is under way before there is a service; and `FailuresLeft`: the failures counted and the sends at the primary that may still fail are, together, fewer than the threshold plus the messages |

`DeploymentProofs`:

| Theorem | Statement | Inductive invariant |
|---|---|---|
| `ReadyToServeHolds`, `OneKeyPerPurposeHolds` | `Up!Spec => []ReadyToServe`, `[]OneKeyPerPurpose` | `StartupInv`: `StartedSoFar`, what a process has behind it; `CreatorInserts` and `KeysGuarded`, that of those who insert the super admin one is past the insert, and what it found missing stays missing until it commits |
| `ServingRolesSignHolds` | `Custody!Spec => []ServingRolesSign` | `CustodyInv`: the file opens what was sealed with it unless it was rekeyed; the edge runs with a KEK of its own |
| `RefusedOnlyIfIdLostHolds` | `Dep!Spec => []RefusedOnlyIfIdLost` | `DeploymentInv`: `OneInstallId`, one id in the file, at the server and in every process, and nobody has any while one is made |
| `HostRecognisedHolds` | `Dep!Spec => []HostRecognised` | the same: `SameMachine`, what a machine keeps, and `PresentsHost`, that a running process presents the host it started on (`origin`). What that host still has in common with the one now is `Kept`; what is kept gives the same uid, the same fingerprint (machine-id, or name and card without one) or two signals (the board, card and processors), each enough for a tier |
| `DowngradesAreReversibleHolds` | `Mig!Spec => []DowngradesAreReversible` | `MigrationInv`: the database is as its revision leaves it (`SoundAt`), each upgrade takes a sound one to a sound one and keeps what is listed |

A command of `SchemaMigrations` runs a recursive function over the revisions, at most six
steps deep. No induction is needed: `UpgradeSound` and `DowngradeSound` write the
function out. `MigratedDatabase` takes table names from `Schema(6)` rather than from
STRING, since the provers do not know that a string literal is in STRING.

With these every invariant and action property of a passing run is stated by a
theorem. Only model-checked are the three liveness properties (`EveryRequestAnswered`,
`SeatLockComesFree`, `LockedForGood`), since fairness and ENABLED are outside the
prover's reach, and the statements that the findings refute.

## 5. What is not modelled, and the plan

Not modelled, for good:

* Cryptography: a signature is taken to be unforgeable and a sealed key to open with
  its KEK only.
* Object storage, search and cache adapters and the URLs of the database dialects: one
  call each to a vendor's client, without state or retry.
* The admin UI, charts, images and volumes: views and descriptions.
* Audit rows (written, read by a list view only), settings (a view of the
  environment), license texts and e-mail bodies. A clone alert is written by `activate`
  (`alerted` in `SeatControl`); the handler that marks it resolved changes that row
  and nothing reads it but the list.
* The reset tokens of `auth_service.py`: no handler calls them.
* MySQL's and other databases' migrations: revision 000006 uses UPDATE ... FROM, which is
  PostgreSQL's, and MySQL commits each DDL statement by itself, so that the single
  transaction of `SchemaMigrations` is PostgreSQL's as well.
* Row-lock cycles inside PostgreSQL between the cascade of a hard delete and an
  activation.
* The node and Go clients, but for the differences named above.

Left for later:

1. Activation against a licence that has several seats and several clusters, and two
   requests of one cluster with different fingerprints (`edge.py:121`).
2. A single pool per licence across `SeatControl` and `LeaseRenewal`, so that the end of a
   seat is the end of its lease.
