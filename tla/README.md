# A verification project for ghp

ghp is a proxy in front of GitHub. It hands out its own tokens (`ghx_` to users, `gha_` to agents), resolves each
proxied request's token to a GitHub credential, enforces the token's repositories and scopes, and
caches git fetches. Several ghp processes ("instances") can share one database; each keeps caches
of its own. This directory holds TLA+ models of the parts of ghp whose correctness depends on what
runs in between or on tables too large to test, the TLC configurations that check them on small
instances, and theorems that TLAPS proves about ten of them for every size.

Paths below are relative to the repository root.

## 1. Inventory

| Component | State | Operations | What is hard | What makes it correct | Module |
|---|---|---|---|---|---|
| Proxy token service (`internal/token/token.go`) | `tokenCache` (hash → row copy, time), `idToHash`, both lock-free, per instance | Create, Resolve, Revoke, InvalidateByID, cacheToken, WarmTokenCache | fills race with invalidations; two maps updated one after the other; other instances are not told | what is granted is true and recent; Revoke finds what is cached | `TokenService` |
| Token cleanup (`internal/token/cleanup.go`) | none | one cycle deletes rows revoked or expired before the cutoff | rows vanish under running requests | nothing is granted that was purged | `TokenService` |
| CLI device authorization (`internal/auth/device.go`) | rows of `cli_device_authorizations` | start, poll, decision, purge | handlers read a row, decide, and write all of it back | only an approved CLI gets a session, of the user who approved; requests end | `DeviceAuth` |
| OAuth login, broker, sessions, roles (`internal/auth/auth.go`, `broker.go`) | `oauth_states`, `sessions` with a role snapshot, `users.role` | authorize, callback, logout, cleanup, SyncAdminRoles | duplicate callbacks, failures half-way, reloads in between | a state is used once and by its own flow; roles follow the configuration | `Login` |
| SQL stores (`internal/database/sqlite.go`, `postgres.go`) | tables | single statements; two transactions | – | statements are atomic | within the others |
| Vault store (`internal/database/vault.go`) | KV v2 records and hand-kept indexes | read-modify-write without locks; create with check-and-set | lost updates, resurrection, partial index updates | indexes name records; a reported change stays | `VaultStore`, `AppRegistry` |
| App registry (`internal/github/registry.go`) | providers, defaultID, under a RWMutex | LoadAll, Reload, Get, GetDefault | listing before locking; several defaults | serves what the store holds | `AppRegistry` |
| GitHub credentials (`internal/proxy/proxy.go`, `resolver.go`, `internal/github/app.go`) | `github_tokens` rows, `credCache`, installation token cache | refresh and persist, resolve, mint | refresh tokens are single use; caches outlive what they hold | the stored pair stays usable; nothing expired is sent | `GitHubCredentials` |
| Proxy requests and scopes (`proxy.go`, `scope.go`, `graphql.go`, `passthrough.go`, `releases.go`, `codeload.go`) | none beyond a request; a cached redirect base | classify, resolve, check, mint, forward | a long table of rules whose order matters; fragments; token and configuration change meanwhile | what is forwarded was granted, what is denied was not | `RestScope`, `GraphQLScope`, `ProxyRequest` |
| Enterprise restriction (`enterprise.go`) and user names (`username.go`) | exceptions, membership and name caches with single flight | Apply, evaluate, isMember, resolve | shared lookups that fail or are cancelled; rules that shadow others | the header is omitted only for members; waiters wake up | `EnterpriseAccess` |
| Git response cache (`internal/gitcache`) | response files, registry, settings | lookup, ls-refs, fetch, cleanup, administration | eviction and deletion under readers; crashes while writing | whole answers, to those who may read, within the limit | `GitCache` |
| Configuration (`internal/config`) | one struct, overwritten on SIGUSR1 | ReloadFrom | some fields are read without the lock | a policy that was in force is applied | `ProxyRequest`, `Login` |
| Migrations and start-up (`internal/database/migrate.go`, `server.go`, `cmd/ghp/migrate.go`) | `schema_migrations`, the schema, the first row of `apps`; the provider chosen for the proxy | Migrate, the check for pending migrations, seed, backfill, load, wire | several processes of different versions start at once, fail, are killed and started again | each migration runs once and in order; one default app; no token names an app that is gone; a start ends in service | `Startup` |
| Rate limiter, listeners, TLS, crypto, logs, metrics, web, CLI | – | – | – | – | none, see section 8 |

The instances meet in the store only. Within one, a request passes the git cache (for git), the release
policy, the border policy, token resolution, the scope checks, credential resolution, the enterprise
restriction, and is forwarded; the admin API and the login handlers change the store and call the token
service and the registry.

## 2. Structure and plan

`TokenAuthority` is the abstract specification that `TokenService` (over `TokenStore`) implements.
`ProxyRequest` extends `GraphQLScope`, which extends `RestScope`. The others stand alone: they share
tables, not steps. `MC*` modules give constants their values for TLC.

The order was: the token service, on which every request depends; the device flow and the app registry;
then the credentials, the scope checks with the requests around them, the restriction, the Vault store, the
login and the git cache; then the start-up of several processes.

Left of the plan: the role sync on Vault; the signals, that is,
that a reload asked for while another runs is not forgotten, and what a shutdown leaves undone.

## 3. Modules

### TokenStore

`proxy_tokens` and the clock. `rec[t]` is the row of token t, `stored` the set of rows, `issued` the
tokens ever created. Each operation is one SQL statement and therefore one step; a component conjoins
it with what it does to its own variables. `rec` keeps the last content of a deleted row and `endedAt`
the time each version of a token's scopes was replaced: both are history, read only by properties.

A token's id, hash and plaintext are one name. Repositories and scopes together are a version number,
which each update increments; the JSON in them matters to nobody here.

### TokenService

One record per goroutine says how far it is. The code is cut where shared state is touched:

| Code | Actions |
|---|---|
| `Resolve` | `ResolveStart` (reads the time), `ResolveLookup` (`tokenCache.Load` and the tests on the entry), `ResolveEvict` (`tokenCache.Delete`), `ResolveRead` (store and the tests on the row), `ResolveStore` and `ResolveIndex` (the two halves of `cacheToken`), `ResolveDone` |
| `handleRevokeToken` + `Revoke`, `handleUpdateTokenScopes` + `InvalidateByID` | `CallStart` (reads the row: 404, 409), `CallRevoke` / `CallUpdate` / `CallError` (the statement), `CallFind` (`idToHash.LoadAndDelete`), `CallEvict` (`tokenCache.Delete`) |
| `WarmTokenCache` at start-up | `BootList`, `BootCache` for each row, `BootServe`; nothing is served before it ends (`server.go:289`) |
| `Create`, `runCleanupCycle` | `Create`, `Cleanup` |
| a process dies | `Crash`: its maps and goroutines are gone, the store stays |

Time advances in `Time`. The code puts no bound on how long a fill may be delayed between the arrival
of its request and its write to the cache; without one nothing can be said about how stale an entry
is, so the bound is the parameter `MaxFlight`: time does not pass while a fill is due. Everything
about staleness is stated in terms of `TTL + MaxFlight`. In production TTL is 30 s and MaxFlight is
the latency of one store query.

`settled` and `raced` are history: tokens whose `Revoke` has returned on an instance, and tokens that
were revoked on it while one of its Resolve calls was between reading the row and caching it.

### TokenAuthority

What the proxy relies on, without any cache: a request asks, and is granted a version of the scopes
that was valid at some instant at most `Staleness` before it arrived, or is refused because the token
cannot be used, or fails. `TokenService` refines it with `Staleness <- TTL + MaxFlight` and
`ask <- Asked(r)`.

### TokenServiceProofs

Section 6.

### DeviceAuth

A code names a row; `row[c]` is `None` when there is none. `PollRead` is the read of the row and all
decisions of `handleDevicePoll`; `PollWrite` writes the copy back with the poll time (`UpdateDeviceAuth`
writes every column); `PollDelete` removes a decided row; the answer is then `poll[p].ans`.
`DecideRead`, `DecideDeny`, `DecideMint` (`createSession`), `DecideApprove` and `DecideUndo`
(`deleteSession`) are the statements of `handleDeviceDecision`. Every statement may fail. A request
may be abandoned between any two statements (`PollEnd`, `DecideEnd`): its instance dies or its client
goes away. Instances keep no state of their own here, so a request is simply a process.

### AppRegistry

`rows[a]` is a record of the apps table, or `None`. Of a record the model keeps the private key, which
stands for everything a provider is built from, and `is_default`; ids are numbered in the order of
`created_at`, by which the registry sorts. `providers`, `defaultID` and `wired` (the provider that `Run`
gave to the proxy) are the instance. `backend` and `config` are chosen in `Init` and never change.

| Code | Actions |
|---|---|
| `seedDefaultApp`, `LoadAll` and the choice that follows it in `Run` | `Seed`, `LoadAll` (nothing else runs yet, so each is one step); either may fail, which is only logged |
| `handleCreateApp` | `Create` (the insert), then promotion if the body asks for it, then Reload |
| `handleUpdateApp` | `UpdateRead` (`GetAppByID` and the merge of the body), `SqlUpdate`, or `VaultUpdateCheck` and `VaultUpdateWrite`; promotion if the record written has the flag; Reload |
| `handleDeleteApp` | `DeleteStart`, `SqlDelete`, or `VaultDeleteCheck` and `VaultDelete`; Reload |
| `SetDefaultApp` | `SqlPromote` (one transaction), or `VaultPromoteRead`, `VaultPromoteSet`, the listing, and `VaultClear` for each other default |
| `ListApps` | `SqlList`, or `VaultList` (the keys) and `VaultGet` for each key |
| `Reload` after its listing | `Apply`, under the lock |
| any store call fails, or finds no record | `GiveUp` |

The unique index `apps_single_default` is `Conflict`. Two history variables serve the properties:
`req[r].alone` (this request has met no other) and `settled` (the last thing that happened was a
start-up, or such a request, that ran to its end).

`Default(rows)` may hold two apps on Vault and the registry may lag behind the table while requests
overlap or after one has failed: the properties say what holds nevertheless. `QuietReloadIsCurrent` is
the one an operator relies on: whatever happened before, one undisturbed request makes the registry
right again. `DefaultIsNotLost` is the reason why Vault's `SetDefaultApp` sets before it clears.

### AppRegistryProofs

Section 6.

### RestScope

The rule table of `scope.go`, in five groups, in the order of the code: `Rules`, of which `EndpointScope`
takes the first that matches. A path is a sequence of segments, with `owner/name` as one of them, `7` for a
number and `x` for any other; a pattern is a sequence of sets of segments, and one with `rest` matches
longer paths too. `GitSmartHTTPScope` is the counterpart for git, `HasPermission` the comparison of levels.

### GraphQLScope

The analysis of a document: its operations, its fragments, fields with the repository their arguments name.
`Walk` is `walkSelectionSet`, level by level instead of depth first, as its findings are sets: a place is a
selection with its context (root or nested, query or mutation) and the fragments it is inside of; `Below` gives
the places one level deeper, `Within` those inside a fragment, `PlaceMarks` what a place adds. A document that
goes deeper than `MaxDepth`, or has no operation to choose, is not `Analysable`. All names of the code's field
tables are there, grouped by the permission they ask for. There is no recursive operator, so that
the modules above can be reasoned about.

### ProxyRequest

A handler goes through `Arrive`, the release policy (`ReadMode`, `ApplyReleasePolicy`), `Border`, `Resolve`,
`Check`, `Mint` (REST and GraphQL) or `ResolveAgain` (git and web), `Forward`; or, for codeload,
`ReadArchiveBase`, `ResolveArchiveBase`, `AnswerArchive`. Each step reads shared state once: the token's row,
a configuration value, the cached base. `ChangeToken` is an update or a revocation as the token service shows
it; `BeginReload` and `EndReload` enclose the time for which `ReloadFrom` holds its lock: methods of the
configuration wait for it, code that reads a field may see either value, and of a string a mixture
(`Modes`). A body that is no document is `unreadable` or `too large`. Requests say what they do at GitHub
(`needs`, `touches`), which only the properties read; `MCProxyRequest` writes that down from what the endpoint
does, or from what is left of a document when all fragments are written out (`Chains`), not from the rules. Among the
requests are endpoints without a rule and web pages, which go on unchecked. `GrantsKnown` is therefore what
`ForwardedWasGranted` claims: the repositories when the path or the document is about one (`AboutRepo`),
the permissions when a rule asks for one (`HasRule`), and otherwise a live token; `Grants`, all of it, is what
`DeniedWasNotGranted` and the user guide (section 5) are about.
`stage`, `request` and the names with `Proxy` are this module's `pc`, `req`, `Init`, `Next` and so on: `ProxyProofs`
extends it together with `EnterpriseAccess`.

### EnterpriseAccess

`Naming`, `Usable` and `Compiled` are `NewEnterprisePolicy`: which configured exceptions remain, by the names they are found under; `Matching` and `Exception` are the look-up. A
request goes through `Start` (which may begin the lookup of the user in the background), `Match`, `Gate` and
`Lift`. The two questions, who the caller is and whether the caller is in a team, are answered by the same
protocol: `Lookup` (the cache), `Join` (the flight of another goroutine, or an own one), `Ask` (GitHub),
`Store` (the cache, then the close of the flight), `Delete` (from the map), and `Wake` and `Cancel` for the
waiters. The cache and the close are one step: what can be seen between them is a hit for newcomers, which
is what the step after the close shows them too. All requests carry one user's credential; entries of other
users are other keys.

### ProxyProofs

The theorems about `ProxyRequest` and `EnterpriseAccess`.

Section 6.

### GitHubCredentials

A pair of access and refresh token is named by its authorization and its generation; it is `Superseded`
when GitHub has handed out the next. `Read`, `Rotated` or `NotRotated` and `Persist` are
`getProxyGitHubToken` with the refresh; `Exchange` and `Login` the callback; `Lookup`, `ReadRow`, `Store` the
resolver; `Cached`, `Mint`, `Keep` the installation tokens. GitHub's answer may be lost after it took
effect, and the write to the database may fail (`lost`).

### GitHubCredentialsProofs

Section 6.

### VaultStore

Vault offers single-key calls, so a Store method, with the handler around it, is a *program* of such calls.
`Program` gives the sequence, `Stops` the early returns, `Value` what is written; `Reads`, `Puts`, `Creates`
and `Drops` make the calls, `Fails` and `Crash` end a program anywhere, except that the code ignores the
failure of some calls (`Try`, `Glance`). `clobbered` collects the keys that were written from a copy that was
no longer current: the properties say what holds but for such writes. Identifiers are random and unique in
the code, and a client can name a record only once its creation was answered. What an operation does depends on
its name and identifier only; `With` writes one key and leaves the others.

### StoreProofs

The theorems about `DeviceAuth` and `VaultStore`, section 6.

### Login

`Callback` consumes the state (`DELETE ... RETURNING`), `Identify` asks GitHub and the configuration,
`UpsertUser`, `UpsertGitHubToken` and `CreateSession` are the statements that follow; each may fail
(`Fail`), and what was done before stays. `ReloadFrom` and `SyncAdminRoles` are the two halves of
`reloadConfig`; `Restart` begins anew with a configuration of its own. Hosts are sequences of labels, for
the wildcard patterns of `allowed_redirects`. `lastAdmin` and `raced` are history.

### LoginProofs

Section 6.

### GitCache

`Arrive` is the middleware, `Get` the registry. A handler takes the commands of a request one by one:
`HandleLsRefs` goes to GitHub; a fetch is refused (`Refuse`) or is `OpenResponse`, `Touch`, `Send` when there
is a file, and `Ask`, `CreateTemp`, `Stream`, `Rename` when there is none. A cycle of the cleanup is
`BeginCycle`, `Scan` of a repository (one step), `Evict` of one file at a time and `EndRepo`. Administrators
create (`CreateCachedRepo`), change (`BeginUpdate`, `UpdateCachedRepo`) and delete (`DeleteCachedRepo`)
settings; `ChangeAccess` is GitHub.

`Touch` marks a file that was hit, by name and with a time that was read since the file was opened: it may fail,
it may set back what another hit has written meanwhile, and it may meet a newer file of that name. `Scan` may
miss any of the files (`entry.Info` fails), which are then neither counted nor removed. As history a file carries when
it was last `used`: when it was written, or the time of a later hit. What is no use in this sense are
hits that could not mark the file, and those during which another handler was between opening the same file and
marking it (`Alone`); for them the code keeps no order, and `EvictsTheLeastRecent` claims none.

### GitCacheProofs

Section 6.

### Startup

Several processes on one SQL store, each a record with its place (`pc`) in `Run` or in `ghp migrate`. `mode`
says how it is started: `serve`, `serve --migrate` or the command.

| Code | Actions |
|---|---|
| systemd or an operator starts a process, possibly a newer binary | `Start`; `Exit` ends it, `Stop` kills it anywhere |
| `Migrate`, `runMigrations` | `EnsureTable`, `ReadPending`, `RunMigration` (one transaction: the script and its row) for each, `Migrated` |
| `Run` without `--migrate` | `CheckPending` |
| `seedDefaultApp`, `backfillTokenAppID` | `SeedList`, `SeedCreate`, `ListTokens`, `BackfillToken` for each token in any order, `Backfilled` |
| `LoadAll`, the choice of the provider and of the legacy one | `Load` |
| any call of the store fails | `Fault`: fatal while migrating, logged elsewhere |
| `handleCreateApp`, `handleDeleteApp` and the reload that ends them, `handleCreateToken`, the cleanup | `CreateApp`, `DeleteApp`, `Reload`, `CreateToken`, `Purge` |

`ledger` is `schema_migrations`, `schema` the scripts executed, in the order of their commits, which is history:
the properties compare the two. Only `AppsFile`, which creates `apps` and `proxy_tokens.app_id`, has an effect
that later steps look at. Requests that change apps overlap in `AppRegistry`, not here; here a process has one
at a time, and the others are not told. A process also carries two pieces of history: whether it read what is
pending (`checked`), and whether nothing failed and no app was deleted since it started (`clean`).

### StartupProofs

Section 6.

## 4. Runs

| Run | Instance | Shows |
|---|---|---|
| `token_service` | 2 instances, 1 token, 1 request, 2 calls, TTL 1, MaxFlight 1, clock 0..2, 1 scope update; while two instances run, one call at a time | `IndexCoversCache`, `RevokedLeavesCache`, `GrantsAreRecent`; `ImplementsAuthority`: the refinement, with revocations on the other instance |
| `device_auth` | 1 request, 1 poll, 2 decisions, 2 users, 2 sessions, TTL 1, interval 1, clock 0..2 | `TokensAreApproved`, `RowsAreConsistent`, `RemovedForGood`, `RequestsAreRemoved` |
| `device_approval_kept` | 1 poll, 1 decision | `ApprovalIsKept` is violated |
| `app_registry` | SQL and Vault, 2 administrators, 2 apps ever, 3 requests ever, one good and one bad key, crashes | `QuietReloadIsCurrent`, `DefaultIsNotLost`, `PromotionWins` |
| `app_promotion` | SQL, 1 administrator, 2 requests | `PromotionIsNotRefused` is violated |
| `proxy_policy` | 30 REST, git and web requests, 6 of which no rule describes, against 13 rows of a proxy or agent token, with changes; over 2000 GraphQL documents; downloads by two handlers under reloads of 4 configurations | `ForwardedWasGranted`, `DeniedWasNotGranted`, `MintedIsCurrent`, `PolicyIsCurrent` |
| `enterprise_access` | 2 requests, 1 background lookup, 2 teams, 5 exceptions, 6 targets, both TTLs 1, clock 0..2, 1 fault or change | `LiftedForMembers`, `KeptForNonMembers`, `WaitersHaveALeader` |
| `github_credentials` | 2 refreshes and a login; a refresh, a login and the resolver; a refresh and 2 resolvers; 2 agents; life 3, skew 2, cache 2, clock 0..6 | `RowIsAlive`, `HandedIsAlive`, `ResolvedIsRecent` |
| `vault_store` | 6 kinds of records, 2 callers, 1 cleaner, 1 failing call or crash | `IndexNamesRecord`, `ReportedChangesStay`, `UserCodeWorks`, `ConsumedOnce` |
| `login` | 1 user, 1 state, 2 sessions, 2 callbacks, 2 lists of admins, 3 redirect URIs, TTLs 0 and 1, clock 0..2 | `StateUsedOnce`, `FlowsStayApart`, `SessionsAreBacked`, `RolesFollowConfig`, `AdminAccessIsBounded` |
| `git_cache` | 1 repository, 2 fetches, alone and with ls-refs, 2 handlers, 1 administrator, 4 requests, limit 1 or none, 1 change, 1 crash, clock 0..2 | `ServedIsWhole`, `BundledNeedsAccess`, `EvictsTheLeastRecent`, `EnforcedLimitHolds` |
| `startup` | 2 processes, all 3 modes, 3 configurations, 3 migrations (the older binary has 2, the second creates `apps`), 3 tokens, 1 request, 1 failure (a process killed or a store call that fails), under fairness | `SchemaIsWhole`, `ServesOnItsSchema`, `TokensNameApps`, `CleanStartServes`, `BackfillIsWhole`, `MigratingServes` |

Every property is also checked to be violated when one definition of the code's model is changed in the way a
bug would change it; the changed forms stand beside the originals ("Mutant of ..."). The type invariants, and
the invariants that section 6 proves and no run lists (`CopiesAreTrue`, `RevokesProgress`, `SqlSingleDefault`,
`DefaultIsLoaded`, `SeededOnce`), hold on the same instances.

Why the bounds are enough.

- *Tokens.* They do not interact: maps and rows are per token, and no operation touches two, so one token
  shows every interleaving; the theorems cover the rest. A request and two calls make every pair of
  operations on shared maps meet, including two invalidations of one token, where the index entry is taken by one and the
  cache entry deleted by the other; with two instances one call is enough, because calls meet in the maps of one.
  Two requests do nothing to each other but fill the same entry; the theorems have any number. The clock reaches 2 with TTL 1 and MaxFlight 1: an entry read at 0 can be
  cached at 1, be used by a request that arrives at 1 and be too old for one that arrives at 2. A token can
  expire, be revoked, be purged within it.
- *Devices.* A request expires at 1 and is purged at 2. A second poll is a third copy of the same row.
- *Apps.* Two apps are what a default flag can move between; one comes from the configuration, one request
  can create the second, and two are left to overlap, to fail half-way or to follow each other. The theorems
  cover all other numbers.
- *Proxy requests.* The endpoints are picked so that every group of rules is met, and pairs whose order
  matters (branch protection below branches, secrets and workflow switches below actions) are all there. A document
  has two selections out of seventeen kinds and a fragment out of four, one of them cyclic, which puts every
  class of field at the root, under a repository, in a mutation and behind fragments; `MaxDepth` 4 is reached.
  Two changes of the row fit between the two look-ups of a git request.
- *Enterprise access.* Two requests and a background lookup give a flight a leader, a waiter and a
  newcomer; two teams make the order of questions matter; the exceptions are a broad one, a narrow one in
  front of it, one that names nothing, one whose gate is malformed, one that is plain. Entries live one unit
  of three.
- *Credentials.* What shares no state is not interleaved (`Together`). Four pairs of an authorization leave
  room for two refreshes after the one that meets them; the clock covers two lives of a token.
- *Vault.* Records of different kinds share no key. Two callers and the cleaner are three programs on one
  record, the user and repository kinds have several identifiers under one index entry. One fault can hit
  any call.
- *Login.* Two callbacks for one state, of either kind, are the race; the second session comes from a device
  approval or another login.
- *Start-up.* Two processes are a winner and a loser of each race; three migrations with two in the older
  binary let one process see a schema that is behind, equal to or ahead of its own, and let a migration be
  committed between the reading of a list and its execution. Two older tokens let the backfill stop between
  them; the third is created while it runs. One failure hits any step, be it the process or a call of the store; the request is a creation or a
  deletion. The theorems cover all other numbers.
- *Git cache.* Two fetches and limit 1 make every second response an eviction; two handlers with four
  requests let one write while another reads and the cleanup removes, and let the hits of both overlap on one of two
  files: without the condition `Alone`, `EvictsTheLeastRecent` is refuted. Repositories are directories of their own.

Deadlock is checked in `token_service`, `app_registry`, `proxy_policy` and
`github_credentials`. The others (`device_auth`, `vault_store`, `login`, `enterprise_access`, `git_cache`, `startup`) stop
when the clock, the identifiers or the requests of the instance are used up, and say so in their `.cfg`.

Fairness is assumed in two runs. In `device_auth`: weak fairness of `Tick` (time passes) and of
`DeleteExpiredDeviceAuths` (`cleanupLoop` runs on every instance on a ticker and goes on after an
error). It is not assumed that anybody polls, decides, or finishes a request. In `startup`: weak
fairness of the steps of each process (the Go runtime runs it on) and of the start of each server
(`Restart=on-failure` in `packaging/systemd/ghp.service`), but not of `ghp migrate`, which nobody has to run
again; and no more failures than the bound allows, so that a store that never answers is excluded. A
process started without `--migrate` needs somebody else's migration, and nothing is claimed of it. Elsewhere "eventually" is
stated as what must be true meanwhile: a waiter has a leader that waits for nobody, a superseded credential
has a writer.

## 5. What the code does differently from what it says

Two runs show it:

- `device.go:597`: an approved request can fall back to pending, because a poll writes the whole row
  back to record the time of the poll. The CLI then never gets the session that was created
  (`device_approval_kept`).
- `api.go:1154`: on a SQL store `PUT /api/apps/{id}` cannot make an app the default while another one
  is: the field update writes the flag before `SetDefaultApp` takes it from the other app, and the
  unique index refuses it. The admin page sends this request. Clearing the flag of the old default
  first, in a request of its own, works, at the price of a moment without a default app (`app_promotion`).

Observed while modelling, and allowed by the models:

- `proxy.go:307`: a REST endpoint without a rule (locking an issue, `DELETE` on git references or on a release)
  is forwarded whatever the scopes of the token, and an endpoint whose path names no repository
  (`/user/repos`) whatever its repositories; so are the paths of github.com that are no smart HTTP
  (`passthrough.go:191`). The comment in the code says so on purpose: "Unrecognized endpoints are forwarded — GitHub's token
  handles access". That is right of agent tokens, whose installation token carries the restriction
  (`MintedIsCurrent`), but a proxy token is exchanged for the credential of its user; and the guide promises without exception that
  tokens "can specify which operations are permitted" and that ghp "enforces that only those repositories can be
  accessed" (`docs/features/token-scoping.md:44-58`). `Grants` in place of `GrantsKnown` in
  `ForwardedWasGranted` is refuted on the instance of `proxy_policy` by such a request.
- `token.go:308-310`: Revoke is not always seen "immediately on this instance". A Resolve that read
  the row before the revocation puts it back after Revoke has emptied the cache. The grants end with
  the TTL, as on other instances (`GrantsAreRecent`).
- `device.go:229`: the token is not handed out "exactly once": reading and deleting the row are two
  statements. All polls get the same session token, so no second session comes of it.
- `server.go:171`: the default app is created before tokens are assigned to it, and a start that finds an app
  assigns none. A process killed in between leaves older agent tokens without an app, although "Any existing agent
  tokens that have no app association are backfilled" (`docs/how-it-works.md:144`). They are served by
  whatever app is the default. `BackfillIsWhole` claims what a backfill does that begins.
- `server.go:326`: with `github.app_id` set, no private key and an empty table the proxy gets no provider. An app
  created later is loaded by the registry, tokens are created for it, and none of them works until a restart,
  although "no restart or config reload is needed" (`docs/how-it-works.md:139`).
- `server.go:345`: with a private key and an empty table (the default app was deleted, or could not be stored)
  the proxy gets the provider from the configuration, and does not use apps created later until a restart.
- `server.go:245`: `ghp serve` on a database that was never migrated logs a warning and serves: the query for
  pending migrations fails, and only pending migrations end the process.
- `releases.go:209`: the base for release redirects is computed when the handler is built; a reload
  changes the mode and the exemptions but not the target.
- `gitcache/storage.go:6-9` and `handler.go:132-133` say that fetch commands "are only served from cache after
  a successful ls-refs in the same request". That is so for requests that bundle the two, about which
  `BundledNeedsAccess` is; a fetch in a request of its own is answered from a file without a question to GitHub.
- `gitcache/handler.go:334-337`: a hit marks its file after it has read the time, and by name. A delayed one sets
  back the mark of a later hit, or of a newer file, which may then be evicted before files that were used earlier, as
  it is when marking fails, which the log says. The limit is enforced on what `os.ReadDir` and `entry.Info` return.
- `registry.go:65` and `:218` log that of several default apps the "earliest created one" is used. The loop over the
  apps in the order of their creation overwrites the default, so it is the latest (`DefaultOf`).
- Deleting a cached repository leaves its files, its mirror and its registry entry; created again, it is
  served from them.
- A demoted administrator keeps the role in the sessions that exist, and passes it on to a device approved
  with one of them. `AdminAccessIsBounded` says for how long.
- `auth.go`: a logout whose delete fails is answered like one that worked. Redirect URIs are compared with a
  configuration that is read without its lock.
- On Vault: an update writes back the record it has read, and so brings back a record deleted meanwhile and
  undoes another caller's change; two first logins of a user make two users, two creations of a cached
  repository both succeed; a deletion whose index entry could not be removed leaves the name taken; two
  callbacks that overlap can both consume a state; two promotions can leave no default app.

## 6. Proofs

`TokenServiceProofs` proves, for any instances, tokens, requests, calls and bounds that satisfy the
named assumptions of `TokenStore` and `TokenService` (positive TTL and durations, natural bounds,
`None` outside the other sets):

- `TypeCorrect`: `Spec => []TypeOK`. Inductive by itself.
- `IndexCovers`: `Spec => []IndexCoversCache`. Inductive together with `TypeOK`. The case that makes
  it more than "cached implies indexed" is a `CallFind` that takes the id out of the index before the
  entry is deleted, and a `ResolveStore` before its `ResolveIndex`.
- `Copies`: `Spec => []CopiesAreTrue`. Every copy of a row, wherever it is held, was the row when it was
  read (`CopyOf`): not revoked then, same expiry, and either still current or replaced no earlier than
  that. `CopyKept` shows that no step of the store breaks this, `FreshCopy` that a new read
  establishes it; the rest follows the copy from the store to a request to the cache, with the time
  stamps that bound its age.
- `BoundedStaleness`: `Spec => []GrantsAreRecent`. `Fresh` and `CopyOf` give the bound when a grant is
  made; what was revoked or replaced later is later than the arrival of the request (`GrantKept`).
- `RevocationEmptiesCache`: `Spec => []RevokedLeavesCache`. The strengthening is `RevokesProgress`: from
  the commit of a revocation on, no fill on that instance carries the token unless it is `raced`
  (`Clear`), and from the look into the index on, the index is empty of it (`Gone`). With
  `IndexCoversCache`, an entry that is still there must be about to be deleted.
- `Refinement`: `Spec => ImplementsAuthority`, with one lemma per action. A read, a fill, an eviction and all steps
  of a call after its statement are stutters of the authority; the statements are its steps on the store
  (`TableRefines`); the end of a request, or its loss in a crash, is its `Drop`. A grant is a step of the authority
  because the copy is true and no older than TTL + MaxFlight when the request arrived (`CallGranted`), a refusal
  because a true copy shows the expiry of the row and a revocation stays (`RejectedIsUnusable`).

`AppRegistryProofs` proves every property of the `app_registry` run and two more invariants, for both stores, any
configuration and any numbers of administrators, apps, keys and requests, from the named assumptions
of `AppRegistry`. `TypeCorrect` is inductive by itself. The rest follows from `IInv`, which adds to the
properties what a lone request knows (`AloneKnows`): the flag of the record it is going to write is the
one in the table unless its body changes it; what it has listed so far is what the table holds; while
it clears, its own app has the flag, and when it has cleared, no other app does. That a request is the
only one is `OneAlone`; `Shape` says which steps lead where (a SQL store takes no Vault steps, a listing
goes on to what it was made for), `Fresh` that records not yet created are nowhere, `Settled` that
nothing is under way when the registry is claimed to be current. `MaxInSet` (a finite set of numbers has
a maximum, by well-founded induction from the library) gives what `DefaultOf` returns, in
`DefaultOfListing`.

- `OneDefaultOnSql`: `Spec => []SqlSingleDefault`; `DefaultHasProvider`: `Spec => []DefaultIsLoaded`;
  `QuietReload`: `Spec => []QuietReloadIsCurrent`.
- `DefaultSurvives`: `Spec => DefaultIsNotLost` and `LonePromotionWins`: `Spec => PromotionWins`, action
  properties that follow from `IInv` before the step.

`StoreProofs` proves the safety properties of the `device_auth` run for any numbers of requests,
sessions, users, polls and decisions, from the assumptions of `DeviceAuth`. `TypeCorrect` is inductive by
itself. `RowsAreConsistent` is not: a decision writes an approval from a copy and a session it took
earlier. `DecisionsAreTrue` adds what it knows by then: its copy was pending, its session is alive, was
minted for this request and this user, and no other decision has it; `LiveIsOwned` makes a session minted
later a different one. A session that no decision can still take back is `Safe`, no step makes it unsafe
(`SafeKept`), and so whatever was consistent when it was read is consistent when it is written
(`ConsistentKept`), however late that is. Each handler then needs only to say which consistent record
it writes (`RowsKept`).

- `ConsistentRows`: `Spec => []RowsAreConsistent`; `ApprovedTokens`: `Spec => []TokensAreApproved`, because an
  answer with a token comes from a copy that was approved (`TokenAnswersAreApproved`).
- `RemovedStays`: `Spec => RemovedForGood`: an update finds no row to write to.

`LoginProofs` proves the five properties of the `login` run for any configurations, browsers, flows and
restarts, from `LoginAssumption` and `NoneAssumption`.

- `OneCallbackPerState`: `Spec => []StateUsedOnce`. `UnusedStates` adds that a state still in the table was
  consumed by nobody, which the atomic `DELETE ... RETURNING` preserves.
- `BackedSessions`: `Spec => []SessionsAreBacked`. A callback that has got past a statement carries what it
  wrote (`LoginsAreBacked`), and nothing deletes a user (`UsersStay`); `SessionSteps` says who writes sessions.
- `RolesAreSynced`: `Spec => []RolesFollowConfig`, inductive with the types.
- `BoundedAdminAccess`: `Spec => []AdminAccessIsBounded`. `AdminInv` bounds the role snapshot of every session
  by the last time its user was `Covered` by a configuration; `NextTimes` moves those times along.

- `FlowsKeepApart`: `Spec => []FlowsStayApart`. `FlowsInv`: a broker's state was issued for a URI that is `Admitted`
  (`IssuedIsAdmitted`); a callback carries a state that was issued for its kind (`CallbackHasItsState`), because
  `Found` looks for rows of that kind only; and an identity went to the URI that was asked for (`GrantWasAskedFor`).

`GitHubCredentialsProofs` proves every property of the `github_credentials` run for any numbers of requests,
logins and refreshes and any lifetimes, from `CredentialAssumption` (an installation token is evicted at
least `MaxFlight` before it expires, an access token refreshed more than `MaxFlight` before) and
`RoleAssumption` (a goroutine serves one kind of request). `TypeCorrect` includes that every pair held
anywhere is one that GitHub has handed out (`Known`), which pairs stay (`KnownKept`).

- `RowStaysAlive`: `Spec => []RowIsAlive`, by the strengthening `Exclusive`: a pair on
  its way to the row is the last of its authorization, and nobody else has it. A refresh that succeeds used the
  live pair, so no other can be on its way.
- `ResolvedStaysRecent`: `Spec => []ResolvedIsRecent`. `RecentInv` gives each copy on its way from the row to
  the cache to a request a time since which it was in the row; `Timely` bounds the way.
- `HandedStaysAlive`: `Spec => []HandedIsAlive`. `FreshInv`: the row takes a token for younger than it is by at
  most `MaxFlight`, which is less than the skew; `MintInv` is the same of installation tokens.

`StartupProofs` proves the invariants of the `startup` run, and one more, for any processes, versions, migrations, tokens,
requests and failures, from the assumptions of `Startup`. The inductive invariant `IInv` adds, for the
migrations, that what a process has found pending is the rest of its files from some point that is no later than
where the schema ends (`PendingIsRest`): if the next one is not recorded, it is therefore exactly the one after
the schema (`CommitMigrations`), and if it is, the process ends. `CheckedIsMigrated` carries this to serving.
`Keeps` says what all other steps do to the fields concerned, so that each needs one lemma (`Keeping`). For the
apps, `FreshRows` and `RowsAreBounded` make the next record free and within bounds: only a deletion lets another
default be seeded, and a deletion is a request (`NewRow`, `SeedCreateRows`).

- `TypeCorrect`: `Spec => []TypeOK`; `SchemaStaysWhole`: `Spec => []SchemaIsWhole`; `ServingIsMigrated`:
  `Spec => []ServesOnItsSchema`; `OneSeededDefault`: `Spec => []SeededOnce`; `TokensKeepApps`:
  `Spec => []TokensNameApps`.

- `CleanStartsServe`: `Spec => CleanStartServes` and `BackfillsAreWhole`: `Spec => BackfillIsWhole`, from
  `CleanStarts`: while nothing has failed and no app was deleted, the app that a process seeded is there, every
  older token without an app is among those it still has to assign, and the table is not empty when it loads.
  `NothingLost` says which steps of others leave that alone; the deletion of an app makes every start unclean.

`GitCacheProofs` proves the four properties of the `git_cache` run for any repositories, commands, handlers,
administrators, limits and crashes, from `CacheAssumption`, `NoneAssumption` and `BoundAssumption`. The invariant
`IInv` says what everything under way is worth:

- `RequestsAreGood`: a handler that has opened a file or is to store one holds the whole body of the command it is
  at, and goes on holding it although the name is removed; every answer in what it has sent is whole and for the
  command it was asked for; `verified` is only set by an ls-refs that GitHub allowed, and nothing of a bundled request is sent
  before.
- `FilesAreTrue`, `TempsAreTrue`: a file under its final name is the whole answer to the command in its name, and its
  modification time is no earlier than its last use; a temporary one is whole when it is about to be renamed, which is the only way
  to a final name, whatever crashes.
- `MarksAreLater`: a handler that is about to mark a file opened it no earlier than the last use that counts, so
  whatever time it has read, and however late it marks, no modification time falls behind a last use
  (`TouchedIsTrue`, `RenamedIsTrue`).
- `FilesAreFinite` and `CleanerIsTrue`: the files of a repository are finitely many, and a cleaner's list is `Sound`:
  what it has still to look at is there, nothing was removed that was used after one of these, and its sum
  covers the files that are present unless one was stored since the scan.
- `EnforcedLimitHolds` itself.

From it: `ServedResponsesAreWhole`: `Spec => []ServedIsWhole`; `NoCachedDataExposed`: `Spec => []BundledNeedsAccess`;
`LeastRecentlyUsedGoFirst`: `Spec => []EvictsTheLeastRecent`; `LimitIsEnforced`: `Spec => []EnforcedLimitHolds`; and
`TypeCorrect`.

`ProxyProofs` proves the three properties of the `enterprise_access` run for any teams, exceptions,
goroutines and lifetimes, from `TimeAssumption`, `ProcessAssumption` and `PolicyAssumption` (`user` is the key of no
team, and exceptions are what the configuration can hold). The first of several compiled exceptions is there
by `LeastElement`; `NamingIsConfigured` and `ExceptionIsAbout` say that what remains of an exception is about targets
the configuration names. `IInv` has four parts besides the types:

- `FlightsAreLed`: a flight has exactly one leader, which is asking, storing or deleting; it is open until the leader
  closes it, and then holds what the leader has found out; whoever waits without an answer waits for an open one.
- `AnswersAreTrue`: what is cached, or about to be, GitHub said no more than `MaxFlight` before the entry's time.
  `HistoryGoesOn` and `RecentStays` carry this along.
- `RequestsAreTrue`: a request that is asking has been told no by every team before its current one, unless its client is gone, and
  what it has been told was recent when it arrived; one that is done has reasons for its outcome (`Justified`).
- `BackgroundIsSimple`: a background lookup only asks who the user is, and never waits.

From it: `OnlyMembersAreLifted`: `Spec => []LiftedForMembers`; `OnlyNonMembersAreKept`: `Spec => []KeptForNonMembers`;
`NobodyWaitsInVain`: `Spec => []WaitersHaveALeader`; and `TypeCorrect`.

`ProxyProofs` also proves the four properties of the `proxy_policy` run for any handlers, requests, rows, configurations,
depths and numbers of changes, from `ProxyAssumption`. The inductive invariant `ProxyInv` says of each handler:

- `HasSeen`: while it serves a request, the row and the configuration in force are among those it was served
  under, and so is a configuration that is being written.
- `PlaceIsRight`: which stages a request of its kind and with its credential can be at.
- `AnalysisIsTrue`: the row it goes on with was live while it was served, and the rules let the request pass for that
  row; a request that resolves its token again was passed by an earlier row; one that was denied was denied by a row that was
  live. `RestrictionIsTrue`: what it sends upstream is the restriction of such a row.
- `PolicyIsTrue`: what let it pass the border, and the base of an archive, come from such a configuration; with
  `BaseIsCached`, that what other handlers have cached meanwhile is what the value it is cached for came to.

From it: `RestrictionsAreCurrent`: `ProxySpec => []MintedIsCurrent`; `PoliciesAreCurrent`: `ProxySpec => []PolicyIsCurrent`; and
`RequestsTypeCorrect`. The two others are split. `PassedIsGranted` and `DeniedIsNotGranted` are about the rules
alone: for one request and one row, the rules let pass what the row grants (as far as they classify the request)
and deny what it does not. That is a
statement about the tables, the tests' counterpart, and is false of requests that claim to do what no table
foresees; it is a hypothesis, and TLC examines it for every request and row of the run, where
nothing changes between two steps. The theorems say that nothing is lost on the way from there to requests that
are served while rows change, configurations reload and the token is looked up twice:
`ForwardedRequestsWereGranted`: `PassedIsGranted` implies `ProxySpec => []ForwardedWasGranted`;
`DeniedRequestsWereNotGranted`: `DeniedIsNotGranted` implies `ProxySpec => []DeniedWasNotGranted`.

`StoreProofs` also proves the properties of the `vault_store` run, for every kind of record and any numbers of
callers, cleaners, identifiers and failures. Because the operations are programs, the proof first says once what
they are: the `RowsOf` lemmas list the calls of each operation, `ReadsOf`, `PutsOf`, `CreatesOf`, `DropsOf` and
`TriesOf` turn that around, and say of a call which operation makes it at which point and on which key. From there
every step of a process under way (`Acts`: a call, a failure, a crash) is described twice, by `Effects`, what it does
to the keys, and by `Outcome`, where its process is afterwards (`ActsOutcome`); nothing that follows looks at the
actions again.

`VaultInv` adds to the properties what they rest on. `OperationsAreTrue`: an identifier is being made by one
operation at most, and nothing else knows it before that has been reported. `CopiesAreTrue`: what an operation is going
to write is made from records it has read, and a change of a token from one that was not revoked; so a write either
carries on everything reported or counts as clobbering. `IndexIsTrue`: while a creation writes indexes its record is
there, while a sweep deletes its record the indexes are gone, and nobody else deletes either; the index of
cached repositories is as good only as long as nothing has failed. `ConsumedIsGone` and `LateIsFirst`: a consumed
state and a session logged out are not there, nothing creates them again, and whoever comes later is still at its
first call. `CodesAreMade` and `CodeIsTrue`: who deletes a user code does so for an authorization that is decided, too old, or
gone (`Gone`, `Settled`), and that cannot change before the delete (`GoneStays`), except by a late write,
which is the clobbering that `UserCodeWorks` excludes.

- `IndexNamesRecordAlways`: `VaultSpec => []IndexNamesRecord`; `ReportedChangesStayAlways`:
  `VaultSpec => []ReportedChangesStay`; `UserCodeWorksAlways`: `VaultSpec => []UserCodeWorks`.
- `ConsumedOnceAlways`: `VaultSpec => ConsumedOnce`, an action property, from `VaultInv` before the step.
- `VaultTypeCorrectness`: `VaultSpec => []VaultTypeOK`; the keys are those the operations name (`KeysAreKnown`).

Only model-checked: liveness (`RequestsAreRemoved`, `MigratingServes`), which
is beyond the prover; and that the rules of `RestScope` and `GraphQLScope` ask for what each endpoint and field needs,
`PassedIsGranted` and `DeniedIsNotGranted`, which depends on what GitHub does.

## 7. Abstractions and assumptions

- A statement of a SQL store is atomic, and one that reports an error has changed nothing; so has a call to
  Vault.
- Tokens, hashes, names and payloads are atoms, scopes are functions from permissions to levels.
- `TokenService` leaves out the test of a token's prefix and of a caller's ownership. `DeviceAuth` leaves out the rate limit per address and takes the browser's session as
  valid while a decision is made.
- `AppRegistry` has one instance. Others share the table but are not told to reload: their registries stay
  as they were, as in `Startup`, which also has `ON DELETE SET NULL`. A configuration with an unusable private key
  is left out.
- In `Startup` a migration is atomic with its row, as its transaction is on both databases, and every private key
  in the table is usable. A version only adds migrations, and a process is not replaced by an older one.
- `ProxyRequest` takes the token service at its word: a change is seen at once. How late it may be seen is
  the matter of `TokenService`.
- `MaxFlight`, in three modules, bounds the time between an answer and its arrival in a cache, without which
  no age of an entry could be stated.
- In `GitCache` all responses have one size, and the scan of a directory is one step.
- In `Login` a callback is answered within one unit of the clock, and `UpsertUser` is one statement, as on
  Postgres. On SQLite the role is read back in a second one (`sqlite.go:175`), so that a session may take the role
  that a synchronization or another login of the user has written between the two.

## 8. What is not modelled

- Rate limiter: a token bucket of a library per client; nothing else reads its state.
- Encryption, TLS, listeners, host dispatch, the content of migrations other than that which creates `apps`,
  and `ghp migrate status`: no concurrency, or plain input and output. The down migrations, which nothing runs.
- Shutdown and the signal that asks for a reload; reloads themselves are in `ProxyRequest` and `Login`.
- Logs, metrics and tracing: nothing reads them back. Network helpers, web pages, and the command line client,
  whose polling is the environment of `DeviceAuth`.
- In modelled components: the test login of the development mode, the path a login returns to, the JWKS
  document; the Copilot passthrough, rewritten links and headers in answers, and what the HEAD request of the
  release policy asks; the warming of user names from the database and their fallback; on Vault,
  `SyncAdminRoles`, the cleanup of OAuth states and lists; the mirrors that a service credential fetches, from
  which no answer is served; the S3 storage, a stub, and `packserve.go`, which nothing uses.
