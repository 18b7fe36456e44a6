# Verification of the jabali-sounder manager

TLA+ models of the manager in `src/manager-api`, the TLC runs that check them on small
instances, and theorems that TLAPS proves for every instance. Paths below are relative to
`src/manager-api/internal/` unless they say otherwise.

Contents: [inventory](#1-inventory) · [plan](#2-plan) · [modules](#3-the-modules) ·
[runs](#4-the-runs) · [bounds](#5-bounds) · [fairness](#6-fairness) · [proofs](#7-the-proofs) ·
[findings](#8-findings) · [limits](#9-what-is-not-modelled)

## 1. Inventory

The manager is one Go process (`cmd/server`, or the desktop and mobile shells around the
same server) with a SQL database. It keeps a fleet of Jabali panels: it polls them, shows
their health, raises incidents, starts actions on them, and has operators with roles who
log in. Inside the process run

- the HTTP handlers, one goroutine per request, none of which keeps a transaction open
  across statements (the transaction of the first setup is the exception);
- the poller (`poller/poller.go`), one loop with two tickers: at each interval a *pass*
  (one goroutine per polled server, then the escalation sweep, then the watch of backup
  runs), and each hour a *prune* (old rows, then the stale-backup and token-expiry checks).

They share nothing but the database, and a few maps behind mutexes (the poller's
`breachSince`, `failStreak`, `restarted`; the login limiter; the account and token counters;
the passkey challenges) that are lost when the process stops. The panels are other
machines; every call to one has a timeout.

| component | state it keeps | operations | what makes it correct |
|---|---|---|---|
| Fleet registry and health polling (`api/servers.go`, `api/server_actions.go`, `api/settings.go`, `repository/server_repository.go`, `poller`) | `servers` table: status, credential status, sealed secret | enrol, edit, enable/disable, remove, import, manual check, capabilities refresh, pass | what an operator stored, paused or removed stays so; health columns come to tell the truth |
| Incidents (`poller`, `api/notifications.go`, `api/alerting.go`, notification, rule, mute and maintenance repositories) | `notifications`, rules, mutes, windows; `breachSince` in memory | evaluate, open, dispatch, resolve, escalate, prune; ack, snooze, mute, window, rule changes | one open incident per alert, one escalation each, silencing holds, recovery resolves, neglect escalates |
| Operator accounts and sessions (`api/auth.go`, `api/admins.go`, `adminreset`, admin and session repositories, `middleware/auth.go`) | `admins`, `sessions`; the role in the JWT | setup, login, account management, own password and 2FA, local reset, revocation | an owner remains, setup once, roles and resets hold |
| Backup tracking (`api/server_actions.go`, `poller`, `repository/backup_repository.go`) | `backup_runs`, `backup_stale` incidents | start, watch, prune, stale check | recorded outcomes are true, runs settle, staleness shows and clears |
| Health and certificate alerts (`maybeAlert`, `checkCert`, `alert`, `api/alerting.go`) | the listed row, `alert_channels`, windows | compare, store the date, dispatch; channel and window changes | channels and rows agree; a certificate is announced once |
| Auto-remediation (`maybeRemediate`) | `failStreak`, `restarted` in memory | count, restart a service | one attempt per outage, only after N failures, never in a window |
| Login throttling and account backoff (`middleware/ratelimit.go`, `account_backoff.go`, `api/auth.go`) | counters in memory, `login_bruteforce` notifications | look, answer, record, prune; count, alert | guesses per window are bounded; one notification per account |
| API tokens (`repository/api_token_repository.go`, `api/api_tokens.go`, `middleware/token_scope.go`, `token_ratelimit.go`) | `api_tokens`, windows in memory | mint, rotate, revoke, validate, stamp, limit, remind | a revoked, expired or replaced secret is refused; calls per minute are bounded |
| Passkeys (`api/webauthn.go`) | challenges in memory, `webauthn_credentials` | begin, take, verify, register, stamp, delete | a challenge is used once, within its time; a deleted passkey stays deleted |
| Monitor page (`api/monitor.go`) | `statusCache`, probes under way | list, look, join or lead a probe | no view shows an old status, one probe serves the loads that overlap it (a load that comes just too late asks again: [finding 7](#8-findings)) |
| Policy page (`policy/policy.go`, `api/policy.go`) | `policy_exceptions` | evaluate, ignore, restore | drift means minority; exactly what was waived is ignored |
| History (`poller`, `api/servers.go`, heartbeat and sample repositories) | `heartbeats`, `metric_samples` | record, prune, list, count, chart | what the views tell is what was recorded |
| Self-update (`updater`, `cmd/server/update.go`, `cmd/desktop/update.go`) | the program, its staged and old copies | resolve, download, verify, swap, roll back | a whole executable is always in place, the newest one installed |
| Desktop start (`cmd/desktop/main.go`) | `secrets.key`, `jwt.secret`, `alert_rules` | ensure, create, load, seed | what one start sealed the next one opens |
| Report, Prometheus, inventory | none (read only) | format | — |
| Secrets codec, TOTP, remote client, mail, database, configuration | keys, connections | seal/open, verify, call, migrate | used by the others as they are |
| Web interface, Android shell | browser state | — | the server enforces every rule |

**What is hard here.** (1) Rows are read, kept over calls of several seconds and *saved whole*
(gorm's `Save` also inserts a row that is gone), so a handler can undo what another did.
(2) Checks are separate from the writes they protect (last owner, open incident, first
account, revoked token). (3) The poller's memory dies with the process while the database
lives on. (4) Answers of the panels are lost or late. (5) The escalation sweep and the pass
run on lists read earlier. (6) Two tickers and several clocks (durations, snoozes,
escalation age, retention, staleness) race each other. `PROJECT.json` lists each hazard
with its line, and the properties that would notice it going wrong.

## 2. Plan

| order | modules | status |
|---|---|---|
| 1 | `Fleet`, `FleetProofs` | done |
| 2 | `Incidents`, `IncidentLife` (abstract), `IncidentsProofs` | done |
| 3 | `Access`, `AccessProofs` | done |
| 4 | `Backups`, `BackupsProofs` | done |
| 5 | `Outages`, `OutagesProofs` | done |
| 6 | `Login`, `Passkeys` with `Ticket` (abstract), `Tokens`, `SignInProofs` | done |
| 7 | pure algorithms against reference definitions: the policy majority (`Policy`), the thinning of charts and the counts of uptime (`History`) | done |
| 8 | `Monitor`, `Update`, `Startup`, `UpkeepProofs` | done |
| 9 | the bounds on guesses and calls in a window as theorems: `GuessesBounded`, `RateBound` | done |
| 10 | `ServicesProofs`: `StatusShared`, `PageIsTrue`, and the composition of its six parts; `HistoryTold` and the composition of three in `UpkeepProofs` | done |
| 11 | a fault model for failing statements in `Incidents` (`ActiveExists` that errs, `Create` that fails); the cached version check of the updater | to do |

The abstract specifications are `IncidentLife` (the life of an incident) and `Ticket` (a
one-time, expiring ticket). `MCServices` composes the parts that share the clock, `MCUpkeep`
the manager's upkeep of itself.

## 3. The modules

An action is one atomic step of the program: an SQL statement with the computation around
it, a call to a panel, or a critical section. A handler is therefore a record in `req`
whose field `at` names its next step and which holds the row it read; it disappears when
the handler answers. Variables under "history" in the declarations exist for the
properties only and no guard reads them. Operators introduced as "a wrong form" are not
used by the specifications: each is the definition below it with a plausible mistake
(a dropped guard, a whole-row write, an off-by-one), and stands in `PROJECT.json` as the
mutant that shows a property can fail.

### Fleet — servers, their handlers, the poller's pass

`rows` is the servers table; `panel` the truth about each managed panel; `job` the
goroutines of the pass; `req` the handlers. `UpdateStatus` writes two columns of a row that
exists, `Update` is `Save`. Handlers: `UpdateServer`/`SaveEdit` (PATCH), `SetStatus`/
`SaveStatus` (enable, disable), `Remove`/`Delete`, `Create`, `ImportServer`/`SaveImport`/
`Insert`, `CheckHealth` with its four steps (`CheckUndecryptable`, `CheckProbe`,
`CheckStore`, `CheckSaveVersion`), `ActCapabilities`/`SaveCapabilities`. The pass: `PollOnce`
lists the rows that are not disabled, `PollProbe` and `PollStore` are a goroutine's call and
write. `PanelChange` and `Restart` are the environment. A secret is a model value, "foreign"
when this installation cannot open it; names, URLs, tags and versions are left out, except
that their presence in the saved row is what makes a save whole.

`settled` and `vault` record what a property may count on: a pause, a removal or a secret
written while nobody else held the row. They are given up as soon as a handler that may
legitimately change them is under way.

### Incidents — alerts from breach to resolution

An alert is a (server, kind) pair: a metric over its threshold or a service that is down;
thresholds and severities are abstracted to a reading that is high, normal or missing. The loop is
`PollOnce` → `Evaluate` for each alert → `Sweep` → `EscalateSend`/`MarkEscalated` →
`PassEnds` → `Tick`. `Evaluate` follows `evaluateRules` and `evaluateServiceRules` step by step:
`Breaching`, `Gate` (open incident? window? mute?), `Open`, `Tell`, and `Unreported`,
`Recovered`, `Resolve`. Operators: `Ack`, `Snooze`, `Mute`, `Unmute`, `CreateMaintenance`,
`DeleteMaintenance`, `UpdateRule`, `SetPolled`. `PruneOlderThan` is the hourly prune.
`Restart` forgets `breach` and the steps under way, and keeps the tables.

Assumptions: the gate's three reads are one step; a pass lasts less than a tick of the
model; statements succeed (the code reads a failing `ActiveExists` as "none" and dispatches
after a failing `Create`; see the hazards).

`IncidentLife` is the abstract specification: each alert has at most one incident, which is
raised, acknowledged and escalated at most once, and cleared only after its recovery was
seen. `Incidents` defines the mapping (`IncidentOf`) and `Refines`.

### Access — accounts, sessions, setup, reset

`admins` and `sessions` are the tables; a session also carries the role its JWT was signed
with, which `AsOwner` (`RequireRole`) believes. Passwords are increasing numbers. Each
handler first arrives (`Login`, `Setup`, `UpdateAdmin`, `EditSelf`, `RemoveAdmin`,
`ResetAdminPassword`: authentication, reads, checks) and later writes (`IssueSession`,
`CreateFirst`, `SaveAccount`, `Delete`, `SaveReset`, `Evict`); `Create` is a single insert.
`CreateFirst` alone is a transaction. `Revoke`, `Expire` and `Restart` complete the module. Viewer and
operator are one role ("member") since the handlers modelled ask for ownership only;
usernames are not used again after a removal.

### Backups — runs and staleness

`panel` is the true state of each operation, `runs` the table. `ActBackup` inserts a row
with the panel's own word as status; `WatchBackups` lists the rows that are pending or
running, `WatchRun` asks about one; `Prune` deletes old settled rows, keeps the date the check
reckons with (`today`) and lists the servers. The stale check of a server is three steps, and
`check` says which is next: `LatestSuccess` looks for a success in the table, `Suppressed` for a
maintenance window, and `OpenIncident` writes the incident. In between requests record runs, windows
begin and end, and the process may stop. `ResolveActive` and `ActiveExists` belong to the look,
since nobody but the poller opens or resolves this incident, and one goroutine is the poller.
`check.seen` is the newest success recorded when the check looked. The words of the
panel are two per outcome at most: one that is a status of the manager and one that is not. `Tick` is a
day.

`NoFalseAlarm` therefore says that no alarm is false as of the look. A success that is recorded
between the look and the write is answered by an incident all the same, as in the code, until
the next hourly check resolves it (`SuccessResolves`).

### Clock

The instant `now` that the modules with deadlines in memory share, up to `MaxTime`. `Never` is
the zero time of the code, a number below every instant.

### Login — the limiter of an address, the tracker of an account

`attempts` is `LoginLimiter.attempts`, `accounts` the tracker's map, `req` the handlers. `Admit`
is the look before a handler (with the address's lock); `Authenticate` its verdict, with the
tracker's critical section (`RecordFailure`) when the password or code is wrong; `FailLogin` and
`CreateNotice` the look for a notification and its insert; `Record` the limiter's note after
the answer, with the instant taken *before* the handler ran, so that the counter may move
backwards. `Pruned` is the cleaning of the limiter from `PruneAt` entries. An answer below 400
clears the address's counter. `misses` is the log of the instants at which
failed answers of an address were recorded, cleared with the counter; `late` are the addresses with an answer recorded at an instant
after its look, and `twice` the accounts with two alerts under way at once.

### Passkeys and Ticket — ceremonies of two requests

`challenges` is the session store with the ids it has given out, `finish` the second half of a
ceremony under way, `keys` the credentials table. `Take` deletes an entry and refuses one past
its time; `Verify` and `Stamp` are the statements of a login, between which `DeletePasskey` may
come. `PasskeysRestart` empties the store. `Ticket` says what a challenge promises, and
`ChallengesAreTickets` is the refinement: `Live` maps an entry to a live ticket.

### Tokens — mint, rotate, revoke, use

`tokens` is the table, a secret a number drawn once (`minted`). `RotateLookup` and `Rotate` are
two statements; a request looks its token up (`Validate`: `Valid`, `SourceAllowed`), writes the
time of its use (`StampUse`), and goes with what it read through `ScopeGrants` and `Allow`.
`windows` is the limiter's memory, `ListExpiring` with `CheckTokenExpiry` the hourly reminder. `dead` and `ended` are the secrets and tokens retired so
far; `hits` the log of the instants at which a token's calls were admitted.

### Outages — messages, certificates, remediation

`polls` is where the poll of each server is, with the row `List` returned and the outcome:
`Probe` → `Store` → `Alert` (`Crossing`, `Takers`, `Delivered`) → `CheckCert` → `Warn` →
`Remediate` → `RestartService`. `held` is the row a handler has read and will save. `ManualCheck`, `HandlerReads`/`HandlerSaves` write the row in
between, and so does `ImportServer`, whose row is built from the file and has no certificate date, so
that each import of a known server costs one more announcement (`lost` counts them); `Maintain`, `CreateChannel`, `UpdateChannel`, `DeleteChannel` are the operators; `Renew`
is the panel. A channel takes every message, all but the recoveries (`"urgent"`), or none;
a delivery may fail. `told` is the last message on a channel about a server, `unsaid` the pairs that missed a
change for a reason the code accepts.

### Monitor — the shared status cache

`views` has one goroutine per load and server. `Look` (under the mutex) and `Join` (after it) are
separate; `FetchStatus` stores the answer and gives it to the whole `Party` of the probe, which is
singleflight's. `Unopened` is a server whose secret cannot be opened.

### Policy — the compliance page

A load is `PolicyLists` (rows and time) and `PolicyShows` (exceptions that `ListActive`), between
which rows change and operators `Ignore` and `Restore`. `Evaluate` is translated check by check;
`majorityVersion` is compared with the reference in `DriftMeansMinority`.

### History — checks, samples, uptime, charts

`RecordCheck`, `StampServer` and `RecordMetrics` are the statements of a poll, `PruneHistory`
the retention (one step for both tables), `CountTotal` and `CountHealthy` the two counts of an
uptime. A table is the set of the instants of its rows (`sound` those of the healthy checks), since
a check takes a pass and an instant has one at most; the order of the rows is that of `Place`.
`RangeOf`, `DownsampleMetrics` and `Recent` are operators, and `Chart` and the lists what a request
gets. `checked` and `meanwhile` are history.

### Update — replacing the program

One instance's update is `ResolveLatest` → `FetchChecksums` → `OpenStaged` → `CopyStream` →
`VerifyStream` → the swap: one rename (`InstallStaged`), or on Windows `UnlinkOld`, `MoveAside`,
`InstallStaged` and `Rollback`. A stream keeps its file when the name is taken away or moved, which
is what `file` records; `image` is the file an instance runs from, which Windows
cannot delete. Any step may fail, `Kill` may come between any two, and `Publish` moves the releases on.

### Startup — the desktop app's first request

`BuildBackend` → `EnsureRandomFile` → `CreateKey`/`FillKey` → `ReadJwt` → `CreateJwt`/`FillJwt` →
`LoadKey` → `CountRules`/`CreateRule` → `Ready`; a write is a blank file and then its content, and
may be cut off between. Two launches may build at once. `SealSecret`, `SignIn` and `UpdateRule` are
the work of a backend that makes the files matter.

### MC and proof modules

`MCFleet`, `MCAccess`, `MCMonitor`, `MCServices` and `MCUpkeep` add symmetry sets: a permutation of
interchangeable secrets, requests, accounts, sessions, challenges or instances maps behaviours to
behaviours. Only names that no property's temporal part distinguishes are in them; the
liveness property of Fleet speaks of servers, which are not permuted. `MCIncidents`,
`MCBackups`, `MCOutages` and `MCHistory` only name the instance.

`MCServices` composes `Login`, `Passkeys`, `Tokens`, `Outages`, `Monitor` and `Policy`, `MCUpkeep`
composes `Access`, `History`, `Update` and `Startup`. The parts of a composition share the clock at most and
no other variable, so a property of one part cannot depend on what another does: every
interleaving restricted to one part's variables is a behaviour of that part (of the specification with
`focus`, `PartsHold` and `UpkeepPartsHold` prove it). The variable `focus`
therefore picks the part a behaviour moves, and the others stay at one initial state; the run
explores the sum of the parts instead of their product.

`FleetProofs`, `IncidentsProofs`, `AccessProofs`, `BackupsProofs`, `SignInProofs` (Login, Passkeys
and Tokens), `OutagesProofs`, `ServicesProofs` (Monitor, Policy and the composition `MCServices`) and
`UpkeepProofs` (Startup, Update, History and, with `AccessProofs`, the composition `MCUpkeep`) hold the theorems.

## 4. The runs

| run | shows | distinct states |
|---|---|---|
| `fleet` | types; `UnreachableNeverValid`: status and credential are always a pair that was written together; `PauseStands`, `RemovalStands`: a settled pause or removal survives passes, checks and later edits; `SecretStands`: a stored secret is never undone by polls or refreshes; `EventuallyAccurate`: once panels and operators rest, the health columns of polled servers settle on the truth | 1 011 184 |
| `fleet_disable` | violation of `DisableHolds` ([finding 1](#8-findings)) | |
| `incidents` | types; `OneOpenIncident`; `EscalatedOnce` (again only for a crash between send and mark); `HandledStaysQuiet`; `SilencedOpensNothing`; `Refines`; `IncidentsFollow` (recovery resolves, a standing outage opens) and `NeglectEscalates`, restarts included | 250 587 |
| `incidents_maintenance` | violation of `MaintenanceSilences` (finding 2) | |
| `access_last_owner` | violation of `AlwaysAnOwner` (finding 3) | |
| `backups` | types; `OutcomeIsTrue`; `NoFalseAlarm`; `AcceptedRunsSettle`; `NegligenceShows`; `SuccessResolves` | 431 630 |
| `backups_settle` | violation of `RunsSettle` (finding 4) | |
| `services` | types; `GuessesBounded`: failed guesses of an address per window, however handlers overlap; `OneNotice`; `ChallengesAreTickets`, `DeletedStaysDeleted`; `RetiredStaysOut`: no rotation brings a retired secret back; `RateBound`: calls per sliding minute; `ChannelsHear`: channels and rows agree and no certificate is announced twice unless its stored date was undone; `RestartEarned`; `StatusShared`; `PageIsTrue` | 874 020 |
| `upkeep` | types; `OwnerRemains`, `SetupOnce`, `RoleStands`, `ResetEvicts`: accounts and sessions under two requests at a time; `InstalledIntact`; `DataOutlivesStarts`; `HistoryTold` | 676 586 |
| `certificates` | violation of `CrossingAnnounced` (finding 5) | |
| `charts` | violation of `ChartEndsNow` (finding 6) | |
| `monitor_probe` | violation of `OneProbe` (finding 7) | |

`access_last_owner`, `services`, `upkeep`, `certificates`, `charts` and `monitor_probe` switch the deadlock check off:
when a bound on requests, passes or time is used up the model has nothing to do. In the other
modules the poller goes on.

Several properties carry a condition on overlap ("while no other handler held the row", "unless
two updates overlap", "unless two launches looked for the same missing file at once"). It is not
there to make them hold by construction: it is the strongest promise code without transactions
or file locks can keep. What happens without it is shown by `fleet_disable` for a pause, by
`access_last_owner` for the owners and by `monitor_probe` for the shared probe; for updates and
launches of the app that overlap no run shows it, and what they may do to one another (a staged
file with two writers, a key made twice) is left open.

## 5. Bounds

| bound | value | why it is enough |
|---|---|---|
| `Servers` (Fleet, Backups), `Alerts` | 1 | rows of different servers are never written together, and no operation reads two; the theorems hold for any number |
| `Requests` | 2, and the poller beside them in Fleet | every race of the code is between two copies of a row: a handler and a handler, or a handler and the pass |
| `Secrets` | 2 | an old one and a new one |
| `MaxOps` | 2 to 5 requests | a lost update needs two; the chains worth having (edit, disable, check; demote, log in, edit; reset over a login) need at most four or five |
| `MaxFaults` | 1 to 3 | a crash, and a change of the panel before and after it |
| `Duration`, `EscalateAfter`, `Retention`, `MaxSnooze` | 1 tick | one tick makes "not yet" and "due" two states; ages stop at `MaxAge`, past every comparison |
| `MaxNotes` | 2 | an incident, and its successor after recovery or prune |
| `Admins`, `Sessions` | 2 | two owners are what the last-owner race needs; a session from before and one from after a change |
| `MaxRuns`, `MaxDay` | 2 runs, days 0 to 2 | a success and a later run; thresholds of one day are crossed and not crossed |
| `MaxTime` | 3 (services, upkeep) | windows, lifetimes and thresholds are 1 or 2 ticks: before, at and after each of them |
| `MaxFailures`, `AlertThreshold`, `Window`, `Lockout` | 2 | a first failure, and the one at the limit; `PruneAt` = 1 makes every record clean up. `Lockout` = `Window`, the default, is the tightest case of `LocksLast`: a lock ends when the window of the failures before it does. `MaxLogins` = 5 is one failure more than `Allowance`, which is 4 (with 6, TLC also finds that 3 would not be a bound) |
| `Challenges`, `Keys`, `Finishers` | 2 | a ceremony of each kind at once, and two finishes of one; `MaxCeremonies` = 6 covers begin, finish, delete and restart of both |
| `Tokens`, `Clients`, `Rotators` | 1, 2, 2 | tokens share only the map of windows; the races are two calls, or two rotations, of one token. `Limits` 0 and 2: none, and one that is reached |
| `Servers`, `Channels` (Outages) | 1 | a poll writes one row, a delivery is about one channel; the theorems hold for any number |
| `CertDates`, `CertWarn` | {2, 4}, 2 | a date that is near from the start and one that comes near |
| `Panels`, `Views`, `StatusTTL` | 1, 2, 2 | the cache is per server; two loads are a leader and one who joins or is too late |
| `Fleet`, `Versions` (Policy) | 3, 2 | a majority, a tie (with a disabled or silent server) and a minority; `PolicyRows` has a row for each check |
| `RangeCap`, `ChartPoints`, `MostBeats` | 3, 1, 2 | below, at and above each cap within four instants; `Windows` 2 and 3 are as long as the retention and longer |
| `Apps`, `Tags`, `MaxUpdates` | 2, 3, 3 | two overlapping updates, a release that moves on in between, and a third update after a failure |
| `Launches`, `MaxStarts`, `MaxCuts` | 2, 3, 2 | two launches at once and one after them; each file's write cut off once |
| `RetentionDays` = `BackupStaleDays` | 1 | the edge: pruned on the day it becomes stale. With a shorter retention the code does raise false alarms, so that `NoFalseAlarm` needs `RetentionDays >= BackupStaleDays` |

## 6. Fairness

- *Fleet*: weak fairness of each handler's step, of `PollOnce` and of each goroutine. Every call
  carries a timeout and `Run` starts a pass at every tick, so each of them is taken when it
  stays possible. Nothing obliges operators, panels or crashes.
- *Incidents*: weak fairness of the loop and of the evaluation of each alert, for the same reason.
- *Backups*: weak fairness of the poller's next item, strong fairness of `WatchBackups` and
  `Prune`: both tickers fire for ever, and `select` takes one of two that are ready at random, so
  each is taken again and again although the other disables it for a while.
- *Access* and the parts of `MCServices` and `MCUpkeep` have no liveness property and no fairness:
  a handler, an update or a launch may stop at any step, which is what their properties are about.

`Restart` is bounded by `MaxFaults`: a process that crashes for ever fulfils nothing.
`NegligenceShows` assumes `RetentionDays >= 0`, since `prune` returns before the stale check
when pruning is switched off.

## 7. The proofs

For every value of the constants that satisfies the modules' `ASSUME`s (natural-number
bounds; secrets distinct from the three reserved values):

| module | theorem | argument |
|---|---|---|
| `FleetProofs` | `TypeCorrect` | inductive by itself |
| | `UnreachableNeverValidHolds` | `HealthInv`: every copy in flight (poller or handler) that may be written back holds a pair that was written together; the invariant alone is not inductive, since a step may write a copy |
| | `SecretStandsHolds` | `SecretInv`: while the vault knows the secret, the row holds it and so does every refresh that will write the row back |
| | `RemovalStandsHolds` | `RemovalInv`: while a removal stands nobody holds the row to save it, and what the pass writes needs a row that is there |
| | `PauseStandsHolds` | `PauseInv`: while a pause stands the row is disabled, no goroutine of the pass has it, and a handler that does will either write it back disabled or withdraws the pause when it writes; proved per handler (`HandleLocal`, `Settles`) |
| `IncidentsProofs` | `TypeCorrect`, `OneOpenIncidentHolds`, `SilencedOpensNothingHolds`, `EscalatedOnceHolds`, `HandledStaysQuietHolds` | one invariant `Inv`, with a conjunct per idea: only a pass has work (`LoopInv`), an alert past its gate has no incident (`OpenInv`), a silenced one is not past it (`HushInv`), unissued rows are unused (`FreshInv`), nothing handled is on the sweep's list (`HandledInv`), and every send but one per note is paid for by a crash (`SentInv`) |
| | `RefinesHolds` | `Incidents` implements `IncidentLife`: with `Inv` and `RecoverInv` (a recovery about to be recorded has its incident) the open row of an alert is unique, so that each step changes one incident as `IncidentLife` allows, or none (`LifeEvaluate`, `LifeLoop`, `LifeOperate`, `LifeRestart`) |
| `AccessProofs` | `AccessTypeCorrect` | needs that a busy handler has an account and a row (`BusyType`) |
| | `RoleStandsHolds` | `RoleInv`: while the standing role is known, every handler that will write the account back holds that role |
| | `OwnerRemainsHolds`, `SetupOnceHolds` | `IdsInv` (an id a handler or a row has is no longer unissued) and `OwnerInv`: without overlap at most one writer exists, and it was checked against the accounts as they still are |
| | `ResetEvictsHolds` | `ResetInv`: no row, no handler and no live session of an account is older than the reset that evicted it |
| `SignInProofs` | `LoginTypeCorrect`, `PasskeysTypeCorrect` | with the types, the bounds of what a handler under way may hold |
| | `OneNoticeHolds` | `AlertsAlone`: unless the account is in `twice`, at most one handler is between its alert and the end of `failLogin`, and one that found no notification is right about it |
| | `DeletedStaysDeletedHolds` | inductive with the types: a registration draws a key that was never deleted, and a stamp looks at the row it writes |
| | `ChallengesAreTicketsHolds` | every step maps to `Issue`, `Redeem`, `Lapse` or a stutter of `Ticket`; time lapses the set of challenges whose moment has passed, a restart all of them |
| | `GuessesBoundedHolds` | `GuessInv`: of the log of an address, what is neither in the current run nor in one run that did not lock before it is out of the window; under a lock all of it is from before the lock's instant, and at that instant the handlers still under way have room in the bound; shown for each thing `Record` may do (lock, count on, start anew) |
| | `TokensTypeCorrect`, `RetiredStaysOutHolds` | `Referred` (rotations and requests are about rows that exist), `Drawn` (secrets come from a counter) and `Retired` (a retired secret is another than the row's, or the row is revoked): a rotation under way writes the hash, never the revocation |
| | `RateBoundHolds` | `RateInv`: a request goes by its token's limit, and of the log of a token what the current window did not count is no longer than a limit less one, or a minute old; the lemmas about logs (`Ordered`, `Spaced`, `Past`) are shared with the guesses |
| `OutagesProofs` | `OutagesTypeCorrect` | per server; a poll's record fixes what its next step may find |
| | `RestartEarnedHolds` | `RestartInv`: the streak is the number of failures, the mark of an attempt is there exactly when there was one, and a goroutine about to call has the failures and no mark |
| | `ChannelsHearHolds` | `AgreeInv` (a channel that missed nothing was told what the row says, or, while a poll has stored and not yet sent, what the row it was given said) and `CertInv` (every announcement but the one at hand is paid for by a stored date that was near, or by one that an import or an older copy undid: `ReadBefore`, `SpentFor`, `AboutToSpend`); each has a lemma for the steps that leave a server's facts alone |
| `UpkeepProofs` | `StartupTypeCorrect`, `DataOutlivesStartsHolds` | `FilesFound` (who went past a file found it), `KeyAgreed` and `JwtAgreed`: without a race one launch at most makes a file, nobody has read it before it is whole, and all who have read it agree |
| | `UpdateTypeCorrect`, `InstalledIntactHolds` | `Steady` (a stream that has a name has its file), `OneUpdates` (one update streams into its own file, swaps it only when whole, and aims past whatever was installed) and `Images` (while the program is away every instance runs from the copy, which keeps that in place) |
| | `HistoryInvariant`, `HistoryTypeCorrect` | `HistoryInv`: a check is kept until it is older than the retention; unless all are gone, one that is kept is no older than what the server's row tells of; an open count began with at least the checks that are left, less those recorded since |
| | `HistoryToldHolds` | charts and lists follow from the types by lemmas on finite sets of instants: places grow with time (`PlaceGrows`), a newest row is there since places are a bijection (`NewestIsThere`), and the strided rows go one to one into the points of the chart (`StridedRows`, over `Division`); uptimes from `HistoryInv` |
| | `UpkeepPartsHold`, `UpkeepTypeCorrect` | a step of the composition is one of its four parts and a stutter of the others |
| `ServicesProofs` | `MonitorTypeCorrect`, `StatusSharedHolds` | `ShareInv`: while a cached status holds, the loads that looked before it was stored, and may still ask again, are fewer than the views left |
| | `PolicyInvariant`, `PolicyTypeCorrect`, `PageIsTrueHolds` | the sorted list of versions is there for every fleet (`SortedIsThere`, from the number of versions in front of each) and has every version in use once (`ListOfVersions`), so that its first element is the majority (`MajorityIsStrongest`); the table holds what was last said |
| | `PartsHold`, `ServicesTypeCorrect` | each step of `MCServices` is one of its six parts, which alone may move the clock, and a stutter of the others |
| `BackupsProofs` | `TypeCorrect` | `TypeInv`: with the types, a run the watch has listed is still unsettled, and a run unknown to the panel has no row |
| | `OutcomeIsTrueHolds` | inductive with `TypeInv` |
| | `NoFalseAlarmHolds` | `RememberInv`: a success within the threshold is still in the table, which needs `RetentionDays >= BackupStaleDays`, the assumption of the theorem; `CheckInv`: a check that is about to write looked in vain, with the date and the table of its look |

The action properties follow from the invariant and a lemma per step. Handlers that share
a shape share lemmas (`Arrives`, `HandleMoves` in `AccessProofs`).

The bound of `GuessesBounded` was found by proving it. A smaller one, two runs short of the
limit and the handlers under way, holds when a lock outlasts the window; when both last equally
long, as by default, the run that locks and the one before it may lie in one window, and a
run of TLC with five requests or fewer does not show it. With a lock shorter than the
window, which the configuration allows, an address gets several locks in a window and no such
bound holds: that is the condition `LocksLast` of the property.

The theorems are about all values that satisfy the assumptions of the modules. Those that say
something about the program are `ChartPoints <= RangeCap` (400 and 20000) and a retention that
is never zero, which the poller reads as the default.

*Only model-checked*: the liveness properties `EventuallyAccurate`, `IncidentsFollow`,
`NeglectEscalates`, and `AcceptedRunsSettle`, `NegligenceShows`, `SuccessResolves` of `Backups`,
which are out of the prover's reach. Every other property of a passing run is a theorem.

## 8. Findings

1. **A disabled server is enabled by a check** (`fleet_disable`, `api/servers.go:692`). `checkHealth`,
   and a poll or capabilities refresh in flight, write `active` over `disabled`, so the server is
   polled again, against `docs/API.md:155` and the comment at `poller/poller.go:180`.
   `PauseStands` is what remains true.
2. **Escalations ignore maintenance windows** (`incidents_maintenance`, `poller/poller.go:824`).
   The sweep dispatches with a nil server, and `dispatch` skips its maintenance check.
3. **Two owners can remove each other** (`access_last_owner`, `api/admins.go:130`). The count and
   the write are separate statements.
4. **Backup runs that never settle** (`backups_settle`, `api/server_actions.go:169`). A run whose
   first word is outside pending/running, or which has no operation id, is never polled,
   never counts as a success and is never pruned.
5. **A certificate that ages is never announced** (`certificates`, `poller/poller.go:849`). The prior
   date is compared with the same instant as the new one, so that after the pass that stored a date
   "newly near" is never true for it; only a date first read when it is near already, or an earlier one, is announced.
6. **A long chart ends in the past** (`charts`, `api/servers.go:592`). A range reads the *oldest* 20000
   samples of its window; with a check a minute and 14 days kept, the newest are left out.
7. **A panel is asked twice for one status** (`monitor_probe`, `api/monitor.go:405`). Nobody looks in the
   cache again inside the shared call, so a load that looked before another's probe was stored,
   and gets to `sf.Do` after it ended, sends a second request, against the comments at
   `api/monitor.go:23` and `:391` and the test at `api/monitor_dedup_test.go:14`. What remains true
   is `StatusShared`: only loads that had looked before do so, each once.
8. **A chart has a point too many** (`upkeep`, `api/servers.go:627`). The comment promises at most `target`
   points; the last sample is appended to the strided ones, and 800 samples thinned to 400 give 401
   (the test `api/audit_prometheus_test.go:153` accepts 402). `HistoryTold` holds with `target + 1`.

Seen while reading and not made into runs (the larger ones are hazards in `PROJECT.json`):

- a demoted operator keeps the JWT's role until the session ends; notifications of kinds that
  are never resolved are never pruned; incidents whose rule, service or server goes away stay
  open; `breachSince` survives missing readings and rule changes;
- the token reminder is switched off by a negative `retention_days` and, for the server command,
  by the poller of `cmd/server/serve.go:214`, which is given no token repository;
- a stale-backup incident opens over a success that is recorded in the middle of the check, and
  stays until the next one (`poller/poller.go:343` to `:362`);
- an import of a known server erases its certificate date (`api/settings.go:279`), and the next pass
  announces the certificate again;
- the percentage of an uptime exceeds 100 when healthy checks are recorded between its two counts
  (`repository/heartbeat_repository.go:79`): `HistoryTold` bounds the excess and does not exclude it;
- two launches of the app that both find a file missing may each make it, and the one that loses
  has sealed with a key that is gone (`cmd/desktop/main.go:307`): `DataOutlivesStarts` excuses them;
- `api/alerting.go:231` keeps a channel's stored configuration when the new one is empty, but
  `validateChannel` refuses an empty one before;
- a channel whose minimum severity is above "info", which the default "warning" is, hears that a
  server is down and never that it recovered (`poller/poller.go:787`);
- a waived warning about a certificate also hides the critical one it becomes (`policy/policy.go:63`);
- the PagerDuty key of a message (`alert/channels.go:212`) names the server, not the alert;
- a key file left blank by a start that was cut off makes every later start fail, a blank JWT
  secret leaves the app without login routes; both need the file to be deleted by hand;
- nothing calls `PruneExpired` of the policy exceptions.

## 9. What is not modelled

Planned: see row 11 of the plan. Assumed throughout: an SQL statement succeeds unless the
module says otherwise (the refused second rule in `Startup`, the exceptions that cannot be read in `Policy`);
releases only move forward; a pass lasts less than a tick; the hourly prune of the history
is one step.

Left out for good: cryptography (AES-GCM, TOTP, JWT signatures, WebAuthn), which the models
use by what it promises; HTTP, JSON and SQL encodings; wording and layout of messages; the
cached version check and the comparison of tags (the models order releases); the report, the
Prometheus page, the dashboard's averages, mail and inventory, which read rows and keep no state; the web interface
and the Android shell, which hold no rule of their own; the desktop's own reset
command (it is the local reset of `Access`); migrations, which finish before anything else
starts; configuration and wiring, of which the restart is in every module.
