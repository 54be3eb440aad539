# TeleOps: TLA+ models and proofs

TeleOps is a Telegram bot (NestJS, Telegraf, Prisma) that operates a host: it runs Docker
actions, database backups, deployments and rollbacks, manages its users and settings, and
watches health targets. This directory models the parts where the order of steps decides
whether the system is correct, checks the models with TLC and proves the main results with
TLAPS for every value of the constants.

Paths below are relative to the repository; `DECISIONS.md 9` is the ninth entry of that
file.

## 1. Inventory

| Component | Source | State it keeps | Operations |
|---|---|---|---|
| Confirmation flow | `src/modules/action-request/`, `src/telegram/telegram.update.ts` | `ActionRequest` rows | request, confirm, cancel, expire, settle |
| Roles and permissions | `src/modules/rbac/` | none (a constant matrix) | `hasPermission` |
| Users, authentication | `src/modules/users/`, `src/modules/auth/` | `User` rows | authorize, bootstrap the owner, self-register, change status, change role, create |
| Audit log | `src/modules/audit/` | `AuditLog` rows (append only) | record, list |
| Settings | `src/modules/settings/` | `Setting` rows | read and set the TTL and the dangerous-actions switch |
| Deployment | `src/modules/deploy/` | `DeploymentRun` rows, a git tree, a compose project | deploy, preview a rollback, roll back |
| Docker actions | `src/modules/docker/` | the engine's containers | list, start, stop, restart, remove, logs |
| Backup | `src/modules/backup/` | `BackupRecord` rows, files | create, prune, deliver the latest |
| Alerts | `src/modules/alerts/` | `AlertEvent` rows, `isRunning` | evaluate: open, refresh, resolve, notify |
| Monitoring | `src/modules/monitoring/` | `MonitoringSample` rows (never read back) | probe |
| Rate limiting | `src/common/rate-limit/` | a timestamp list per Telegram user | `consume` |
| Telegram transport | `src/telegram/telegram.service.ts` | none | launch, start handlers, catch |
| Screens, navigation, callback data, dashboard, health endpoint, configuration | `src/telegram/`, `src/modules/dashboard/`, ... | none | format and parse |

**How they interact.** Telegraf starts one handler per update. A handler authorizes its
sender (`AuthService` over `UsersService`) and then either renders a screen, or requests a
mutation (`ActionRequestService.createPendingRequest`, an audit entry, a keyboard with the
token), or confirms or cancels one. A confirmation calls the effect (`DockerService`,
`BackupService`, `DeploymentService`, `UsersService`, `SettingsService`) in the same handler
and settles the row with what the effect did. The alert runner is the only activity without
a sender: a timer evaluates the rules on a fresh monitoring overview, and so does the monitoring
screen. Everything shared is in the database, in the host's files and containers, and in the
rate limiter's map; nothing uses a transaction, a version column or a conditional update.

**What is hard.**

- *Interleaving.* Node runs a handler without interruption from one `await` to the next.
  Telegraf starts the handlers of a batch of updates together and goes on polling when they
  take longer than 90 s, so handlers interleave at every `await`.
- *Check, then act.* `resolveForActor` / `markConfirmed`, `ensureNoRunningDeployment` /
  `create`, `findByTelegramUserId` / `createPendingTelegramUser`, the open alert events /
  `create`: each pair is two calls.
- *Failure.* Any awaited call may reject, with its write applied or not. Inside
  `handleConfirmationCallback`'s `try` this leads to `markFailed`; outside it ends in
  `bot.catch`. Deployment rows are settled by a `catch` of their own.
- *Crashes.* Nothing is repaired at start-up except the owner's row;
  `dropPendingUpdates` discards what was queued.
- *Time.* Tokens expire, alerts cool down, backups are pruned, commands are killed after
  120 s.

**What makes each component correct.** The confirmation flow: single use, by the requester,
in time, with a row and an audit entry that tell what happened. Users: one owner, never
disabled; a revoked permission stays revoked. Deployment: one run per target, history that
tells what is live, rollbacks that restore what was live. Backup: a SUCCESS row has its own
file, retention removes only what is old. Alerts: one open event per rule, a notice per
opening and at most one per cooldown, every event resolved in the end. Rate limiting: no
more than the limit in any minute. Docker: only allowed containers, only while the switch is
on.

`PROJECT.json` lists every component with its status, and under `hazards` each place in the
code where one of these could go wrong.

## 2. Modules

| Module | What it is |
|---|---|
| `Rbac` | the permission matrix and the permission of each family of actions; pure operators |
| `ActionRequests` | the confirmation flow, one action per stretch of code between two awaits |
| `OneShotApproval` | abstract: a token is offered, taken or dropped, and spent at most once |
| `OverlappingApproval` | abstract: what overlapping updates leave of that promise: an open token clears handlers, an answered one nobody |
| `MCActionRequests` | `ActionRequests` with symmetric handler slots |
| `ActionRequestsProofs`, `ApprovalProofs` | theorems about `ActionRequests`; that it implements `OneShotApproval` and `OverlappingApproval` |
| `Deployment` | `DeploymentService` on one target with its git tree and compose project |
| `DeploymentProofs` | theorems about `Deployment` |
| `Alerts` | the evaluation of alert rules by the background runner and by the monitoring screen |
| `MCAlerts` | `Alerts` with symmetric slots of the runner |
| `AlertsProofs` | theorems about `Alerts` |
| `Accounts` | `UsersService`, `AuthService` and the owner's bootstrap on the `User` table |
| `AccountBook` | abstract: what may happen to the account table, one decision at a time |
| `MCAccounts` | `Accounts` with symmetric handler slots |
| `AccountsProofs` | theorems about `Accounts`; that it implements `AccountBook` |
| `Backups` | `BackupService` with its rows, its directory and the delivery of files |
| `MCBackups`, `BackupsProofs` | symmetric slots; theorems about `Backups` |
| `DockerActions` | `DockerService` and its gateway, with the switch of `SettingsService` |
| `MCDockerActions`, `DockerActionsProofs` | symmetric slots and some allowlists; theorems |
| `RateLimit` | `TelegramRateLimitService.consume` |
| `MCRateLimit`, `RateLimitProofs` | symmetric users; theorems |

An operator whose name is `<Definition>_<Bug>` is a mutated form of that definition, a
plausible bug; no specification uses it. Each property of a passing run is violated once
the mutant named in `PROJECT.json` takes the place of its definition.

### ActionRequests

A handler slot `h` is an update in process: `pc[h]` names the call it is suspended in,
`call[h]` holds its arguments and locals. `status`, `terms` and `audit` are the
`ActionRequest` row and the audit results of a token; `account` the role and status of each
user; `ran[t][h]` is a ghost that counts effects.

| Place | Suspended in | Action that leaves it |
|---|---|---|
| `received` | `findByTelegramUserId` / `ensureOwnerUser` | `FindUser` |
| `touching` | `touchTelegramProfile`, whose row has the role used from here on | `TouchProfile` |
| `authorized` | resolving, or preparing a request | `Propose`, `Decline`, `ResolveUnusable`, `ResolveExpired`, `ResolveReady` |
| `inserting`, `auditingRequest` | `createPendingRequest`, its audit entry | `InsertRequest`, `AuditRequest` |
| `expiring` | the update to EXPIRED | `Expire` |
| `confirming` ... `reporting` | the `try` block of `handleConfirmationCallback` | `MarkConfirmed`, `Execute`, `MarkExecuted`, `AuditSuccess`, `Report` |
| `failing`, `auditingFailure` | its `catch` clause | `MarkFailed`, `AuditFailure` |
| `cancelling`, `auditingCancel` | `handleCancellationCallback` | `MarkCancelled`, `AuditCancelled` |

`Throw` lets any of these calls reject, with its write applied or not; `CrashAndRestart` loses
every handler; `Tick` is the clock; `AdministerAccount` is an administrator's change of another
account, any that `Rbac` has as `Administrated`. The effect is opaque: it refuses, acts and
throws, or acts and returns; `MayHang` is where it, or the container list a docker request starts
from, may not come back at all. What follows the last write of a handler (an answer, a screen)
stores nothing and is left out, except on a confirmation, where a failing one leads to the `catch`
clause.

### Deployment

`origin` is the remote tip of the branch, `tip` the local branch, `head` and `detached` the
checkout, `stack` the commit compose last brought up, `runs` the rows by creation, `offers` the
rollback commits on open keyboards. A handler is a confirmed deployment, a confirmed rollback or a
rollback request preparing its preview. `Admitted` are the handlers that found no RUNNING row and
have still to insert theirs; the ghost `raced` is raised when a second one finds none meanwhile,
which is how the lock lets two runs through. `git fetch` changes nothing the model keeps and is
part of `Checkout`. `CommandFails` is any command or probe failing; a command that did its work
before it failed is the same command succeeding and the next one failing. `DatabaseFails` is a
database call rejecting, its write applied or not; a failing insert is outside the `try` block and
can leave a RUNNING row. `Discard` is a cancelled or expired keyboard. The branch is linear: a
forced push makes `git pull --ff-only` fail, which `CommandFails` covers. Targets are assumed not
to share a directory or a compose project. A project that compose leaves half updated is not
represented: `stack` changes as a whole or not at all. A crash ends the commands with the process:
a child that outlives it is not represented either. The manual fallback of the rollback runbook is
outside the model.

### Alerts

A slot `e` is an evaluation: the runner's when `e \in Runners`, a visit to the monitoring
screen when `e \in Screens`. `pc[e]` names the call it is suspended in, `loc[e]` what it has
read: the rules whose condition the snapshot meets, the enabled rules, the open event found
for each, its stamp and the rule the loop is at. `events` are the `AlertEvent` rows with
their status and `lastNotifiedAt`; `isRunning` is the flag that keeps the timer from starting
a second evaluation. Ghosts: `by` and `told` in a row (who opened it, how often its recovery
was announced), `notified` and `early` (the last opening notice of a rule, the notices
repeated within the cooldown).

| Place | Suspended in | Action that leaves it |
|---|---|---|
| `probing` | the monitoring overview | `Probe` |
| `loading` | reading the rules file | `LoadRules` |
| `finding` | `findMany` of the open events | `FindOpen` |
| `notifying` | `notifyOpenAlert` | `NotifyOpen` |
| `creating`, `refreshing` | the row's `create` or `update` | `StoreOpen` |
| `resolving` | the update to RESOLVED | `Resolve` |
| `announcing` | `notifyResolvedAlert` | `NotifyResolved` |

`Throw` lets any of these calls reject, its effect applied or not, which ends the evaluation:
the rules behind the current one wait for the next. `CrashAndRestart` loses the evaluations
and the flag, and may bring up another chat setting. All targets are probed at one instant.
The query has no order, so of several open events of a rule `FindOpen` may pick any. A rule
that is disabled or removed from its file is one outside `enabled`; a target that is disabled
or removed meets no condition. Rule names are assumed to differ. Message texts and the
metrics a rule looks at are left out: only whether its condition is met matters.

### Accounts

`row` is the `User` table, reduced to role and status; rows are never deleted, so a Telegram id
names a row too. `boot` is where `AuthBootstrapService` is: updates are handled only after it.
A handler `h` is suspended at `pc[h]` with its sender, the role it was found to have, the
request in hand and the row it read. A request (`asked`) is reduced to its sender, the change
it asks for and whether it can still be confirmed: deadlines and verdicts are in
`ActionRequests`, where `AdministerAccount` stands for all of this module. That it may is
`ChangesAreKnown`: once everyone has an approved account, whatever the handlers do changes one
account at a time, to one of `Administrated` (the operator `AdministerAccount` picks from) or by
the owner's reinstatement, which is part of `FindUser` there (an owner of the past, who becomes an
administrator with it, is none of that module's).

| Place | Suspended in | Action that leaves it |
|---|---|---|
| `received` | `updateMany` of `ensureOwnerUser` (the owner), or `findByTelegramUserId` | `DemoteOtherOwners`, `FindUser` |
| `promoting` | the upsert of `ensureOwnerUser` | `Promote` |
| `registering` | `createPendingTelegramUser` | `RegisterPending` |
| `touching` | `touchTelegramProfile`, whose row has the role used from here on | `TouchProfile` |
| `authorized` | asking for a change, confirming one, or neither | `AskStatus`, `AskRole`, `Confirm`, `Leave` |
| `confirming` | `markConfirmed` | `MarkConfirmed` |
| `reading`, `writing` | the two calls of `updateUserStatus` or `updateManagedUserRole` | `ReadTarget`, `WriteTarget` |
| `creating` | the upsert of `createManagedUser` | `CreateManagedUser` |

`Throw` lets any of these calls reject, its write applied or not; `BootFails` does the same at
start-up, which ends the process; `CrashAndRestart` may bring up an environment with another
owner. `AccountBook` has the same table and one step per decision: `Register`, `SetStatus`,
`SetRole`, `Provision`, `Dethrone`, `Crown`, `Appoint`. `read` starts as `None` because a
registration is decided by having found no row. `managed` is a ghost.

### Backups

`rows` are the `BackupRecord` rows by creation, those deleted kept with `live = FALSE`; `files`
is the directory, by name. A name is the second a backup began in, so two backups begun at one
value of the clock share a file. A content says whose dump it is and whether it is partial,
whole or mixed with another dump's; `sum`, the checksum, is the content measured. A tick of the
clock stands for the unit of retention: a backup may begin, dump and be pruned at any distance
of ticks, `pg_dump` having no timeout.

| Place | Suspended in | Action that leaves it |
|---|---|---|
| `inserting` | `mkdir`, the insert of the RUNNING row | `Insert` |
| `opening`, `dumping` | `pg_dump`, before and after it truncates its file | `Open`, `DumpDone`, `DumpFails` |
| `measuring` | `stat` and the checksum | `Measure` |
| `storing` | the update to SUCCESS | `Store` |
| `scanning`, `unlinking`, `deleting` | the three calls of `pruneExpiredBackups` | `FindExpired`, `Unlink`, `UnlinkFails`, `DeleteExpired` |
| `clearing`, `failing` | the `catch` clause | `Clear`, `ClearFails`, `MarkFailed` |
| `finding`, `checking`, `sending` | finding the latest row, its `stat`, sending the document | `FindLatest`, `CheckFile`, `EndDelivery` |

`Throw` is a database or file call that rejects, its write applied or not; a failing `pg_dump`
is an answer of its own and not counted as a failure. `stat` and the checksum are one step: a
file that vanishes between them makes the same clause run. `CrashAndRestart` ends the
process and its `pg_dump`. An unlinked file that is still being written is written out of sight.
Sizes, the Telegram limit and the size check before delivery only decide whether a document is
sent, which is left open.

### DockerActions

`setting` is the stored switch and `env` what the process was started with: the switch's
default and the allowlist. `state` is what the engine says of each container. Requests are rows
by creation, `open` those still PENDING; two confirmations may find one of them open.

| Place | Suspended in | Action that leaves it |
|---|---|---|
| `asking`, `finding` | the switch and the container list, for a request | `ReadSwitchToAsk`, `FindToAsk` |
| `recording` | `createPendingRequest` | `CreateRequest` |
| `confirming` | `markConfirmed` | `MarkConfirmed` |
| `checking`, `listing` | the switch and the container list, for an execution | `CheckSwitch`, `CheckTarget` |
| `acting` | the call to the engine | `Act` |
| `storing` | `setDangerousActionsEnabled` | `Store` |

The engine is outside the repository: `Effect` is what its documented calls do to a container
with the options the gateway passes (stop with a grace period, remove without force), and
`Elsewhere` lets containers start, pause, exit and go by themselves. `RemovedWasStopped` rests on
the engine's own refusal to remove a running container without force: the code's check of the
state is stale by the time of the call. A container keeps its id
and its name, and twelve characters of an id tell containers apart. Who may ask is in
`ActionRequests`.

### RateLimit

`calls` is the history of `consume` in the life of a process, `buckets` which of these calls a
user's timestamps are of: the code stores the times, and the calls have theirs. The clock is
`Date.now()`, taken not to run backwards; `consume` has no await and is one step, `Allow` or
`Refuse`. `Restart` empties the map. `Window` and `Second` are numbers of ticks.

## 3. Runs

Every run but `docker` checks deadlock: there the bounds on requests and failures and
containers that are gone can leave nothing to do. "Sequential" means one handler slot: updates
that do not overlap.

| Run | Bounds | Shows |
|---|---|---|
| `approval_sequential` | 1 slot, 1 token, 2 actors, the docker and deploy families, TTL 1, time 2, 2 failed calls, 1 crash | the row tells whether the effect ran, the flow implements `OneShotApproval`, a confirmed request is settled, one stuck in an effect without a time limit excepted |
| `approval_overlap` | 2 slots, 1 token, 2 actors, time 1, 1 failed call, no crash, symmetric slots | implements `OverlappingApproval`; verdicts, lapsing and revoking hold in spite of overlap |
| `double_confirm` | 2 slots, no failures | violates `SingleUse` |
| `deployment` | 2 slots that overlap while there are fewer than 2 rows, commits 0..2, 3 runs, 1 failed database call, 1 crash | what breaks the lock and who holds it for good; history and rollbacks where it is not broken; every run settled |
| `failed_deploy_rollback` | 1 slot, 4 runs, only commands fail | violates `RollbackUndoesFailure` |
| `alerts_sequential` | 1 slot, 2 rules, cooldown 2, time 3, 3 changes, 1 failed call, 1 crash | notices per opening and cooldown, the table follows the targets |
| `alerts_overlap` | 2 slots of the runner and a screen, 1 rule, 2 changes, 1 failed call, 1 crash, frozen clock, symmetric slots | the flag, how many duplicates there can be, recoveries and their notices, resolved events and switched-off rules |
| `accounts` | 2 slots, 2 users, 2 requests, 2 roles to assign, 1 failed call or crash, symmetric slots | one owner, the abstract account book but for lost updates, only managers change accounts |
| `owner_demoted` | 1 slot, 2 users, 1 request, no failures | violates `OwnerKeepsRole` |
| `backups` | 2 slots, 2 backups, time 2, retention 1, 2 failed calls or crashes, symmetric slots | a SUCCESS row keeps its file, nothing is left behind, what is sent is whole, retention spares what is young |
| `docker` | 2 slots, 1 container, 2 requests, 3 allowlists, 2 failed calls or crashes, symmetric slots | the switch, the allowlist in force and the container's state hold when the engine is called |
| `rate_limit` | 2 users, limit 2, window of 6 ticks (3 seconds), time 11, 5 calls, symmetric users | the limit, deserved refusals, hints: longer than told is allowed, a second too early is not |

**Bounds.** `MaxTime`, `MaxFaults`, `MaxCrashes`, `MaxCommit`, `MaxRuns`,
`MaxOverlapped`, `MaxChanges`, `MaxAsks`, `MaxFailures`, `MaxBackups` and `MaxCalls` are guards.
*Tokens* never influence each other, so one is enough; `Fresh` is what several would test and
the proofs cover any number. *Two actors*: the owner, and one whose role and status
`Administered` lets an administrator change among `GrantableRoles` (one with and one without
the permission). *Two slots* are the smallest overlap; a third could only repeat what two do
to one row. *Time 2 with TTL 1* has a moment before, at and after the deadline; the overlap
run stops at the deadline, which is where expiry begins. *Two failed calls* reach a failing
`catch` clause. *Three runs* are two deployments and a rollback, or a deployment, its rollback and
the rollback of that; *three commits* make what they bring up differ. Handlers overlap while the
table has fewer than `MaxOverlapped` rows and take turns afterwards, and after a race nothing is
started that would make more: two handlers can race for an empty table or behind a run that has
ended, and be refused by one at work. The proofs have no such bound. `approval_overlap` has no
crash: crashes under overlap are covered by the proofs of its properties and by the sequential
run. *Alerts*: two rules, so that a call that fails for one delays the other; three
changes are a target that fires, recovers and fires again, or a rule switched off in between;
time 3 with cooldown 2 has a moment before, at and after the end of the cooldown. The clock of
`alerts_overlap` stands still because its properties do not depend on it, and the runner has
two slots because with one its flag would be idle. *Accounts*: two users, each in turn the
owner of the environment, the other one an administrator, a viewer, an owner of the past or
unknown (`Init` starts with any table earlier processes can have left); two requests are a
grant and the demotion of who asked for it, or two changes of one row; one failure cuts the
bootstrap between its two calls. *Backups*: two backups, because what one can do to another is
share a name or prune it; time 2 with retention 1 has a moment at and after expiry; two failures
are what it takes to lose a successful backup, so with fewer `LosingASuccessTakesTwo` would be
tried only on its easy side. *Docker*: two requests are an action and the toggle that should stop
it; two restarts change the allowlist twice; containers do not influence each other. *Rate
limit*: a window of three seconds of two ticks has calls at both its ends, inside and past it,
and hints that need rounding; five calls fill a bucket, are refused, wait and fill it again.

**Fairness.** `Fairness` is weak fairness of each handler's own steps, its failing included: an
awaited call settles. The commands of a deployment are killed after 120 s
(`safe-process-runner.service.ts`), probes are aborted after their timeout
(`http-health.gateway.ts`); that the database and Telegram clients answer or reject is assumed.
Docker engine calls and `pg_dump` have no time limit, and `ActionRequests` assumes nothing of
them: a handler at one (`MayHang`) may stay there for ever without a failed call or a crash, and
`EveryApprovalIsSettled` excepts exactly a CONFIRMED request in such an effect. For alerts it is
also that the runner's interval timer keeps starting evaluations. Nothing is assumed of users, of
the clock, of pushes, of targets or of crashes, and nobody has to visit the monitoring screen.
`Accounts`, `Backups`, `DockerActions` and `RateLimit` assume no fairness: what they promise is
safety.

**What the violations say.** They are disagreements between a text of the repository and the
code, quoted in `PROJECT.json` under `findings`.

- `double_confirm`: both handlers read PENDING before either writes CONFIRMED, and the effect
  runs twice. The same window, a read and a write by id in separate calls, is everywhere: a
  cancellation can overwrite a confirmation, two deployments can both find no RUNNING row, the
  runner and the monitoring screen can both open an event for one rule. One run stands for them.
- `failed_deploy_rollback`: a deployment succeeds, the next one fails its health check, and
  the rollback returns to the commit before the *first* of the two, because only successful
  runs are reversible.
- `owner_demoted`: `/adduser` with the owner's own id, confirmed, overwrites the owner's role.

The sequential runs say what is left when updates do not overlap; `AnswersAreFinal` that overlap
is the only way to use a token twice, `TwoRunsTakeARace` that two handlers between the check and
the insert are the only way past the lock of a target, `FollowsBook` that lost updates of single
rows are all that overlap does to accounts.

The commit a rollback goes to is worked out when it is confirmed and never compared with the one
that was previewed; a run that finishes in between changes it (`Deployment`, `ReadHistory`).
Backups that share a second share a file, and the failure of one removes the other's: the
properties of `Backups` except exactly these.

## 4. Proofs

Every theorem holds for all values of the constants that satisfy the named assumptions
(`ConstantsAssumption`, `NoneAssumption`, `DeploymentConstants`, `AlertsConstants`,
`AccountsConstants`, `BackupsConstants`, `NoContent`, `DockerConstants`, `RateLimitConstants`:
the bounds are naturals, the sets are what the code's enumerations allow, `None` is no value of
anything). The two that count (`OrphansAreCounted`, `RecoveriesAreTold`) also assume that there are
finitely many slots.

*Confirmation flow.* `IInv` is `TypeOK` with
`LocalsAreSound` (what a suspended handler knows: its token exists, the row belongs to its
actor, past the check its role permits the action),
`InsertsAreFresh` (a token being inserted belongs to one handler and has no row) and
`RunsAreAccounted` (an open token was never run; a handler cleared to run it has not run it).
The last one is needed because `RunsOnlyByOverlap` (one handler runs a token once at most) alone
does not exclude a handler about to run it a second time. From it:

- `TypeCorrect`, `OverlapOnly` (`RunsOnlyByOverlap`) and `RequesterOnly`
  (`OnlyTheRequesterMovesAToken`) for any number of overlapping handlers;
- `OverlapsFollowApproval` (`AnswersAreFinal`): for any number of overlapping handlers, failed
  calls and crashes, every step maps to a step of `OverlappingApproval` or to a stutter under
  `Stage` and `ClearedFor`. A token runs as often as handlers found its row PENDING, and never for
  one that came after its answer, which is all that `double_confirm` can be;
- `LapsedForGood` (`LapsedStaysLapsed`): a handler can only be cleared before the deadline;
- `RevokedForGood` (`RevocationHolds`): a handler keeps the role it read, and only a later
  authorization reads another;
- `VerdictsAudited` (`VerdictsAreAudited`) for any number of overlapping handlers, from
  `AuditsAreOwed`: an entry that is still missing is owed by a handler at work or was lost to
  failed calls;
- `SequentialSingleUse` (`SingleUse`), assuming all handler slots are one;
- `FlowImplementsApproval` (`ImplementsApproval`): with one slot every step maps to a step of
  `OneShotApproval` or to a stutter under `Phase` and `Used`. With two slots this is false
  (`double_confirm`);
- `StatusIsTruthful` (`StatusTellsEffect`), with one slot, from the same invariant and
  `RowInHand` (between its reads and writes nothing moves the row a handler holds).

*Deployment.* `IInv` is `TypeOK` with
`PreviewsOnlyRead`, `RowsAreKept` and, as long as nothing `raced`,
`LockIsHeld` (one handler at most is `Busy`, past the check or at work; one past the check found no
row RUNNING, one at work has the last row, the only one RUNNING),
`BuiltFromHead` (once compose is up the stack is HEAD's, until the row says so) and
`RecordTellsLive`. `LockIsHeld` is what `TwoRunsTakeARace` lacks to be inductive, `BuiltFromHead`
what `RecordTellsLive` lacks: a crash or a lost acknowledgement can end a run at any point. A
handler in its `catch` clause is not `Busy`: its verdict may be written already and another run
under way, and `RowsAreKept` is what tells their rows apart.

- `TypeCorrect` and `OrphanBlocks` (`OrphanBlocksForGood`) for any number of handlers;
- `OnlyARaceBreaksTheLock` (`TwoRunsTakeARace`) and `TableTellsLive` (`RecordTellsLive`) for any
  number of handlers, failures and crashes;
- `RollbackRestores` (`RollbackRestoresLive`) for the same, from `AimInv`, which adds
  `EndedInOrder` (reversible rows finish in the order they were created, so the latest by
  `finishedAt` is the last row), `PreviousWasLive` (a row's previous commit is what was live when
  it started, as long as no run failed) and `Aimed` (where the rollback at work is going);
- `EveryRowHasItsHandler` (`RowsAreKept`), `VerdictsAreFinal` (`VerdictsStand`) and
  `OrphansAreCounted` (`OrphansArePaid`) for any number of overlapping runs: each row has one
  handler, which alone writes its verdict, a row it has left is never touched again, and rows are
  orphaned one by each failed database call and one for each handler by a crash. They say what is
  left of the lock when two deployments both find no RUNNING row. No run checks them.

*Alerts.* `IInv` is `TypeOK` with `RunnersTakeTurns`, `OneOpenPerEvaluator` and
`OpensAreFresh` (an evaluation that found no open event of a rule it has still to pass has none
of its own open). The last is what `OneOpenPerEvaluator` lacks to be inductive: by itself it
does not exclude an evaluation about to insert a second event. `TypeOK` includes that a row an
evaluation holds exists and belongs to the rule it was found for.

- `TypeCorrect`, `TurnsAreTaken` (`RunnersTakeTurns`), `DuplicatesAreBounded`
  (`OneOpenPerEvaluator`), `ResolvedForGood` (`ResolvedStaysResolved`) and `OffMeansFrozen`
  (`SwitchedOffIsFrozen`) for any number of overlapping evaluations, rules, failures and crashes;
- `AloneOneOpen` (`OneOpenEvent`), assuming all slots are one. With two this is false;
- `RecoveriesAreTold` (`RecoveryIsTold`) for any number of overlapping evaluations, from
  `ToldInOrder` (an open event was never told resolved) and `TellersAreCounted` (the slots that may
  still tell a recovery, which read the event while it was open, and those that told it are no more
  than there are);
- `RepeatsArePaidFor` (`EarlyRepeatsArePaid`), with one slot, from `CopiesAreFresh` (the copies an
  evaluation has still to use are the rows as they are), `NoticesAreDue` and `RepeatsAreCounted`.
  The last one adds to the repeats so far the notices that a call or a crash left unrecorded, which
  are those that can still be repeated: by itself `EarlyRepeatsArePaid` does not exclude a free one.

*Accounts.* `IInv` is `TypeOK` with `OneOwner` and `WritesAreVetted` (a handler about to write
read a row that let the write pass, and whoever is past the permission check was a manager).
`OneOwner` needs the second half of its definition, that once the bootstrap has demoted the
others nobody but `ownerId` has the role: by itself "no two owners" does not survive `Promote`.

- `TypeCorrect`, `OneOwnerAlways` (`OneOwner`) and `ManagersOnly`
  (`OnlyManagersChangeAccounts`) for any number of overlapping handlers, failures and restarts;
- `BookIsFollowed` (`FollowsBook`): every step is one of `AccountBook`, a stutter, or a lost
  update of one row;
- `OneHandlerImplementsBook`: with one handler, where no read is ever stale (`NothingStale`), the
  table implements `AccountBook`;
- `AccountsAreAsAssumed` (`ChangesAreKnown`): for any number of overlapping handlers, failures and
  restarts, accounts change as `ActionRequests` takes for granted. No run checks it.

*Backups.* `IInv` is `TypeOK` with `Sound` of every handler (what it knows of its row and its
file at each place, as long as nobody shares the name), `RowSound` of every row (a young SUCCESS
row of its own name has its whole file, unless a second failure or its own `catch` clause is at
work) and `Apart` (two handlers never work on one row). `Sound` must speak of handlers that
are young at one moment and expired at the next, which is why it is stated in terms of `Young`.

- `TypeCorrect`, `OneFailureLosesNothing` (`LosingASuccessTakesTwo`), `WhatIsSentIsWhole`
  (`DeliveriesAreWhole`) and `TheYoungAreSpared` (`RetentionSparesTheYoung`) for any number of
  overlapping backups and deliveries;
- `TidyWithoutFailures` (`NothingIsLeftBehind`) for the same, from `Tidy`: who wrote a file last
  is still at work on it, has the row of it or outlasted its retention (`WriterAnswers`), a file
  that retention unlinked is back only by a backup at work or one that outlasted its retention
  (`Emptied`), and RUNNING rows have their backup.

*Docker actions.* `IInv` is `TypeOK` with `Watched` (a handler past the check of the switch was
there while it was on; while it is on everyone is) and `OnlyListedAreTouched`.

- `TypeCorrect`, `SwitchHolds` (`SwitchedOffHolds`), `ListHolds` (`OnlyListedAreTouched`) and
  `RunningIsNotRemoved` (`RemovedWasStopped`) for any number of handlers and containers.

*Rate limit.* `IInv` is `TypeOK` with `InOrder` (times do not decrease), `Remembered` (a bucket
holds allowed calls of its user, at most `Limit`, and all of the last window), `Hinted` (when the
wait told to a refused user is over, a call that stood in the way has left the window),
`Awaited` (the wait told is over within a second of any of the calls in the way leaving the window),
`NeverOverLimit` and `RefusalIsDeserved`.

- `TypeCorrect`, `LimitHolds` (`NeverOverLimit`), `RefusalsAreDeserved` (`RefusalIsDeserved`) and
  `RetriesAreExact` (`RetryIsExact`: whoever waits longer than told is allowed, whoever comes back
  a second or more too early is refused), with its two halves `RetriesAreHonoured` and `RetriesAreNeeded`,
  for every limit, window and length of a second.

*Only model-checked.* Liveness (`EveryApprovalIsSettled`, `EveryRunIsSettled`,
`EventsFollowTargets`) rests on fairness and `ENABLED`, which the prover does not treat.
Every safety invariant and action property of a passing run is stated by a theorem, the ones that
need it with one handler or one evaluation slot.

## 5. Not modelled

- Screens, navigation, callback data, the dashboard, the health endpoint: they format and parse,
  read and store nothing that another step depends on.
- Configuration and the files of deployment targets and health targets: validated at start-up or
  on reading, constant for the models. `Alerts` lets the rules file change.
- Monitoring samples: written and never read back. The probe itself is an answer in `Deployment`
  and `Alerts`.
- The launch of the bot and its timeout: a log line is all that differs.
- The range check of `setConfirmationTtlSeconds`: the keyboards offer values inside the range, and
  `ActionRequests` takes any set of TTLs.
- The payloads of the audit log and their sanitizing; `ActionRequests` has which results are
  recorded.
- One specification of the confirmation flow composed with each effect. `ActionRequests` treats
  the effect as an opaque call that refuses, acts and throws, or acts and returns; `Deployment`,
  `Backups`, `Accounts` and `DockerActions` are what those calls do, started by any confirmation
  the flow may let through. The composed state space is out of reach of TLC at bounds that would
  show more than the parts.
