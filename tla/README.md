# DbBackup in TLA+

DbBackup is a service that backs up databases: an Express API, a set of BullMQ
workers, a Postgres catalogue reached through Prisma, a Redis that holds the
queues, a backup directory and, optionally, S3 or Google Drive. All of it runs in
**one Node process** (`src/server/src/index.ts:67-75` refuses a second), so the
concurrency is that of one event loop: handlers, workers, timers and callbacks
interleave at every `await`, and the process can die at any of them. Postgres,
Redis, disk and object store are separate: what was written to one of them stays
when the next write never comes.

The modules here model that: a variable is a table, a queue, a directory or a
piece of memory of the process; an action is the code between two `await`s that
matter to the properties.

Paths below are relative to `src/server/src/` unless they begin with `src/`.

## Inventory

| Component | State | Operations | Hard behaviour | What makes it correct | Module |
|---|---|---|---|---|---|
| Backup pipeline (`queue/backup.queue.ts`, `controllers/backup.controller.ts`, `services/quota.service.ts`, `services/backup-crypto.service.ts`) | `Backup` row, backup job, dump files | trigger (HTTP, MCP, schedule), run, encrypt, upload, complete, fail, delete | retries, stalled jobs, a lost lock while the first run goes on, crash between two steps, deletion meanwhile, quota read long before it is used | a COMPLETED row names an artifact that is good and there; the quota holds; queue and table agree; every job ends | `BackupPipeline`, `BackupCatalogue` |
| Artifact storage (`services/storage.service.ts`, `controllers/storage.controller.ts`) | local files, remote objects, per-user settings and passphrases | upload, fetch, clean up, delete, save the settings | a copy removed before the other is there; a rotation of the passphrase while a backup is encrypted | a stored artifact has a copy and a passphrase that opens it | `BackupPipeline`, `AtRest` |
| Retention (`services/retention.service.ts`, `queue/retention.queue.ts`) | schedules' rules, users' caps, memory of a sweep | daily sweep, Purge Now, run after a backup | three kinds of run overlap; what to delete is chosen by two queries and deleted many awaits later | nothing goes that the rules keep; what they select goes in the end | `Retention` |
| Sync lifecycle (`services/sync/sync-engine.service.ts`, `queue/sync/sync.queue.ts`) | `SyncConfiguration`, `SyncState`, sync jobs, `setInterval` maps per object, cron entry | activate, pause, resume, stop, trigger, update, delete, recover at boot, run a job | check-then-act on `currentJobId`, three service objects with timers of their own, job ended before its id is written | active exactly with a state, and where a refused write leaves the two apart; no live id is cleared; timers of a stopped configuration die; jobs end | `SyncLifecycle` |
| Incremental and full sync (`queue/sync/handlers/*`, `queue/sync/execution/*`), conflicts (`services/sync/conflict-resolver.service.ts`) | `ChangeLog` rows, checkpoints, both databases | detect, resolve, order the tables, apply a batch, mark, advance the checkpoint | crash between apply and mark; one checkpoint for all tables, compared as a text; a conflict whose insert throws | each change is delivered once, those of a table in the order of their times; what a checkpoint passes by is known; the target becomes the source otherwise | `SyncRun`, `ChangeDelivery`, `TableOrder` |
| Change capture (`services/sync/*cdc-tracker*`) | triggers and a change table in the user's databases | set up, capture, tear down, clean up | one change table per database for all configurations; transactions that commit late; a checkpoint without its minutes | writes of the application go on; the mark passes no change by, and where it does is known | `ChangeCapture` |
| Schema comparison (`services/sync/schema-validator.service.ts`) | the tables of both databases | compare, create missing tables | two requests at a time; types that change on the way | a table it made passes its own comparison, or is of a type that never does | `SchemaCheck` |
| Schedules (`queue/schedule.queue.ts`, `controllers/schedule.controller.ts`) | `Schedule` row, BullMQ scheduler entry | create, update, delete, fire | row and entry are written in separate steps; attempts of a firing; a lock lost beside a blocked loop | an entry is armed exactly for an active row; a firing makes one backup, and another only for a fault | `Schedules` |
| Restore (`queue/restore.queue.ts`) | restore job | queue, run | a restore must not run twice; the lock of a long one is lost | it runs again only after a stall; it ends | `RestoreQueue` |
| Restore drills (`services/restore-drill.service.ts`) | `RestoreDrill` row, scratch database | start, run, cancel, clean up at boot | a verdict races a cancellation; two drills choose one name | a drill touches only the database it created; it ends | `Drills` |
| Migrations (`queue/migration.queue.ts`, `services/migration-*`) | `Migration` row, job, the target's tables | queue, run, copy, verify, delete | second attempt over what the first left; stalled run beside the next; pages in no order | what completed is what was read; the verification agrees | `Migrations` |
| Heartbeat, watchdog, storage alerts (`services/heartbeat.service.ts`, `backup-watchdog.service.ts`, `storage-alert.service.ts`) | `HeartbeatMonitor` rows; throttles in memory | ping, report, prune, check | a report follows its row; throttles are lost at a restart | every transition is reported; stale backups are announced | `Monitoring` |
| MCP keys and approvals (`services/mcp.service.ts`) | key, daily counter, approval row | dispatch, approve, deny, rotate, revoke | calls of one key overlap, at midnight too; two decisions on one approval | the daily limit holds; a denial nobody contradicts is final | `Mcp` |
| Accounts and sessions (`controllers/auth.controller.ts`, `services/passkey.service.ts`, `services/login-lockout.service.ts`, `src/client/src/lib/api.ts`) | refresh tokens, passkeys and challenges, lockout counters, a browser's cookie and tabs | sign in, refresh, revoke, register, remove | two refreshes with one token, of one tab or of two; an assertion sent twice; counters read before an await | tabs stay signed in or lose the session cleanly; a token and a challenge are used once; a suspension leaves nothing usable; nobody is locked out | `Sessions`, `Passkeys`, `Lockout` |
| Connections, bundles, SSH tunnels (`controllers/connection.controller.ts`, `services/config-bundle.service.ts`, `services/ssh.service.ts`) | `Connection` rows, pinned host keys | create, edit, delete, import, open a tunnel | limit checked before the insert; pin written after the handshake | the limit holds; the pin is of the server the row names | `Connections` |
| Database engines (`services/engines/*`) | child processes, streams, secret files | dump, restore | exit code, streams, promise and tunnel end in any order | what is reported is what happened; nothing is left behind | `EngineRuns` |
| Encryption keys (`services/crypto.service.ts`, `key-manager.service.ts`) | the key ring of a process, encrypted rows | load, encrypt, decrypt, rotate | the same key under two names; a slot whose key a rotation replaces | every row stays readable but those of a rotated primary key | `KeyRing` |
| Notifications, progress (`services/notification.service.ts`, `services/sse.service.ts`, `controllers/notification.controller.ts`, the settings and backups pages) | settings row, kept transporter; streams and their counter | save, send; publish, stream, poll | masked secrets in several tabs; a report after the end of its attempt | a secret is never replaced by its mask; the end of an attempt stands | `Notifications`, `Progress` |
| Export (`controllers/export.controller.ts`) | one transaction, one response | read in batches, write with back pressure | a client that leaves or stops reading; writes meanwhile | a whole export is one state; a broken one is visibly cut | `Export` |
| Web client (`src/client/src`) | React Query caches, the refresh queue | what the pages send and show | polls under way while a command is answered | a poll brings nothing old back once a command was answered | `Sessions`, `Notifications`, `Progress`, `SyncPage` |
| Administration, boot and shutdown, verification of a backup, audit | rows, process | quotas, caps, a user's status; recovery | boot recovers only what the sections below say | — | parts of the above |

How they interact: a request or a schedule creates a `Backup` row and queues its
job; the backup worker runs it through an engine, uses storage, then runs retention
for the connection; the daily sweep and Purge Now run retention as well; a deleted
connection leaves its backups detached (`onDelete: SetNull`), which both the quota
and retention then see. A sync configuration's requests and timers add jobs to the
sync queue, whose worker writes the same `SyncState` row and the two databases; its
cron entry is put in the *schedule* queue. Restores and drills read artifacts through
storage and write databases through engines. Everything that reaches a database opens
a tunnel of its connection. The boot (`index.ts:88-104`, `queue/workers.ts`) starts
the workers, arms retention and heartbeat, re-arms the real-time intervals of active
sync configurations and cleans up interrupted drills; it recovers no backup row.

`PROJECT.json` lists all components with their sources and what is left out of each,
and under `hazards` every place where something can go wrong that a test would hardly
reach, at its line.

## Modules

`PROJECT.json` "map" gives the source lines of each definition. Each module begins
with what it is about; the identities, versions and faults it bounds are its
CONSTANTS, named in its `...Assumption`.

### BackupPipeline

The row (`rows`), the BullMQ job (`job`) and the files (`disk`, `remote`) of every
backup; the worker (`run`, one job at a time) and the requests being served (`req`).

| Code | Actions |
|---|---|
| `triggerBackup`, MCP `trigger_backup`, the schedule worker | `triggerBackup` / `scheduledBackup`, `createRow`, `addBackupJob` |
| `createBackupWorker` | `pickJob`, `decryptConn`, `startRow`, `engineBackup`, `checkQuota`, `encryptBackupFile`, `acceptEncrypted` or `rejectEncrypted` or `keepPlaintext`, `uploadBackupFile`, `markCompleted`; a step that throws leads to `markFailed` |
| BullMQ | `jobCompleted`, `jobFailed`, `recoverStalled`, `loseLock` (the event loop is blocked: `storage.service.ts:138` tars synchronously) |
| `deleteBackup`, `deleteConnection` | the read, `deleteBackupArtifact` per artifact, `deleteRow` / `deleteConnRow` |
| `setUserQuota` | `setUserQuota` |
| the process dies | `crash` |

A file is a record of the dump that made it and its form (plain, a good `.enc`, a
`.enc` that does not decrypt back); `NoFile` is the path `pending` and the key `null`.
`ceiling` and `discarded` are history variables, read by no guard: the highest quota a
user ever had, and the artifacts some request set out to delete. Abstracted: the
progress writes of a running dump (they are `Progress`), partial dump files no row
names, the backoff (a delayed job is `waiting`), the dump's content.

### BackupCatalogue

The abstract specification of the pipeline, for somebody who only looks at the table:
a backup is requested, runs, completes or fails, perhaps several times, and is deleted
for good; it completes only from RUNNING and only if the quota has room at that moment;
FAILED follows only RUNNING or COMPLETED. Jobs, files, retries, lost locks and crashes
are not in it. `BackupPipeline` instantiates it with the fields of its rows
(`Catalogue`) and `ImplementsCatalogue` says that it implements it. `deleteConnRow`,
every step of the queue and every step with files are stutters.

### Retention

Time is counted in days, backups have the day they were made; several backups of
one day are equally new. Each run of the rules (`proc[Daily]`, the worker's sweep, and
`proc[p]` for Purge Now and the run after a backup) is a program counter with what it
has read: `runGlobalRetentionSweep` reads the groups, `readCaps` the caps once,
`nextGroup` the schedules of a connection, `selectByAge` and `selectByCount` the two
queries, `deleteArtifact` one artifact, `deleteRows` the final `deleteMany`. The
requests that change schedules, caps, connections and backups are one action each.
`strict` and `lowest` are history: the strictest rules a connection, and the lowest
cap an account, ever had. Abstracted: a request's check and write are one step; an
error of Postgres in a sweep appears only as a crash.

### SyncLifecycle

One configuration, its `SyncState` row, the sync queue, the timers. A request is a
program counter with what it read first (`Snapshot`), since the code keeps using the
state id and job id of its first query. `mapped[o]` is the `realtimeIntervals` map of
service object `o`: "api" is the object behind activate, pause, resume and stop,
"boot" the one `workers.ts:54` makes to recover intervals. `tick` is the callback of
an interval, `cronFires` and `scheduleWorker` the cron entry and what the schedule
worker makes of it; `load`, `mark`, `work`, `report`, `fail` are the handler of a job.
A call that throws is a step of its own at each of them: `initialSyncFails`, `requestFails`,
`checkFails`, `tickFails`, `writeFails`. `torn` is history: which last write of an
activation (`sync-engine.service.ts:375`) or of a stop (551, 557) did not come about.
Abstracted: one configuration; `cancelRunningJob` with `cancelMode` is one step, and
so are a tick's read and decision; whether BullMQ refuses `moveToFailed` or counts it
as a failed attempt is left open; the content of a sync run.

### SyncRun and TableOrder

What one sync job does to the two databases, incremental or full, one way or both ways.
A database maps a row (table, key) to the version it holds. The change log is a sequence;
change `i` has the time of its write (`clock`; `tick` lets it pass, so that several changes
have one time) and the id `FirstId + i` of the row it was captured from. A checkpoint is the
text `<ISO milliseconds>:<id>`, compared as a text (`After`): times have one length, so
among changes of one time the decimals of the ids decide, by `TextOrder`, "10" before "9". A
job is a program counter with the batch in hand: detect, end at the first conflict, apply in
the order of tables, mark, write the checkpoint. Changes of one time come in any order.
Under each of the strategies a conflict ends in an insert whose required time the handler
has dropped (`incremental-sync.handler.ts:107-114`, `schema.prisma:571-572`), so
`resolveConflicts` goes on only without one and `refuse` is what the code does with one. Any
call may fail and the process may die at any of them; the job then runs again from what is
written. `Bare` tables have only primary-key columns. `TableOrder` is the sort of the
tables, Kahn's algorithm as a recursive function over sequences.

Nothing under `src/` calls `captureChanges` or writes `ChangeLog` rows: `write` stands
for an application and for whatever copies its captured change.

### ChangeDelivery

The abstract specification of a sync run, for somebody who sees the change log, the marks
in it, the clock and the checkpoints and nothing else: no databases, order of tables,
batches or failures. The clock moves (`Tick`) and a change is captured with its time
(`Capture`). `Due` is what is not delivered and whose text comes after the checkpoint the run
began with (`Behind`; `floor`, and between two runs the checkpoint). Changes are
delivered, those of one table and side at a time, none twice, no delete, none after one of a
later time of its row, and none while one of its table and side and of an earlier time is due
(`InTurn`). A checkpoint moves to the text of a delivered change that is in its turn
(`Advance`) or, after a full copy, to the time (`Establish`), and the end of a run, good or
bad, makes `floor` what the checkpoints are (`Rest`).
`SyncRun` instantiates it with its log, marks, clock and checkpoints (`Delivery`), and
`ImplementsDelivery` says that it implements it: `tick` and `write` are the first two,
`markSynchronized` delivers the batch in hand, `updateCheckpoint` advances,
`establishCheckpoint` establishes, `finish`, `refuse` and `fail` rest, and everything else,
the writes to the databases too, is a stutter. What it does not promise is what the code does
not do: that a change of another table, or one of the same time, is not passed by.

### ChangeCapture and SchemaCheck

`ChangeCapture` has the trackers of several configurations on one source: the triggers
and the shared `_cdc_changelog` they create and drop, the application's transactions that
commit in any order, and captures by time and id with their limit, from a checkpoint of
which `split(':')` leaves the hour (`Parse`, with `Hour` ticks in one). Histories: what the
triggers wrote, and what a dropped log had in it.
`SchemaCheck` has the comparison and `createMissingTables` over every type the code
names, auto-increment columns with their SERIAL branch included, on MySQL, MariaDB and
PostgreSQL, two requests at a time; a table is told by the type of one column.

### Sessions, Passkeys, Lockout, Mcp

`Sessions`: a refresh token is a number in the order of issue, an access token the
`tokenVersion` it carries; the tabs of a browser share a cookie, each tab makes one
refresh for all its requests that were answered 401 (`api.ts`, `failedQueue`), and
refreshes, sign-outs, password changes and a suspension meet at every statement.
The history `atOnce` tells that two *tabs* refreshed at a time: the transaction protects
the retries of one tab, and a second tab that sends the old cookie is signed out with the
first; what is left to say then is that no dead cookie stays and no session without a row.
`Passkeys`: challenges in memory, the two halves of
registration and sign-in, removal and passkey-only mode, with serializable transactions
where the code asks for them. `Lockout`: the counters per address and account in
memory, counted after the awaits of a sign-in. `Mcp`: every statement of a call is a
step, the day is that of the caller's clock when it looked; two decisions on one approval
may overlap; what a tool does is told by its scope only.

### Notifications, KeyRing, AtRest, Connections

`Notifications`: the form of the settings page in two tabs, its secrets masked or, for
those of `LoadsEmpty`, not taken from the answer, the row, and the transporter that is kept
for a while. `KeyRing`: which keys of the environment a process loads, under which names, and
what the rows of earlier processes need, while the operator adds keys (`addKey`) or
rotates the primary one as documented (`rotatePrimary`, `.env.example:102-103`). `AtRest`:
passphrases and their history, saved while backups are encrypted and uploaded, and the uses
of an artifact through a temporary directory, below which the storage may lie itself
(`underTmp`). `Connections`: the limit which creations and imports check before they insert
(`surplus` is what the others had still to insert), and the pin of the host key, set by the
first of several tunnels while the connection is edited, reset or deleted.

### Drills, RestoreQueue, Migrations, Monitoring

`Drills`: two drills of one backup from the request to the verdict, with the scratch
database. `RestoreQueue`: the worker with its one attempt, a run that outlives its lock.
`Migrations`: three kinds of executor copy tables in batches of one row; dumps read one
snapshot, a copy between two kinds of database reads page after page, in any order
(`disturbed`), and gives some columns another type (`unlike`); the verification is quick
or deep and looks at the types too. A write of the row's status may be refused
(`forsaken`). `Monitoring`: a beat pings the connections one by one, keeps a row of each,
reports a change, then runs the storage checks and the watchdog per user, for several
users, whose throttles are in memory.

### EngineRuns, Export, Progress, SyncPage, Schedules

`EngineRuns`: the child process, its streams, the file, the secret files, the tunnel
and the promise of one dump or restore end in any order. `Export`: a snapshot read in
batches and written with back pressure to a client that may stop reading or leave; the
application moves rows between tables meanwhile. `Progress`: publication without
waiting, by each of a backup's attempts, which writes an end of its own and sets a FAILED
row RUNNING again; streams with their limit, pages that poll until they see a first end.
`SyncPage`: the form and the detail page of one configuration in a tab, with an answer per
query and the polls under way, of which a first one is not cancelled by a newer (`Anew`); the
engine's part of a command is one step, as `SyncLifecycle` has the rest. `Schedules`: the row
and the BullMQ entry of one schedule, written one after the other by requests that
overlap, and the worker's attempts, with a lock lost while the run goes on
(`loseFiringLock`) and the faults that struck each firing counted (`struck`); the backup
itself is `BackupPipeline`'s, the retention rules are `Retention`'s.

### MC modules

`MCBackupPipeline`, `MCRetention`, `MCSyncLifecycle` and `MCSyncRun` give the constants
their values and the symmetry sets. `MCServices` and `MCJobs` put the small modules
side by side: they share no state, `focus` picks the one that moves and the others stay as
they began, so that the states of a run are the sum of theirs and not the product. Their
properties are conjunctions of the modules' own, grouped by what they promise:

| In `MCServices` | Conjoins |
|---|---|
| `TabsKeepGoing` | `KeptSignedIn`, `NoneForgotten` of `Sessions` |
| `LimitsHold` | `LimitHolds` (connections), `DailyLimitHolds`, `DenialsHold` (MCP), `AlertsSpaced`, `MailsSpaced` (lockout), `SingleUse` (refresh tokens), `ChallengeOnce` (passkeys) |
| `SecretsHold` | `NeverMasked`, `MailFresh` (notifications), `RowsReadable` (keys), `RotationKeeps` (passphrases), `OneKeyTrusted` (host keys) |
| `CaptureHolds` | `WritesSurvive`, `NothingSkipped` of `ChangeCapture` |
| `ParentsFirst` | `topologicalSortTables` against its definition, over every set of foreign keys of four tables |

| In `MCJobs` | Conjoins |
|---|---|
| `DoneIsWhole` | `OutcomeIsTrue` (engines), `CompletedIsSource` (migrations), `WholeOrCut` (exports) |
| `NothingLeaks` | `NothingHeld` (engines), `ScratchIsPrivate` (drills), `AgainOnlyAfterStall` (restores), `StreamsAreCounted` (progress), `OneBackupPerFiring` (schedules) |
| `EndsStand` | `EndStands` (progress), `SeesItsCommands` (sync pages), `ArmedIffActive` (schedules) |
| `EverythingEnds` | what is under way in each module ends |

No configuration replaces a definition of a module.

## Runs

| Run | Instance | Checks | Shows |
|---|---|---|---|
| `BackupPipelineRaces` | 2 backups, 1 connection, 2 requests at a time, sizes and quotas 1-2, 2 attempts, no fault | `TypeOK`, `UsedWithinQuota` | the quota, read at the dump, still holds at commit whatever requests and the administrator do |
| `BackupPipelineFaults` | 2 backups, 1 request, 1 fault | `CompletedIsRestorable`, `ImplementsCatalogue` | through a crash, a lost lock or a failing step at any point a COMPLETED row has its artifact, and the table behaves as `BackupCatalogue` |
| `BackupPipelineSettles` | 1 backup, 2 faults, fair | `JobRowAgreement`, `RunningIsOwned`, `JobsSettle` | queue and table agree and every job ends |
| `RetentionRules` | 2 backups, 1 connection, a schedule, age 2, count 0-1, cap 1 or none, 3 days | `TypeOK`, `NeverTooSoon` | overlapping runs with changing rules take no backup that the strictest rules so far would keep |
| `RetentionSettles` | 2 backups, 1 crash, refused artifacts, fair | `SelectedGo` | what the rules select goes in the end |
| `SyncLifecycleTriggers` | 2 requests, 1 timer, 2 jobs, 1 error | `TypeOK`, `ClearsOnlyDeadJobs` | a stale job id is cleared only while it is stale |
| `SyncLifecycleSettles` | 1 request at a time, 3 modes, 2 attempts, 1 stall, 1 error, 1 crash, fair | `ActiveIffState`, `JobsSettle`, `StoppedTimersDie` | between requests the flag and the state row agree; jobs end; timers of a stopped configuration die, also those of the boot's object |
| `SyncRunWrites` | 2 tables of which one refers to the other, 1 key, one way with batches of 1 and of 2 and full copies, both ways without, pages of 2, inserts and deletes, 3 writes with the ids 9, 10 and 11 at times of their own or at one time, 1 fault, fair | `TypeOK`, `MarkedIsApplied`, `NoExchange`, `ImplementsDelivery`, `OnlyTablesOvertake`, `Converges` | what is marked is applied, a run with a conflict writes nothing to either side of it, changes are delivered as `ChangeDelivery` says, the checkpoint passes a change by only from one table to another or within one time, and a one-way target becomes the source otherwise |
| `Services` | one small instance of eleven modules, see `Services.cfg` | `TypeOK`, the properties of the table above, `NeverLockedOut`, `ArtifactKept`, `PinIsOfTarget`, `CreatedPasses`, `SuspendedIsOut` | what requests drive, in every interleaving |
| `Jobs` | one small instance of nine modules, see `Jobs.cfg`, fair | `TypeOK`, the properties of the table above, `RefersToOwn`, `TransitionsReported`, `VerificationAgrees` | what runs in the background, and the pages that follow it, with crashes and lost locks |
| `RetentionPurge` | 2 users | `PurgeIsOwn` violated | finding 1 |
| `SyncRunPauses` | 2 records, one of them changed on both sides, no fault, fair | `PausesOnlyAffected` violated | finding 2 |

Deadlock is checked in the two `SyncRun` runs, where the next job can always begin.
Elsewhere it is off: identities, days, faults and timers are bounded, so every
behaviour of an instance ends when they are used up.

Why the bounds are enough for what they are asked. The races are between a reader and
one other actor that changes what was read: two identities of each kind make every
pair. `BackupPipelineRaces` has sizes and quotas that make one backup fit and two
not, and the reverse after a change of the quota. Two attempts give a retry after a
first run that left something behind, one stall a job handed out twice. In
`RetentionRules` three days let a backup pass the age rule while another does not, and
a cap of 1 undercuts the rule of 2. In `SyncLifecycle` one job identity is enough
for liveness (each job ends on its own); two are used where one job replaces another.
`SyncRunWrites` has the child first in the list of tables, so that the order of the
list and the order of the foreign keys differ; three writes make a change, a conflicting
one and one that comes while the run is under way; a page larger than a batch makes a
checkpoint in the middle of what was read. `FirstId` is 8, so that the ids are 9, 10 and 11, and
`DecimalOrder` is the order of their texts, in which 9 comes last; as times may tie, this
decides. With one key a table is one row, so the run sees the order of a row; that of several
rows of a table is proved (`RunDelivers`). In `Services` two tabs, one of which makes
two requests, give the retries of one refresh and the refresh of another tab; two
passkeys, challenges, addresses, settings tabs and tunnels give the pairs; three keys give
a rotation and one more; three connection ids under a limit of two give the surplus of two
makers; captures of one row of two, in hours of two ticks, give changes of one time, the
limit and the truncated checkpoint. `SmallEnough` cuts two products there: not the last
refresh token with the last `tokenVersion`, nor the last connection with a tunnel. In `Jobs`
a migration's job may stall twice, which is once more than it survives, a backup has
two of its three attempts, so that one follows a failed one, and two users share the throttles of the
watchdog; the other crashes, stalls and reloads are one or two: a second one meets what the first left.
The proofs below remove the bounds for the properties they cover.

Some properties excuse what the code does not promise, and say so in their statements.
Where the excuse would take the hazard itself away, the property says what is left of the promise
in that case:

- `ActiveIffState` speaks of an owner who waits for each answer. A last write that is refused
  or cut off by a crash tears flag and row apart: it then says which way (`torn`).
  `ClearsOnlyDeadJobs` excludes the step in which Redis itself failed.
- `MarkedIsApplied`, `OnlyTablesOvertake` and `Converges` name what the checkpoints, compared
  as texts, pass by: changes of another table, and of the same time.
- `KeptSignedIn`: two tabs that refresh at a time may be signed out, and then the cookie is
  gone; it is never a dead one. `LimitHolds`: the surplus is what other requests had still to
  insert when one was let in, and no more. `DenialsHold` excuses an approval that was under
  way when the denial was written.
- `NeverMasked` names the one secret the page cannot show and the stale form; `MailFresh` gives a
  replaced password less than a transporter's life; `RowsReadable` says of every row whether
  it can be read, and of those that a rotation took that their key is there under another
  name. `RotationKeeps` and `PinIsOfTarget` excuse overlapping requests for the same row.
- `ArtifactKept` names the deployment whose storage lies below the temporary directory.
- `NothingSkipped` excuses a transaction that was open at an earlier capture and a log that was
  dropped, and does not say that a capture hands a change out. `CreatedPasses` says
  of every type which of the two verdicts it gets (`Unmatched`).
- `CompletedIsSource` takes a copy that nothing disturbed: one run at a time, pages in one order.
  `VerificationAgrees` names the differences it finds in such a copy: changed types, missing indexes,
  rows the target held.
- `OneBackupPerFiring` counts the faults of each firing, a lost lock among them.
  `ArmedIffActive` excuses overlapping updates, which do leave the entry with another cron.
- `SeesItsCommands` excuses a first answer that was on its way before the command.
- `TransitionsReported` excuses a fault between the row and the report. Of what ends, a drill whose verdict and a
  migration whose last status write was refused stay as they are, and a page that
  saw one attempt fail learns no more; `AlertDue` promises an alert to one of the users.

Where the code's comments say otherwise, the place is listed below.

### Fairness

`FairSpec` of BackupPipeline is weak fairness of the worker as a whole and of BullMQ's
stalled check: both are loops of the process that run whatever else happens, and the
service manager restarts a process that died. No request need ever come and nothing
need fail. Retention: weak fairness of the daily sweep (a BullMQ repeatable job) and
none for the slots. SyncLifecycle: each worker slot, the stalled check, a timer that
is armed (it fires again and again until cleared) and what a request or tick does once
it has begun (an `async` function whose awaits answer or throw), and the recovery at
boot. No cron entry, request or trigger is assumed to happen. SyncRun: weak fairness of a
job, once begun, and strong fairness of `checkChanges`, since a configuration's jobs come
again and again.

The modules of `Jobs` each state their own (`DrillsFairness`, `RestoreFairness`, ...):
workers and stalled checks as above, a drill that runs, the clock and the beat of the
heartbeat, the database's answer and the client of an export, a page's poll
(`setInterval`), and an HTTP request that is answered. Strong fairness is asked only of
handing out a waiting restore: BullMQ takes the oldest first, so no job waits for ever
while another stalls and returns. As only one module moves, `MCJobs` packs the conjuncts of
different modules into one action (`Step1` to `Step5`, `Pick`): in the behaviours of a
module they are exactly its own.

### Findings

1. *Purge Now reaches other users' backups.* `controllers/backup.controller.ts:205`
   speaks of "all of the user's connections"; for the group of detached backups the
   queries at `services/retention.service.ts:27-33` and `41-45` have no `userId`.
2. *One conflict stops the whole sync.* `services/sync/conflict-resolver.service.ts:68`
   says "Create conflict record and pause sync for affected records". The handler drops the time
   of the target's changes (`queue/sync/handlers/incremental-sync.handler.ts:107-114`), the record requires it
   (`schema.prisma:571-572`), the insert throws under every strategy and the run ends; so does
   every later one, and no other record is synchronized either.

Other places where the code differs from what a comment says or a page assumes, met
while modelling and contained in the models:

*Backups and storage*

- `storage.service.ts:274` "so S3 objects are never orphaned": an error of the remote
  delete is swallowed (281, 289), then `deleteBackup` removes the only row that names
  the object (`deleteBackupArtifact` keeps the object in one of its outcomes).
- `connection.controller.ts:182`: with `deleteBackups=true` files "and rows" go; the
  code deletes the artifacts only and the schema keeps the rows, detached.
- `backup.queue.ts:233`: the policy is "clamped to the user's maxRetentionDays cap";
  the environment's default, used without a schedule, is not clamped.
- `storage.service.ts:395-396` "if it was the local artifact on disk, leave it (that's the
  at-rest copy)": 397 removes whatever lies under the system's temporary directory, the only
  copy of an encrypted artifact too if the storage is there.
- A directory dump fails when encryption is on (`backup.queue.ts:127`); two overlapping
  saves of the storage settings lose a passphrase; the download serves the ciphertext.
- `controllers/storage.controller.ts:53` stores `gdriveClientId` as typed,
  `services/gdrive.service.ts:54` decrypts it.

*Schedules*

- The entry of a schedule that went with its connection stays and fires for nothing;
  two overlapping updates can leave the entry with another cron than the row; a firing
  whose `lastRunAt` cannot be written, or whose job loses its lock while the event loop is
  blocked (`storage.service.ts:138`), is attempted again and makes a second backup.

*Synchronization*

- `sync-engine.service.ts:748` "with atomic update to prevent race conditions":
  two triggers, or a trigger and an initial sync, do queue two jobs.
- `triggerSync` writes the id (813) after the job was added (807): the worker may have
  finished and cleared it in between, and the tick (593) then skips for good, though 592
  says it skips when "a sync job is already running".
- 644 says a running job is failed "so the worker stops processing"; the handler goes
  on and sets ACTIVE (`queue/sync/sync.queue.ts:80`, `189`): a pause does not hold.
- 443: a pause cancels the interval only if its own object armed it; one recovered
  at boot goes on (it dies once the configuration is inactive: `StoppedTimersDie`).
- 681 "a schedule job that triggers sync": the entry is in the queue of scheduled
  backups, whose worker finds no such `Schedule` and returns.
- A full sync sets its checkpoint after the copy (`queue/sync/sync.queue.ts:125-141`):
  changes made during the copy are passed by. Tables without other columns than their key, or
  without a known key, are not applied as the pages say.
- Checkpoints `<ISO milliseconds>:<id>` are compared as texts
  (`incremental-sync.handler.ts:80`, `98`): of the changes of one millisecond the one with the id 10
  comes before that with the id 9, and is passed by once 9 has been delivered.
- `incremental-sync.handler.ts:158` says of a conflict the source wins "the source change will
  be applied as normal"; 155 and 173 pass it over, had the conflict been stored.
- A write refused at the end of an activation (375) leaves a state without the flag, which cannot be
  activated or stopped, only deleted; one at the end of a stop (551, 557) the flag
  without a state, until a later stop.
- `cdc-tracker.service.ts:80-82` promises "all operations that occurred after the given
  checkpoint": `split(':')` leaves of the checkpoint the hour, so that every capture begins with the
  changes of that hour again, and returns nothing else once they are as many as its limit.
- Change capture: stopping one configuration drops the change log of all on that
  source; MySQL trigger names hold no table name; capture and clean-up have no caller.
- Schema: "Create missing tables" makes columns of `mediumint`, `enum`, `boolean`, ... that
  the comparison then refuses between MySQL and PostgreSQL; a `tinyint` that counts up
  becomes an `integer` (`schema-validator.service.ts:418-419`), and a MariaDB reports its `json`
  as `longtext`.
- The pages send `includedTables` and the server reads `includeTables`
  (`controllers/sync-config.controller.ts:24-36`); a FAILED sync offers Activate, which
  the engine refuses; the buttons are there before the first answer of the state
  (`SyncDetailPage.tsx:352`), which is not asked for again while it is on its way, so that one from before a
  command can stand.

*Restores, drills, migrations, engines, export*

- `queue/restore.queue.ts:35` "never retry automatically": a job that stalled runs again
  (`AgainOnlyAfterStall` is what holds).
- A cancelled drill can still be written PASSED; a crash leaves its scratch database; a
  verdict that the database refuses leaves the row RUNNING (`restore-drill.service.ts:89-92`).
- A second attempt of a PostgreSQL migration doubles the rows of tables without a key; after
  two stalls, or when its FAILED is refused (`migration.queue.ts:134`), the row stays RUNNING, and can neither
  be deleted nor run again; a verification passes over missing tables.
- A copy between engines reads its pages without an order (`cross-migrators.ts:75`, `193`), so that
  a page may repeat rows of the one before and miss others. Its verification refuses the
  types that the copy itself has changed (`migration-verification.service.ts:483-486`, `645`).
- `pg_dump` to an archive, `mongodump` and Redis leave partial files; `psql` without
  `ON_ERROR_STOP` reports success; a client of an export that neither reads nor leaves
  keeps the transaction open.

*Accounts, keys, messages*

- The watchdog and the storage checks of all users but the first are throttled away
  (`services/backup-watchdog.service.ts:17`); a first DOWN is never reported.
- "MASK means keep existing": the WhatsApp token is cleared by each save
  (`controllers/notification.controller.ts:46`); a transporter is kept ten minutes after
  its password was replaced.
- `connection.controller.ts:83-84`: three overlapping requests pass the limit by more
  than one. An exported bundle has no ids, so that its schedules are skipped on import.
- "existing rows keep working across upgrades and key rotations"
  (`services/crypto.service.ts:7`): after the rotation that `.env.example:102-103` describes no row
  encrypted as `primary` can be read, as a row names its key by the slot.
- An approval is asked no second time: concurrent approvals both run the tool, and a
  denial can be followed by its execution. Rotation of a key resets its daily counter.
- A second tab that refreshes while another does signs both out (`auth.controller.ts`, the 401
  clears the cookie).
- A restore that ends before its page has subscribed leaves the page waiting
  (`services/sse.service.ts:33`, `91`); the page of backups stops polling when it sees the
  FAILED of a first attempt and never shows the second one's success (`BackupsPage.tsx:267-271`).

## Proofs

| Module | Theorem | Says |
|---|---|---|
| `BackupPipeline_proofs` | `TypeCorrect` | `Spec => []TypeOK` |
| | `CompletedCanBeRestored` | `Spec => []CompletedIsRestorable` |
| | `JobsAndRowsAgree` | `Spec => []JobRowAgreement` |
| | `RunningHasAnOwner` | `Spec => []RunningIsOwned` |
| | `QuotaRespected` | `Spec => []UsedWithinQuota` |
| | `PipelineImplementsCatalogue` | `Spec => ImplementsCatalogue` |
| `Retention_proofs` | `TypeCorrect` | `Spec => []TypeOK` |
| | `NothingGoesTooSoon` | `Spec => []NeverTooSoon` |
| `SyncLifecycle_proofs` | `TypeCorrect` | `Spec => []TypeOK` |
| | `OnlyDeadJobsCleared` | `Spec => ClearsOnlyDeadJobs` |
| | `ActiveMatchesState` | `Spec => []ActiveIffState`, for one `Slot` |
| `SyncRun_proofs` | `MarkedAreApplied` | `Spec => []MarkedIsApplied` |
| | `NothingExchanged` | `Spec => []NoExchange` |
| | `RunDelivers` | `Spec => ImplementsDelivery` |
| | `CheckpointKept` | `Spec => []CheckpointHolds`, which the refinement contains |
| | `TablesOvertake` | `Spec => OnlyTablesOvertake` |
| | `RunsTyped` | `Spec => []TypeOK` |
| `TableOrder_proofs` | `SortIs` | what `topologicalSortTables` returns, for every list and all dependencies |
| `Services_proofs` | `PasskeyRemains` | `PasskeysSpec => []NeverLockedOut` |
| | `ChallengeSignsInOnce` | `PasskeysSpec => []ChallengeOnce` |
| | `ArtifactIsKept` | `AtRestSpec => []ArtifactKept` |
| | `RotationIsSafe` | `AtRestSpec => []RotationKeeps` |
| | `PinNamesTarget` | `ConnectionsSpec => []PinIsOfTarget` |
| | `TunnelsAgree` | `ConnectionsSpec => []OneKeyTrusted` |
| `MCServices_proofs` | `LimitsAreKept` | `Spec => []LimitsHold` |
| | `SecretsAreKept` | `Spec => []SecretsHold` |
| | `TabsStaySignedIn` | `Spec => []TabsKeepGoing` |
| | `SuspensionIsWhole` | `Spec => []SuspendedIsOut` |
| | `CaptureIsWhole` | `Spec => []CaptureHolds` |
| | `MadeTablesPass` | `Spec => []CreatedPasses`, for the types the catalogs name |
| | `ParentsComeFirst` | `Spec => []ParentsFirst` |
| | `ServicesTyped` | `Spec => []TypeOK` |
| `MCJobs_proofs` | `DoneMeansWhole` | `Spec => []DoneIsWhole` |
| | `VerificationIsFair` | `Spec => VerificationAgrees` |
| | `NothingIsLeaked` | `Spec => []NothingLeaks` |
| | `EndsAlwaysStand` | `Spec => []EndsStand` |
| | `JobsTyped` | `Spec => []TypeOK` |
| | `EndsAreOwn` | `SyncPageSpec => []RefersToOwn` |
| | `OwnerIsTold` | `MonitoringSpec => []TransitionsReported` |
| | `ComparedWithNewest` | `MonitoringSpec => []Previous` |

They hold for every value of the constants under the named assumptions of the module
they are about, and nothing else: for the pipeline every finite set of backups, every
set of users, connections, requests, sizes and quotas and every number of attempts,
stalls and faults (`FiniteAssumption`, `OwnerAssumption`, ...), for retention every finite
set of backups, any schedules, accounts, rules and runs that overlap, for a sync run any
tables, keys, numbers of changes and faults, sizes of batch and page, and any order of the
ids' texts in which 0 comes first (`TextAssumption`).
For `Services` and `Jobs` the sets of tabs, tokens, callers, keys, rows, connections,
tracked tables, drills, jobs, streams and queries are any, and so are the bounds on crashes,
edits and ticks; `SmallEnough` only keeps TLC's product small, and no proof uses it.
What the assumptions on constants leave out: infinitely many callers (`McpAssumption`), a
browser without a tab (`SessionsAssumption`), batches of no row, infinitely many keys of a
table (`TableAssumption`), a list to sort with a table twice (`TablesAssumption`; the code
sorts the keys of a map), a migration of no table or of one table twice, and a row that looks like the model's mark of an absent table
(`MigrationsAssumption`).

Two theorems have a hypothesis of their own, because the property is about no more:

- `ActiveMatchesState`: one request at a time.
- `MadeTablesPass`: `CatalogNames`, MySQL's and MariaDB's catalogs never call a type `boolean`,
  MariaDB's none `json` and PostgreSQL's none `bool`, which are aliases that the catalogs resolve;
  and only numbers count up, in MySQL and MariaDB.

**Pipeline, types.** `TypeOK` is not inductive: that `markCompleted` stores a file
depends on the worker's program counter. `TypeInv` adds what each counter holds
(`RunOK` for the worker, `ReqOK` for the requests) and that a row that exists has an
owner (`RowsOK`).

**Pipeline, quota.** `UsedWithinQuota` is not inductive either: between the check and
the commit several steps of anybody pass. `QuotaInv` adds: the quota is never above the
`ceiling` (`QuotaUnderCeiling`); while the worker produces, its row is RUNNING with the
owner the worker remembers, unless a request deleted it (`RunningRow`); and from the
check to the commit the owner's use plus the new dump fits under the ceiling
(`Reserved`). The last is kept because only the worker's own commit adds bytes
(`OnlyCompletionGains`) and everything else can only take some away (`NoGainShrinks`).
`Used(u)` counts the set of pairs ⟨backup, byte⟩, so that the proofs are about
cardinalities of finite sets (`BytesFinite`, `BytesShrink`, `BytesGrow`) and need no
recursive sum.

**Pipeline, artifacts.** `RestoreInv` adds to `TypeInv` that no row names the files of
the dump in the worker's hand (`Numbered`) and that what is in hand at each program
counter is good and is there (`InHand`). Nearly all steps only lose: no row comes to
name a file, no file goes but by a request that set out to delete it, and the hand keeps its
dump or drops it (`RowsLose`, `FilesStay`, `HandStays`); `NothingLost` shows once that
such a step keeps the invariant. Five lemmas treat the steps that gain: the dump, the
quota check, encryption, upload and the commit.

**Pipeline, queue and table.** `AgreeInv` is read off the two properties backwards: a request
that queues a job is the only one about to queue it, and made its row (`EnqueueOK`); what
the state of a job says of the status of its row (`JobOK`); and where the worker can be
with a job that is no longer its own, which is only after a stall (`WorkerOK`). A row that
is RUNNING under a waiting job, and one that is RUNNING before its run began, thus both cost
a stall. `AgreeQuiet` treats at once all steps that move neither queue nor status.

**Pipeline, refinement.** It needs `QuotaInv` (the row is RUNNING when the worker completes
it, and there is room) and `VerdictInv`: in the catch of the handler the row is RUNNING,
COMPLETED or deleted, never PENDING or FAILED. `QuietOrChanged` separates the seven
actions the catalogue can see from the others, which are stutters; `ChangeRefines` maps
each of the seven.

**Retention.** Between the query that selects a backup and its deletion, rules, caps,
schedules and other runs move on, and `NeverTooSoon` says nothing of what a run has in
hand. `RetentionInv` follows the rules through the run: the caps it read are no tighter
than the lowest cap the account had (`CapsOK`), the strictest rules a connection ever had
cover those of its schedules (`StrictOK`) and those a run works with (`RulesOK`), and
what a run is about to delete is `Chosen`: aged or surplus under those strictest rules
(`DelOK`). `Onward` says what every step does to the rest of the state: days pass,
strictest rules become stricter, what has completed stays completed; so a chosen backup
stays chosen (`ChosenStays`). `NextMoves` says what a step does to a run: nothing, a new
run, reading the caps, reading the rules, or going on with what it selected. That the
strictest rule exists is the least number principle (`LeastExists`).

**Sync lifecycle.** The types are inductive as they stand. That a trigger clears only the id
of a dead job needs `CheckLeads`: nobody but the trigger itself moves it from the check, and
then the check found the id in the row still (`check` compares and clears in one
`updateMany`) or the queue answered with an error. `ActiveIffState` needs to know where
the one request is and how the last one ended (`Stand`): `Paired` says, for each place between the two writes of an activation
or a stop, which of the flag and the row has changed, and `Knows` that a stop under way
read the id of the row that is there; `IdStays` that no timer, trigger or job makes, deletes
or activates.

**Sync run.** `After` compares texts, and the proofs use only that it is an order by time and,
within a time, some strict order (`TextAssumption`). `RunInv` says what a run has read and
planned: only changes behind its checkpoint (`ReadOK`), no record with changes of both
sides once the run goes on (`SharedOK`), the batch of one side (`LeftOK`), a checkpoint that does not go
back behind the one it began with (`FloorOK`); `NoExchange` and `CheckpointHolds` follow. `PlanInv` says what
marking leaves behind: with an unmarked change the run has read every unmarked one of an earlier time
(`ReadAll`), keeps it until it is marked (`LeftAll`), and a batch takes the changes of a
table in the order of their times (`BatchOK`); so a change that was not marked before a later one
of its record is passed by for good (`OutOfReach`). `StandsOK` says where the source's checkpoint stands: at
the time of a full copy or of a marked change. `OnlyTablesOvertake` follows from it and `BatchOK`.
`DataInv` relates the log to the databases: a row's version is a change of
the row (`Origins`), the first change of a record is no update (`UpdatesFollow`), the side
that wrote a row has it (`TargetKnows`, `SourceLeads`), a page is not older than what was marked before it was
read (`PageOK`), a delivered insert has left a row (`Present`). From there `AppliedOK`, which is
`MarkedIsApplied` with the batch in hand: applying a batch never puts a version of an earlier time over
a marked one (`SliceIsLater`), and an update that finds no row comes after an insert that
never came there.

That a run implements `ChangeDelivery` needs `OrderInv`, which has for the target's changes
what `PlanInv` has for the source's (`ReadTarget`, `LeftTarget`, `PastTarget`), and that a batch
is of one table (`OneTable`). Then whatever is due, of an earlier time, in the table and of the side of a
change of the batch, is in the batch (`Precedes`, `TakenInTurn`), which is what both the
delivery (`MarkDelivers`) and the checkpoint (`CheckpointAdvances`) are asked for.

`TypeOK` is all
these together with the few fields they say nothing of (`FieldsOK`, `NotesOK`); it is the
only one that needs the order of the tables, of which it needs `OrderTyped`: the sort returns
tables.

**Order of tables.** `Keep` and the loop of the sort are recursive functions, so that the
provers can unfold them (`KeepUnfolds`, `TurnsUnfold`); that such a function exists
(`Iterate`) and what it computes follow by induction over a set of numbers (`Induct`, from
the least number principle), as the provers cannot instantiate the library's induction over
a predicate. `KahnInv` is the invariant of the loop: nothing is out or queued twice, a table
is out or queued exactly when all its parents are out, and whatever is out has its parents
before it. The in-degree that the code counts down is the number of parents not yet out, and
0 exactly if there are none (`FreedIs`). Each turn puts one table out (`KahnTurn`), so the
queue is empty after as many turns as there are tables (`TurnsAre`); what is not out then
is the largest set in which every table has a parent (`Stuck`).

**Passkeys.** `NeverLockedOut` alone is nearly inductive, since the two transactions that
could break it are serializable; a challenge signs in once because a challenge under
verification has signed nobody in, has one credential and has left the map
(`ChallengeInv`).

**Artifacts at rest.** `ArtifactKept` is inductive with the types (`CopiesInv`); `OneArtifact`
reduces the steps to the one artifact they change. `RotationKeeps` needs `SavesInv`: unless
saves overlapped, at most one save carries a passphrase, and what it is about to write still
contains the passphrase of the settings, so the candidates only grow (`CandidatesGrow`).

**Connections.** `KnownInv`: edits and tunnels name connections that exist or existed, and
what a tunnel presented is a key of its server. `CalmInv`: of a connection nobody crossed,
the one edit under way read the server it still names, no tunnel is under way beside it,
and all tunnels go to that server. From these the pin is a key of the server, and
`OneKeyTrusted` follows at the step that pins.

The limit on connections needs `LimitInv`: what is saved and what the makers still insert fits
under the limit and the surplus.

**Services, the whole.** No module of `Services` or of `Jobs` moves another's state. So a
step of the whole is, for each module, a step of its own or leaves its variables
(`StepOfEach`), and each module's invariant is proved of its own specification and kept by
the whole; the theorems on `TypeOK` and on the conjunctions of `MCServices` and `MCJobs`
follow in a few lines.

**Sessions.** `TokensNumbered`: tokens are numbered in the order of issue, and a token that
was rotated has no row. `OneRefreshes`: unless two tabs refreshed at a time, one tab refreshes at
most, and it carries the token of the cookie, whose row is there, or brings the next one.
`CookieLives`, for tabs that did: what a refresh brings is a row that no other request carries, and
the cookie is gone, or names a row, or is about to be replaced. `OldVersions`: nothing that
a tab holds or is about to hold is of a version ahead of the account's; so the version a
suspension raises makes all of it useless (`SuspendedIsOut`).

**Lockout, API keys.** `SpacedInv`: the account's window remembers the last alert, or that
is more than a window ago. `GrantsInv`: what was served and what is granted and still runs
fits in the windows before this one, the rotations, and the calls counted in it; a caller
takes its place in the count before it is granted, so the count is never behind.

**Notifications, keys.** `FormsInv`: a form holds the mask, or nothing where it could show none,
exactly where nothing was typed, and a transporter's password was not replaced before the transporter was made. `RingInv`: a
process that is up has every key of its environment, one that waits for the key service has all
but the wrapped one; each row names a key of the environment that is its own, but for the renamed ones, which
name the primary key while their own is there under another name.

**Change capture.** Two invariants that need nothing of each other. `TracksInv`: as long as
no configuration is to blame, the log is not tracked, it is there while a trigger
writes to it, and a stop has all its triggers before it (`Blameless`). `RowsInv`: rows are
told apart by id and none is younger than the clock, and what a configuration that captures
has not got, committed or open, comes after its mark or is late (`NoneSkipped`); a capture
makes late what it leaves open; and what a trigger wrote is in the log unless a log with
it was dropped (`LogKept`).

**Schema comparison.** `ConvertedCompares` is about the two tables of types alone: what a
target reports of a converted type is compatible with the source's type, or is one of
`Unmatched`. `FaithfulInv` says that a table made from the present source has
that type.

**Sync pages.** `CreateInv`: a creation that was let in names two different connections
of the owner; at the insertion they exist or the foreign keys refuse. `OldGoes`, for what a tab shows: what
was read before a command took effect is replaced when the command's answer comes, or has been
asked for again, or could not be had, or was the first answer of all.

**Monitoring.** `Previous`: until its own row is written, the status a ping is compared
with is that of the newest row, as one job runs at a time and pruning comes after the
pings. `Owed`: what the owner was last told is what the row before bore.

**Drills, restores, engines.** `DrillsInv`: a drill that has begun owns its scratch
database. `RestoreInv`: a job has been restored once at most for each time it stalled, and
once more if it does not wait; `Due` counts the restore that the worker is about to
begin. `EngineInv`: what each end that was reported stands for, in whatever order child,
stream and file ended.

**Progress, schedules.** `ProgressInv`: the counter of open streams is the number of the
live ones, each cleaned up once, and what an attempt wrote as its end stays until the next begins. `EditsInv`: a request
that is alone knows what row and entry hold between its two writes, and two that overlap
have upset the entry, for good or until one of them sets it right. `FiringInv`: the
backups a firing made, and those its run and the runs of its job yet to begin may make, are
one and one for each blow; an attempt that is made because the schedule is gone finds it so
before it makes another.

**Export.** `ExportInv`: the tables behind the one at hand are in the body as the snapshot
has them, and of the one at hand what was sent, gathered and left, one after the other, is
the snapshot's.

**Migrations.** The proof that a completed migration has the source's rows (`MigInv`) is the
longest. `MigJobInv` bounds the attempts and says who holds the job. `Calm`, for as long as
nothing disturbed the migration: one run at a time, and its target is where its counter
says (`RunIs`). Of each table the target has what it had before and the rows read so far
(`AtRow`), or it has a row with a key that the run is still to insert: then the insertion
will end the attempt, and no COMPLETED follows. The second case is how the rows of a first
attempt are harmless to the second (`AtStart`), and why tables without a key are excused.
All of it is said of pages that come in one order; others disturb the migration.

What is only model-checked: liveness (`JobsSettle`, `SelectedGo`, `StoppedTimersDie`, `Converges`,
`EverythingEnds`): fairness and `ENABLED` are beyond the prover.

## Not modelled, and why

- What a text says: arguments of the tools, SQL, mails, audit entries, conversion of
  values, statistics and lists that are only shown. They are input and output without state
  the rest relies on.
- The verification of a backup (`services/verification.service.ts`): it reads an
  artifact and writes one field nobody else writes.
- The OAuth exchange of Google Drive, the S3 client's cache, two-factor codes, mails for a
  new password, rate limiters: each a request or two to a service outside.
- Graceful shutdown and the Express pipeline: a shutdown is a crash that comes later,
  and every module with a crash has it at every step.
- Conflicts: what the strategies choose, the list and the resolution by hand. No run can
  store one (finding 2).
- More than one sync configuration and more than one schedule: they share nothing but
  the change log, which `ChangeCapture` has for several, and retention, which has them too.

## Plan

Done: the pipeline with its catalogue, retention, the sync lifecycle and a sync run with the
delivery it promises, with
their safety properties proved; the order of tables, change capture and schema comparison;
the small protocols of `Services` and `Jobs`, with their safety properties proved. Every
invariant and action property that a passing run checks is stated by a theorem.

Left, in order of importance:

1. Remote storage as a component of its own: the clients' caches, multipart uploads.
2. The verification of a backup, with the reads of an artifact that a deletion may overtake.
