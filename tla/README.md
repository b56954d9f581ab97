# Pocketverse in TLA+

Pocketverse is a personal drive whose bytes live in a private channel of the
user's own Telegram account. This directory holds its formal models: TLA+
modules translated from the source, TLC configurations that check them on small
instances, and TLAPS proofs of the main results for every value of the
constants. Paths below are relative to `src/`; `files.service.ts`,
`storage.worker.ts` and so on live under `apps/api/src/`.

## 1. Inventory

| Component | State it keeps | Operations | What makes it hard |
|---|---|---|---|
| **Storage engine** (`modules/files/files.service.ts`, `storage.worker.ts`) | `File`, `FileChunk` rows; staged chunk files on disk; messages of the channel | createUpload, uploadPart, abortUpload, download, retryFailed, deleteFile; jobs `chunk-upload`, `messages-delete`; `onFinalFailure` | every await is an interleaving point; three stores (database, disk, Telegram) with no transaction over them |
| **Job queue** (`lib/queue`) | jobs with an attempt count | enqueue, run with retries, final failure | BullMQ redelivers after a crash, the in-process queue forgets |
| **Keyed mutex** (`lib/mutex.ts`) | tail promise per account | withLock | serialises Telegram calls only, not the rows |
| **Part upload** (`uploadPart`, web `stores/uploads.ts`) | `UploadSession.nextPart`, staging file | PUT part, resume, STAGING_LOST | two requests for one part, lost answers, rollback by path |
| **Connection** (`modules/connection`) | `StorageConnection` row | start, verifyCode, verifyPassword, check, disconnect, revealPhone; keep-alive sweep; flagging by jobs and downloads | some writers hold the mutex, others do not; a reconnect changes the channel |
| **Telegram gateway** (`lib/telegram`) | warm connection pool | acquireWarm, release, retire, logOut, close; uploadFile, deleteMessages, verifyPresent, downloadChunk | shared connections with reference counts, idle timers, flood waits |
| **Folders** (`modules/folders`) | `Folder` tree, `File.folderId` | create, ensurePath, rename, move, delete, deleteIfEmpty, list, syncing counts, zip | check-then-act on a tree, deletion in batches |
| **Auth** (`modules/auth`; web `lib/api.ts`, `stores/auth.ts`) | refresh and reset tokens; the cookie; the access token of a tab | login, refresh, logout, change and reset password; silent refresh | rotation races, lost answers, single use |
| **Upload manager** (web `stores/uploads.ts`, `upload-panel.tsx`) | entries, folder promises, batches, cancelled ids | a drop, the worker pool, cancel, retry, dismiss | late answers after a cancel, a shared promise that fails |
| **Drive page** (web `app/drive/page.tsx`, `drive-views.tsx`, dialogs) | listing query, selection, locked rows, busy label, dialogs | delete, move, rename, download, retry, Back, long press | a listing fetched before a deletion, one resolver for all dialogs |
| **Activity log** (`modules/activity`) | append-only events | record, page by cursor | pages while the log grows |
| **Test database** (`test-utils/fake-prisma.ts`, `prisma/schema.prisma`) | the tables in memory | the Prisma calls of the services | what it lets pass that the schema refuses |
| Crypto, HTTP shell, schemas, other pages, PWA | — | pure functions, wiring, rendering | no concurrent protocol of their own |

Interactions: a request of the web client writes rows and staging files and
*enqueues* jobs; jobs take the account's mutex, call Telegram through the pool and
write rows; downloads and retries read rows and Telegram and write rows back; the
connection status is written by health checks, jobs, downloads and the keep-alive,
and read by all of the above. The upload manager makes folders and sessions for a
drop and removes them when it is cancelled; the page reads listings that requests
of other tabs change. Every call carries an access token, and a 401 makes the
client rotate its refresh token.

What makes each correct is stated as the hazards of `PROJECT.json`: each names
the line where the code is exposed, and the properties that would notice.

## 2. Modules

| Module | Role |
|---|---|
| `StorageEngine` | the storage engine, its queue and mutex, for one account: the core |
| `FileLifecycle` | what the engine promises about one file, abstractly |
| `StorageEngineProofs` | proofs of its type invariant, of its inductive invariant and what follows, and that it implements `FileLifecycle` |
| `PartUpload`, `PartUploadProofs` | the parts of one file: the web client's loop, `uploadPart`, and what jobs do to the staging directory; and the proofs that no chunk is passed over, enqueued in part or stored with other bytes |
| `Connection`, `ConnectionProofs` | the storage connection of one account: login, check, disconnect, keep-alive, and what reads the row to use it later; and the proof of its invariants |
| `WarmPool`, `WarmPoolProofs` | the gateway's pool of warm connections, and the proof of its invariants |
| `Forest` | what the folder service promises of the tree |
| `Drive`, `DriveProofs` | the requests that read and change folders and place files, statement by statement; and the proofs that the abstract forest is one, that the requests implement it, of what deletions, zips and counts promise, and that deletions in the tests' database reach what the schema's do |
| `Sessions`, `SessionsProofs` | refresh tokens, cookies, access tokens and the silent refresh; and the proofs of their invariants |
| `UploadBatch`, `UploadBatchProofs` | one drop: worker pool, folders, panel, cancelling, retrying, dismissing; and the proofs that only its own folders go, and that its files leave the panel together |
| `DrivePage`, `DrivePageProofs` | one folder on the drive page: selection, locked rows, busy actions, dialogs, listing, long press; and the proofs of its action properties |
| `TestDatabase` | the database the tests use, call by call, beside what the schema makes of each call |
| `MC…` | model values and small instances for TLC (`WarmPool` needs none) |

Composition: `StorageEngine` has the jobs, chunks and attempts with a connection that
only is or is not there and parts that arrive a chunk at a time; `Connection` and
`PartUpload` open those two boxes with the jobs reduced to what they do to the
connection's row and to the staging file. `Drive` has the folders with files that
are stored, arriving or lost; `UploadBatch` and `DrivePage` are the client's side
with the server reduced to what it keeps for them.

### `StorageEngine`: state

| Variable | In the code |
|---|---|
| `file[f]` | `File.status`; `NEW` and `GONE` stand for no row (before creation, after deletion) |
| `chunkStatus[k]`, `chunkMsg[k]` | `FileChunk.status` and `telegramMessageId` (`NoMsg` for null); `k = <<file, index>>` |
| `staged` | chunk files that are complete in the staging directory |
| `upload[f]` | the upload session with the request that is at work on it: the chunk being received, and where the request is suspended |
| `job[j]` | a `chunk-upload` job: the await it is suspended at (`pc`), its chunk, its attempt and the message id it holds |
| `trash` | `messages-delete` jobs: a batch of ids and its attempt |
| `lock` | which job holds the account's mutex across an await |
| `del[f]`, `check[q]`, `retry[r]` | requests: deletions, downloads (and `retryFailed`'s verifications), and `retryFailed`'s re-enqueueing, with what they read |
| `log`, `channel`, `byHand` | the caption of every message ever posted, the messages now in the channel, and those the user deleted |
| `conn` | `StorageConnection.status`, `CONNECTED` or `ERROR` |
| `budget` | how many faults of each kind are still allowed |

### `StorageEngine`: actions

A step is what the code does between two awaits, so every interleaving Node's
event loop allows is a behaviour, and each fault can strike at any await.

* **Upload request** (`files.service.ts:114-278`): `CreateUpload`,
  `StageChunk` (the parts of one chunk), `EnqueueChunk`, `AdvanceUpload`;
  `RestartChunk` is the STAGING_LOST branch and `EnqueueFails` an error after
  staging. The request keeps the session it read: it enqueues whether or not the
  file still exists.
* **`chunk-upload`** (`storage.worker.ts:35-168`): `JobStart` (duplicate and
  vanished row, connection check), `JobMark`, `JobLock`, `JobSend` /
  `JobSendFails` (before the message exists, or with the answer lost),
  `JobSurvivor`, `JobWrite`, `JobRecorded`, `JobUnstage`, `JobCount`,
  `JobPublish`, `JobOrphan`. `FailAttempt` is the queue's retry or the passage to
  `onFinalFailure` (`JobFailChunk`, `JobFailFile`); `JobDbFails` puts a database
  error at each await and follows the `catch` that receives it.
* **`messages-delete`** (`storage.worker.ts:170-192`): `TrashRun`, `TrashFails`.
* **Deletion** (`removeFileEverywhere`): `DeleteRead`, `DeleteRows`,
  `DeleteCleanup`, `DeleteFails`.
* **Download and verification** (`files.service.ts:328-405`, `596-619`):
  `CheckStart`, `CheckVerify`, `CheckRepair`, `CheckStream`, `CheckLost`,
  `CheckFails`.
* **`retryFailed`** (`files.service.ts:621-649`): `RetryRead`, `RetryReset`,
  `RetryMark`, `RetryEnqueue`, `RetryFails`.
* **Environment**: `DeleteByHand`, `ConnectionFails`, `ConnectionRecovers`,
  `Crash` (BullMQ keeps its jobs, the in-process queue does not; requests,
  handlers of final failures and the mutex are gone; the disk may be wiped).

Abstractions: bytes, names, sizes, progress, audit records and backoff times are
left out; the `findUnique` of a chunk and that of the connection are one step, as
are a batch's connection check and its run, and `retryFailed`'s listing and the look at the
staging files that follows; a deletion's ids are one batch (the code makes batches of 100); one deletion
request per file; ids are never reused.

### `FileLifecycle`

A file shows `READY` or `LOST` only once every chunk has reached the storage, what
has reached it is not forgotten while the file exists, and a deleted file does not
return. `StorageEngine` implements it under the mapping `Lifecycle`: the status
shown, and the chunks whose row has a message id.

### `PartUpload`

`StorageEngine` stages a chunk in one step; `PartUpload` is what happens inside
it, for one file. A byte is its offset in the file, a staging file a sequence of
offsets, so an out-of-order, repeated or missing byte is visible.

| Variable | In the code |
|---|---|
| `cursor` | `UploadSession.nextPart`; `Closed` when the session row is deleted |
| `status` | `File.status` |
| `present`, `disk` | which staging files exist, and what they hold |
| `put[r]` | a PUT request: the await of `uploadPart` it is suspended at, its part, how much of the body it has appended, and whether the file it holds open is still the one the path names |
| `queued`, `unstage`, `stored`, `sent` | chunks whose job waits, whose job has yet to remove the staging file, whose job is done; what the job transferred |
| `client` | the web client's `runLoop`: its next part and the request it waits for |
| `happened`, `left` | the kinds of fault so far, and how many are left |

The PUT goes through `PutCheck` (session, status, cursor), `PutStat` (staged
bytes against the offset) with `PutReset` for STAGING_LOST, `PutOpen`, `PutWrite`
once per unit, `PutHash`, `PutEnqueue`, `PutAdvance`; `PutCut` and `PutRollback`
are the `catch` around the body; `PutFails` is a database or queue error at one of
the writes. `Answer*` is what the client does with the response. The jobs
(`JobReads`, `JobUnstages`, `JobSkips`, `JobGivesUp`) read and store in one step,
since here only their effect on the staging file and on the status matters.
Faults: a body cut short, a lost answer, a request the client gives up while the
server still reads it, a failing write, a crash (with or without loss of the disk,
with or without loss of the queue).

### `Connection`

| Variable | In the code |
|---|---|
| `row` | the `StorageConnection` row: status, id, data key (numbered), under which key each secret is sealed, session and channel |
| `op` | the request that holds the account's mutex: `start`, `verifyCode`/`verifyPassword`, `check` or `disconnect`, and the await it is suspended at |
| `alive` | sessions Telegram still accepts |
| `file`, `stored` | status of a file and the message its chunk row names, as `<<channel, id>>`: the row holds only the id, the channel is what the model remembers of where it was posted |
| `work`, `download`, `trash`, `sweep` | an upload and its job, a download, deletion jobs and the keep-alive, each with the session and channel it read |
| `log`, `present` | messages ever posted to each channel, and those still there; Telegram numbers the messages of each channel from one |
| `abandoned`, `late` | history: channels that `start` took from the row, files created during a disconnect |

The five requests under the mutex are split at their awaits but exclude one another
and the Telegram calls of the jobs; `UploadRead`, `JobRead`, `DownloadRead`,
`TrashRead` and `SweepRead` read the row outside the mutex and act on it later, and
`FlagRevoked` writes its status outside the mutex. `OpFails` ends a request where
it is. A file is one chunk; `StorageEngine` has the chunks, the attempts and the
retries, with a connection that only is or is not there.

### `WarmPool`

`warm[k]` is the map of pooled clients, `client[c]` a `WarmClient` record (`inUse`,
`retired`, `idleTimer`, the socket), `call[o]` a transfer with the client it holds.
`AcquireWarm` and `AcquireFresh` are `acquireWarm` up to its await, `ConnectOpens` and
`ConnectFails` the resolution of `ready` for every waiter, `FloodWait` the one short
wait slept out, `Finish` the release of a good or failed call, `IdleTimeout` the timer,
`SocketDrops`, `LogOut`, `Close` the rest. Accounts, clients and calls are arbitrary sets.

### `Forest` and `Drive`

`Forest` has the parent of each folder and three steps: a leaf is added, a folder is
moved outside some closed set that contains it, a closed set goes. `Drive` adds names,
the files' places and statuses, the messages that were enqueued for deletion
(`trash`), and the requests: each is at the database statement it will run next, with
what it has read (`seen`, `frontier`, `files`, `cursor`). ON DELETE CASCADE, the foreign
keys and `@@unique` are part of the statements: what they refuse ends the request. Every
request is used once. The activity log's tree is cut at `TreeEntries` entries; the query's own
limit of 300 files (`take`) is left out.

### `Sessions`

The server has the `RefreshToken` rows (state, family, the password they were verified
against), the number of the password and whether the reset link is used; a browser
has a cookie, a tab an access token. A call goes from statement to statement and
then through the client's reaction: replay after a refresh, sign-out, or the 401
handed on. `Answered` and `AnswerLost` are the two ends of an answer. Time is the action
`AccessExpires`; refresh tokens do not expire in the model, and the sweep of a
password change does not fail on its own. `TakeTurns` says of a state
that of the calls of one browser at most one does more than to present an access
token (`Plain`): the client does not see to it.

### `UploadBatch`

| Variable | In the code |
|---|---|
| `entry`, `controllers`, `cancelled`, `created` | the store: entries of the panel, AbortControllers, `cancelledIds`, `batchCreatedFolders` |
| `dir` | `dirCache`: the promise of each folder of the drop |
| `cursor`, `pool`, `request` | the pool's next job, what each worker awaits, the requests in flight |
| `canceller`, `undo`, `timer` | the clean-up of a cancelled group, sessions made too late, dismissal timers |
| `folder`, `foreign`, `file` | the server: folders, those the user put something else in, files |

A request is sent, served and answered in three steps, so a cancel can fall between
any two. Pausing is left out: the store has it, no button calls it.

### `DrivePage`

The listing is a query (`shown`, `fetch`): a refresh replaces a fetch under way, and
those that await it await the new one. Handlers (`run`, `task`, `move`) go from await
to await; `dialog` is who waits for the one resolver of `dialogs.tsx`. `press` and
`consumed` are `useItemPress`. The page is on a touch screen; the desktop's click
differs only in having no hold. An upload's row dismisses its question when the upload settles
(`UploadSettles`); the second effect (`upload-panel.tsx:65-72`), which does so when the row is
unmounted with the question still open, is left out.

### `TestDatabase`

The services' tests run on `createFakePrisma`. Its calls are operators on a database (a
record of tables), beside `Sql…` operators that do what `prisma/schema.prisma`, its
foreign keys, unique keys and cascades make of the same call. The `ASSUME`s compare
the two on small databases, one for each part of the program. They agree but for:

* what the schema refuses (a taken key, a reference to nothing) the fake lets pass
  (`Agrees`), so no test on it can meet a unique violation;
* `folder.deleteMany` does not cascade: it agrees where nothing is left inside, as in a
  disconnect, which deletes the files first (`PurgeAgrees`).

`ActivityPage` is the activity log's paging over the fake's `findMany`: `PagesFollow` says
that the pages that follow a cursor are the user's older events, each once, also when
events are recorded in between.

## 3. What is checked

| Run | Instance | Shows |
|---|---|---|
| `EngineSafety` | 1 file, 2 chunks, 2 job slots, a check, a retry, a deletion; 3 messages; 1 attempt; one Telegram failure, one message deleted by hand; in-process queue | `ReadyIsStored`, `LiveMessagesKept`, `LostIsEarned`, `BytesSurvive`, the refinement `LifecycleSpec` |
| `EngineFaults` | 1 chunk, 2 job slots (so duplicate jobs), a retry; durable queue; a crash, a failing enqueue, a database failure and a connection failure | the inductive invariant `EngineInv` |
| `EngineRetries` | 2 chunks, one job at a time, a retry, 2 attempts, two Telegram failures | `UploadsSettle`, `DeletionsComplete` |
| `PartUploads` | 5 units, parts of 2, chunks of 2 parts, two requests at a time, any two faults | `NothingSkipped`, `EnqueuedIntact`, `SentIntact`, `UploadCompletes` |
| `Connections` | one file, three logins, two sign-ins, any two faults | `ConnectedIsUsable`, `SecretsReadable`, `StoredWhereConnected` |
| `Drive` | two requests out of 19 operations, 4 folders, 3 names, 2 files, four starting trees, one mover | `TrashedOnlyIfMovedOut`, `DeletedIsSwept`, `ZipComplete`, `SyncingCountsAgree`, `DeletedTreeHonest`, the refinement `ForestSpec`, `DataGoesByRequestOnly`, `RequestsEnd`; and the assumptions of `TestDatabase` |
| `Sessions` | two browsers with a tab and a call each: one requests, loads pages, changes or resets the password, the other signs in, fetches and logs out; 3 tokens, one password change, one lost answer | `NoFalseAlarm`, `RotationKeepsOne`, `OldSessionsEnd`, `SignedInUntilEnded`, `CallsSettle` |
| `WarmPools` | 2 accounts, 3 clients, 2 calls | `InUseStaysOpen`, `NothingLeaks`, `RetiredCloses` |
| `UploadBatches` | a file in each of two nested folders of a folder the user has, and a loose file; two at a time; one failing request | `LeavesTogether`, `OnlyOwnFoldersGo`, `CancelledFilesGo`, `CancelledFoldersGo`, `UploadsEnd` |
| `DrivePages` | a file and a folder, two gestures, an upload, one failing request or vanishing item | `DeletedRowsGoFirst`, `PageSettles`, `OwnQuestionsOnly`, `HoldTogglesOnce` |
| `ReconnectLosesFiles` | one file, two logins, one revoked session | *violated*: `FilesSurviveReconnect` |
| `SilentRefresh` | one tab, two calls | *violated*: `NoFalseAlarm` |

Each module has a type invariant (`TypeOK`, `PoolTypeOK`, `DriveTypeOK`, `SessionTypeOK`,
`BatchTypeOK`); add it as an INVARIANT to a configuration to check it.

**Why these bounds.** One file is enough for the engine because no step relates two
files of an account except the mutex and the queue's slots, which the jobs of one file
already contend for. Two chunks are the least at which "all are uploaded" differs from
"mine is"; two job slots give both parallel chunks and duplicate jobs of one chunk.
One fault of a kind is the least that reaches the handler of that fault; runs that
need a fault to exhaust the attempts have as many faults as attempts.
`MaxMessages` bounds the channel's history; in the runs for liveness it is above
what the faults of the run allow to be posted, so no job is ever stopped by it.
In `PartUploads`, five units in parts of two and chunks of two parts give a full
chunk, a short last chunk that ends before its boundary, and a short last part;
`CHUNK_SIZE_BYTES = 5` is not a multiple of the part size, so the rounding counts.
Two requests are the least that overlap, two faults the least that combine.
In `Connections` a second sign-in is what brings a second channel, and a third
login one that is begun again.
In `Drive` two requests are the least that interleave, and the operations include every
pair that touches one folder; `BatchSize = 1` makes a deletion of two files two batches;
`TreeEntries = 2` is reached by the larger trees; `WalkLimit = 5` is above the depth of
the trees, as 200 is meant to be, and `CountDepth = 3` is just enough for the deepest file
that can be on its way there (with 2 the counts differ). `Movers` has one request: with two the forest breaks
(below). In `Sessions` three tokens are a sign-in, its rotation and another browser's
sign-in; at the limit the insert fails, which the code's error path also allows.
In `WarmPools` the third client is what replaces a retired one while another is still
in use. In `UploadBatches`, `Fillable` names the folder the user may put something
into. In `DrivePages` two gestures are the least whose handlers overlap, and one item of
each kind the least that tells the rows' menus apart; `Pressable` keeps the long press
on one row, since rows have no state in common there.
`EngineSafety` and `EngineFaults` take the job slots as symmetric (`Alike`): no action tells one
from another, and neither run has a liveness property.
Deadlock is not checked: the system may stop when every client has.

**Fairness.** The engine: the queue runs and finishes the jobs it has, each
request that started is carried to its end by the event loop, and deletion jobs
run. Nothing is assumed of clients (no new request, no next chunk, no retry), of
the user or of recovery from a broken connection; faults are bounded by budgets.
In `PartUpload`, requests and jobs are carried to their end, the client's loop runs,
and `UploadCompletes` is stated for a user who resumes an upload that stopped: the
code does not resume by itself, and the property says that resuming is enough.
In `Drive` and `Sessions` each request that started is carried on. In `WarmPool` a
connection attempt and a transfer end (the code has a timeout for the first, the
library for the second), and nothing makes users call again. In `UploadBatch` workers,
promises, requests, timers and clean-ups go on; the user does nothing of necessity.
In `DrivePage` the same holds of handlers and of the listing; the answer to a listing has
*strong* fairness: a refresh replaces a fetch under way, so its arrival is
not enabled for ever, but a user cannot refresh for ever either. Questions need not be
answered.

`NothingSkipped`, `EnqueuedIntact` and `SentIntact` each name the faults they
tolerate: without a crash no chunk is passed over; without an abandoned request
what is enqueued is intact; and only if no write fails either is what the job
finally reads certain to be, since a refused part restarts a chunk whose job
may already be waiting for the staging file. `OldSessionsEnd` excuses a rotation or
a sign-in whose check came before the sweep of a password change and whose insert came
after it; `CancelledFoldersGo` a folder or a session just being made when the cancel
came; `PageSettles` and `OwnQuestionsOnly` a question that was replaced.

**Disagreements found.** The first two are runs, listed under "findings" with the sentence each
contradicts:

1. Reconnecting a broken connection provisions a new channel and keeps the files,
   whose message ids belong to the old one (`ReconnectLosesFiles`).
2. Two calls of one tab whose access token has expired both refresh with the same
   cookie; the server takes the second for a thief and ends every session
   (`SilentRefresh`).
3. A password change keeps the refresh token it came with, "so the user isn't logged out
   mid-action". If another call of the tab refreshes meanwhile, that token has been rotated
   when the others are revoked: its successor goes with them, and the browser is signed out
   (the recipe `ChangeMeetsRefresh` below; auth.service.ts:144-145 is the comment).
4. The bytes of a failed chunk are kept staged because "they're what makes 'retry failed syncs' possible"
   (storage.worker.ts:227-228). A retry may enqueue a chunk whose first job is still at work: the first stores it and
   unlinks the staging file, the second then fails for want of it and marks the chunk ERROR. If another chunk
   of the file fails as well, `retryFailed` finds a chunk that is not UPLOADED and not staged, and counts the file as
   unrecoverable although nothing of it is lost: one chunk is in the channel, the other is staged
   (the recipe `FailedForGood` below; `BytesSurvive` is what does hold).

**Statements known to fail.** TLC refutes what follows: statements that no run above checks, or that
fail on another instance than theirs. Each can be seen with the configuration of the run named, changed
as said.

| Recipe | Change | Refuted | Because |
|---|---|---|---|
| `OrphanedMessage` | `EngineSafety`: NumChunks = 1, Jobs = {j1}, Checkers = {}, Retriers = {}, FaultBudget <- NoFaults, MaxMessages = 1 | INVARIANT `NoMissedMessage` | a deletion reads a chunk before its id is written and removes the rows after the job has checked that they survived; also with a crash between the post and the write (OneCrash), when the rows stay |
| `DatabaseErrorAsVanished` | `EngineSafety`: Checkers = {}, FaultBudget <- OneDatabase | INVARIANT `ReadyIsDownloadable` | a database error after the transfer is taken for a vanished row, and the message of a live chunk is deleted |
| `StuckAfterCrash` | `EngineRetries`: NumChunks = 1, Jobs = {j1}, Retriers = {}, FaultBudget <- OneCrash | PROPERTY `UploadsSettle` | the redelivered job of a recorded chunk returns early, and the file stays UPLOADING; so it does when the update to READY fails (OneDatabase); two retries of one file (Retriers = {r1, r2}, Jobs = {j1, j2}, Concurrency = 2, MaxAttempts = 1, FaultBudget <- OneTelegram) reach the same early return |
| `FailedForGood` | `EngineSafety`: Checkers = {}, FaultBudget <- TwoTelegram | INVARIANT `FailedIsRetryable` | the fourth disagreement above |
| `PartRetryNotClean` | `PartUploads`: Faults = {"abandon"}, MaxFaults = 1 | INVARIANT `RetryIsClean` | a part sent again while the server still reads its first request is appended twice |
| `LateDeletion` | `Connections`: Files = {f1, f2}, MaxStarts = 2, Faults = {}, MaxFaults = 0 | INVARIANT `ReadyKeepsMessage` | a deletion still queued at a reconnect carries ids without their channel |
| `FolderCycle` | `Drive`: Movers <- TwoMovers, Operations <- MovesOnly, no property | INVARIANT `Acyclic` | two moves each pass the cycle check before the other writes; folders.service.ts:329 says the tree is cycle-proof by construction |
| `ChangeMeetsRefresh` | `SilentRefresh`: Does <- ChangeAndList, MaxTokens = 3, MaxChanges = 1 | INVARIANT `SignedInUntilEnded` | the token a password change keeps may have been rotated by then: the third disagreement above |
| `HalfArrived` | `UploadBatches`: MaxFaults = 0 | PROPERTY `NoHalfArrivedFolder` | a folder being made when the cancel comes is on no list; uploads.ts:216-217 says no half-arrived folder is left |

## 4. What is proved

**The engine.** Its theorems hold for every number of files, chunks, jobs, requests and
attempts, both queues and every fault budget, under `EngineAssumption` (the constants have
their types; at least one chunk, attempt and slot).

* `TypeCorrect` — `Spec => []TypeOK`.
* `EngineCorrect` — `Spec => []EngineInv`. None of the three safety properties
  is inductive: a job about to publish a file must still be entitled to, a
  suspended request must still hold ids of the file it read, a job about to delete a
  message as an orphan must really have lost its rows. `EngineInv` says so:
  `RowInv` (a row's status is backed by its message id, and the id by a message
  with its caption), `WorkInv` (nothing works on a file that was never created),
  `PublishInv` (who saw all chunks stored can still rely on it, or the file is
  gone), `MessageInv`, `SnapshotInv` (ids held by deletions and downloads are
  those of their file), and, while no database call of a job has failed,
  `JobsQuietInv` and `ChecksQuietInv` (messages are given up only for files that
  are gone; files only for messages their user deleted); `BytesInv` is below. The condition is needed:
  `DatabaseErrorAsVanished` is what happens without it.
* `ReadyCorrect`, `MessagesKept`, `LostCorrect` — the safety properties, from
  `EngineCorrect`. `ReadyDownloads` is what they mean together: every chunk of a READY
  file is in the channel, unless a job's database call failed or the user deleted it.
* `BytesAreKept` — `Spec => []BytesSurvive`: a chunk that was received is staged, or in the channel
  under the id its row has. A job unlinks the staging file at its very end and at two early exits, each time
  on what it read before other jobs of the chunk, retries and deletions went on. `UnstageInv` says what it may rely on:
  the row has an id by then, or is gone. It needs a job that gives a message up to be right (`JobsQuietInv`),
  and with it `BytesInv` is inductive. A restart is excused because the disk may be new, a failed
  database call because it counts as a vanished row.
* `EngineImplementsLifecycle` — `Spec => LifecycleSpec`: each step is a step
  of `FileLifecycle` or a stutter.

The argument has three parts. `StoredNext` goes through
the actions for the part that concerns rows. For the part about messages most
actions are *harmless*: they neither lose a message, nor give a job or a check
something to lose, nor mark a file LOST; `KeptByHarmless` proves that such a step
preserves `KeptInv`, and only the actions that do one of these get a proof of
their own. `BytesFrame` does the same for the bytes.

**The warm pool.** For all sets of accounts and clients and every finite set of calls
(`CallsAssumption`, `NoClientAssumption`). `PoolCorrect` proves the inductive invariant:
a client's `inUse` is the number of calls that hold it; a client is pooled under one
account until it is retired, and never after; one that nobody holds is pooled with its
timer, or closed, or was never made. `InUseStaysOpen` alone is not inductive: the release
of a call closes a retired client when the *count* says that it was the last, so the
count must be exact (`CountsAreExact`); and a retirement closes what is not in use, so the
pool must not hold a client whose count another path still lowers. `NeverClosedInUse`,
`PoolNeverLeaks` and `PoolStaysFresh` follow.

**The forest and the folder requests.** For any folders, files, names and requests, under
`ForestAssumption`, `LimitsAssumption`, `OperationsAssumption` (what a request carries) and
`StartAssumption` (a behaviour starts from rows the schema allows, with a tree that is a forest).

* `ForestStaysForest` — adding leaves, moving a folder outside a closed set that contains it and
  removing closed sets keep the tree acyclic (no set of folders has all its parents inside it)
  and attached; `ForestStaysAcyclic`, `ForestStaysAttached` are the two halves.
* `DriveTypes` — the type invariant.
* `MessagesKept`, `MessagesSwept`, `ZipsComplete`, `DataStays` — the four properties about files,
  with any number of requests interleaved and without a hypothesis on behaviours. None is inductive: a
  deletion, a cleanup or a zip relies on a list of folders it read long before. `DriveInv` says what
  that list is still worth (`Knows`): of the files nobody has touched since the start, each that
  is below the folder asked for is *in* a folder already seen or below one still to be read, a deletion
  has noted all stored ones it is about to remove (`Noted`), a cleanup that goes on has found
  none (`FoundEmpty`). `KnowsStays` shows that the other requests cannot spoil it, whatever rows they
  insert, hang elsewhere or remove: it needs only that what is removed does not come back
  (`Others`). `TrashOk` and `SweptOk` then relate the messages that were handed on to the rows.
* `ServiceIsForest`, `TreeStaysAcyclic` — the refinement. A move checks for a cycle by climbing from
  its target, one read at a time, and writes later; in between folders may be removed or made.
  `WayUp` is the invariant of the climb: the folders passed are all different from the one to be
  moved, and none has been hung elsewhere. It holds only if no two moves overlap
  (`Serialised`), which the service does not see to (`FolderCycle` above is what happens
  otherwise), and proves the move safe only if the climb is not cut off by its limit of 200
  (`NotCutOff`): both are hypotheses on the behaviour. `OneMoverIsForest` discharges them where one
  request may move folders and there are no more folders than the limit: then
  `DriveSpec => ForestSpec /\ []Acyclic`.
* `CountsAgree`, `DeletedTreesHonest` — what the walks over the tree compute, under the same two
  hypotheses. The first also needs that no file on its way lies deeper than the
  loop climbs, 1000 folders in the code (`NotTooDeep`): a deeper one is not counted. The second
  needs the folders and files to be finite. `OneMoverCounts` discharges all of it as
  `OneMoverIsForest` does. Both compare a recursive walk with a set: that the climb from a file
  finds *the* listed folder above it and no other (`FindsListed`), and that the pieces in which the tree is
  built have as many entries as what is below the folder, or as fit (`TreeWalk`). The induction theorems of the library
  take an operator and cannot be used here, so the induction is on *sets* of numbers: `SetInduction`,
  that a set with 0 that is closed under successor is all of `Nat`, is proved from the
  well-foundedness of `<`, and so are the existence of a function by recursion and the equation of
  the model's own recursive functions.

**The tests' database.** For any database whose rows have ids of their own and whose files have a session
at most (`Keyed`, which TLC finds of the databases of `MCDrive`): `FolderDeletesAgree` and `FileDeletesAgree`, that the fake removes
what the schema's cascades remove, and `FolderSweepsAgree`, that `folder.deleteMany` agrees exactly
when nothing else refers to the folders that go. The fake goes down the tree from a folder (`Reach`), the schema from each
row that goes to the rows that refer to it (`Waves`); both have come to an end after as many rounds as there are folders,
and two more for files and chunks (`ReachCloses`, `BelowCloses`, `WavesReach`). The set of rows `Below`
is closed under references, and every row of it is reached. On a cycle of folders the recursion in the code would not end,
and the theorem says nothing of it.

**The connection.** For any number of files, logins and sign-ins and any fault budget,
under `ConnectionAssumption`. `ConnectionCorrect` proves `Spec => []ConnInv`. Each of the
three properties fails to be inductive because somebody read the row long ago: the
request that holds the mutex goes on from what it read (`OpRelies`), while the
keep-alive, downloads and jobs mark the row without the mutex; and a job writes a
message id into the channel its snapshot names. The proof first shows that a step either
belongs to the holder of the mutex or does no more to the row than mark it
(`LockedOrElsewhere`), and then, for the files, that what is stored *or about to be* lies in
a channel the row knows, its own or one that a reconnect left behind (`StoredInv`): a
disconnect purges the files before it clears the row, so no job that is left can bring
one back, but for files created between the two (`late`). `ConnectedCorrect`,
`SecretsCorrect` and `StoredCorrect` are the properties.

**The parts of an upload.** For a file, a part and a chunk of any size and any number of
requests, under `PartAssumption`. `NothingSkipped` is not inductive: a request that was
given up by its client may still be at work when the cursor has gone elsewhere, and the
cursor then moves to where *that* request says. `SkipCorrect` adds what each request knows
(`Knows`): the chunks before its part are done since it was found in order, and its own once
it has enqueued it. That the last part of a chunk is recognised as such, whatever the
sizes, is division: `ChunkEnds` proves it from `Division`, `Quotient` and `RoundedUp`, and
`ChunkRestarts` that STAGING_LOST sends the client back inside the file. `NeverSkips` is
the property, as long as the process lives.

`QueuedWhole` and `StoredWhole` are about bytes. `StagedInv`: while the client gives no request
up, one request is at work at a time (`OneAtATime`), a staging file holds a beginning of its
chunk, in order, and a request that writes has the file it opened under its path and as much
in it as it has received (`Staged`, `HasWritten`). `ReadInv` adds, when nothing worse happens than cut bodies
and lost answers, that the request at work is on the part the session waits for, and that a
chunk whose job waits lies behind the session: so nobody sends it again while its job has yet
to read it.

**The drop.** For any files, folders, number of workers and faults, under
`DropAssumption`, `OwnFoldersOnly` proves that what the panel has recorded and what a clean-up has yet
to delete was made by the drop, never found: the folders the user had are never
away for a request to make them anew. `OthersKept` is the action property.

`LeaveTogether` — the panel: `LeavesTogether` breaks if a dismissal takes a group of which
one upload is still to come, and shows up later. `PanelInv` says why it does not: an upload that is to
come or has a request under way, and was not cancelled, shows as uploading (`ShownWhileDue`),
only a begun and shown one has a controller to be retried with (`ControllersShown`), and the
timer that dismisses runs only for one that is through (`TimersLast`).

**The sessions.** For any browsers, tabs, calls and tokens, under `SessionAssumption`.

* `SessionTypes` — the type invariant.
* `OldSessionsDie` — no hypothesis: any number of calls may be in flight. A token is issued from what a
  call checked statements ago, so the invariant says of each call what it knows of the last
  sign-out (`CheckedSince`): either one came after its check, and the token it may still issue counts as
  overtaken, or what it presents was still good under the new password.
* `OneTokenASignIn`, `AlarmForCause`, `SessionsLast` — `SessionSpec /\ []TakeTurns => …`: for behaviours in
  which any number of calls may be in flight, but of those of one browser at most one at a time refreshes,
  signs in or out, or replaces the password. The hypothesis is needed, since the client
  lets them overlap: `SilentRefresh` and `ChangeMeetsRefresh` are what happens then; and it is not
  empty: TLC finds the three to hold with two calls of a tab in flight (`SilentRefresh` with Does <- SharedKinds,
  MaxChanges = 1, MaxLost = 1 and SPECIFICATION `TurnsSpec`; 144 089 states). A call that only presents its access token knows nothing and spoils
  nothing (`PlainAt`, `OthersPlain`). Between the two statements of a rotation its sign-in has no live token
  (`Rotating`), and no two browsers hold tokens of one sign-in (`Apart`), or the other's
  refresh would come between. For the last two, `Presents`: a call on its way has the cookie its browser has,
  and what it brings back is live, unless something excuses the browser (`Excused`); a dead
  cookie in a jar is about to be replaced or dropped (`Replaces`).

**The drive page.** For any items, handlers and gestures, under `PageAssumption`. The three
action properties of the run:

* `ClosesOwnQuestion` — a row that believes its question open is right or was overtaken (`AskInv`).
* `HoldsToggleOnce` — `HoldInv`: until the hold fires the item is selected as it was when the finger
  went down, after that the other way round, and its click is marked to be swallowed; every
  other step that touches the selection meanwhile clears it as a whole.
* `DeletedRowsGo` — `GoneInv`: what a deletion has had answered is gone, and once it waits for the
  listing, all of it is, and is not in the fetch under way either: this is where the refresh must *replace*
  that fetch. `AskedInv` ties the question on screen to the handler that asked it. The step is proved by what
  every other step leaves alone (`Calm`).

The invariants above were checked by TLC on the instances of section 3 before they were proved;
a module that extends an MC module and the proof module does that.

**A convention the proofs need.** The translation of tlapm 1.4.5 to SMT is not reliable for several paths into one record
of a function, as in `[f EXCEPT ![x].a = v, ![x].b = w]`, and for an `@` inside an inner
`EXCEPT`. The modules write `[f EXCEPT ![x] = [@ EXCEPT !.a = v, !.b = w]]`, with the old value spelled out in
`v` and `w`. Leaves that expand such a definition were tried with the goal FALSE, and fail.

**Only model-checked.**

* The liveness properties (`UploadsSettle`, `DeletionsComplete`, `UploadCompletes`, `RequestsEnd`,
  `CallsSettle`, `RetiredCloses`, `CancelledFilesGo`, `CancelledFoldersGo`, `UploadsEnd`,
  `PageSettles`): TLAPS proves none under fairness here.
* `TestDatabase`, compared with the schema on the databases of `MCDrive`, but for the deletions above.
* The refuted statements of section 3.

## 5. Plan

Done: all components of section 2, and a proof of every safety invariant and action property the
passing runs check. Next, in this order:

1. The zip stream and the percentages of sync progress, and the search box's query.
2. The arithmetic of parts and chunks checked for many sizes at once.
3. What each service records in the activity log.

## 6. Not modelled

Cryptography is byte-level; the HTTP shell, mailer, rate limits and schemas keep no
state the properties are about; the service worker and the other pages render. Of the
modelled components: pausing an upload (no button offers it), the preview modal, the stored
list or grid choice, registration and token formats, the login calls of MTProto, and
the stream of a zip. Each is listed with its reason under "components" in `PROJECT.json`.

## 7. Running

In this directory: `tlc -workers 2 -config EngineSafety.cfg MCStorageEngine.tla`
checks a run, `tlapm StorageEngineProofs.tla` a proof module.
