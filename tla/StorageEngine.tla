--------------------------- MODULE StorageEngine ---------------------------
(***************************************************************************)
(* The storage engine of the drive: how the chunks of a file travel from   *)
(* the staging directory to messages of the user's storage channel, and    *)
(* how the rows that describe them are kept, for ONE account.              *)
(*                                                                         *)
(* Actors, all interleaved at their awaits:                                *)
(*   - the upload request that stages a chunk and enqueues its job         *)
(*     (files.service.ts createUpload, uploadPart)                         *)
(*   - the chunk-upload and messages-delete jobs of the queue              *)
(*     (storage.worker.ts, lib/queue)                                      *)
(*   - deleteFile / abortUpload, download and retryFailed requests         *)
(*     (files.service.ts)                                                  *)
(*   - the environment: the user deleting messages by hand, a broken       *)
(*     connection, failing calls, a crash of the API process.              *)
(*                                                                         *)
(* The parts a chunk is assembled from are below this module's level (see  *)
(* PartUpload); here a chunk is staged in one step.                        *)
(***************************************************************************)
EXTENDS Naturals, Sequences, FiniteSets

CONSTANTS
  Files,          \* file ids; an id is never used twice
  NumChunks,      \* chunks of a file
  Jobs,           \* slots for chunk-upload jobs
  Checkers,       \* download requests, and retryFailed's verifications
  Retriers,       \* retryFailed requests
  MaxAttempts,    \* DEFAULT_RETRY.attempts
  Concurrency,    \* jobs the queue runs at a time
  Durable,        \* TRUE: BullMQ, FALSE: the in-process queue
  MaxMessages,    \* bound: messages ever posted to the channel
  FaultBudget     \* bound: how often each kind of fault may happen

FaultKinds ==
  {"telegram", "connection", "database", "queue", "crash", "byHand"}

ASSUME EngineAssumption ==
  /\ NumChunks \in Nat \ {0}
  /\ MaxAttempts \in Nat \ {0}
  /\ Concurrency \in Nat \ {0}
  /\ Durable \in BOOLEAN
  /\ MaxMessages \in Nat
  /\ FaultBudget \in [FaultKinds -> Nat]

VARIABLES
  file,         \* status of the file row; NEW and GONE: there is no row
  chunkStatus,  \* status of each chunk row
  chunkMsg,     \* telegramMessageId of each chunk row, NoMsg for null
  staged,       \* chunks whose staging file is complete on disk
  upload,       \* the upload session: the chunk being received
  job,          \* the chunk-upload jobs
  lock,         \* which job holds the account's mutex
  trash,        \* the messages-delete jobs
  del,          \* delete requests, per file
  check,        \* requests that verify a file against the channel
  retry,        \* requests that re-enqueue a failed file
  log,          \* caption of every message ever posted, by message id
  channel,      \* ids of the messages now in the channel
  byHand,       \* ids of the messages the user deleted in Telegram
  conn,         \* status of the storage connection
  budget        \* faults left

rows     == <<file, chunkStatus, chunkMsg>>
telegram == <<log, channel, byHand>>
requests == <<upload, del, check, retry>>
around   == <<lock, trash, telegram, conn, budget>>
vars == <<rows, staged, requests, job, around>>

ChunkIds == Files \X (1..NumChunks)
ChunksOf(f) == {k \in ChunkIds : k[1] = f}

NoMsg == 0
NoKey == << >>
NoJob == "none"
NoFile == "none"

Exists(f) == file[f] \notin {"NEW", "GONE"}
FullyStored(f) == \A k \in ChunksOf(f) : chunkMsg[k] # NoMsg
MessagesOf(f) == {chunkMsg[k] : k \in ChunksOf(f)} \ {NoMsg}

\* Mutation: only chunks nobody has started on count as unfinished.
UnfinishedIfPending(f) == {k \in ChunksOf(f) : chunkStatus[k] = "PENDING"}
Unfinished(f) == {k \in ChunksOf(f) : chunkStatus[k] # "UPLOADED"}

Spend(kind) ==
  /\ budget[kind] > 0
  /\ budget' = [budget EXCEPT ![kind] = @ - 1]

\* A call to Telegram fails. A revoked session also flags the connection
\* (flagRevokedSession, recordDownloadFailure).
Interrupted ==
  \/ Spend("telegram") /\ UNCHANGED conn
  \/ conn = "CONNECTED" /\ Spend("connection") /\ conn' = "ERROR"

JobAt(pc, key, attempt, msg) ==
  [pc |-> pc, key |-> key, attempt |-> attempt, msg |-> msg]
UploadAt(pc, next) == [pc |-> pc, next |-> next]
DeleteAt(pc, ids) == [pc |-> pc, ids |-> ids]
CheckAt(pc, f, ids, by) == [pc |-> pc, file |-> f, ids |-> ids, by |-> by]
RetryAt(pc, f, pending) == [pc |-> pc, file |-> f, pending |-> pending]
Batch(ids, attempt) == [ids |-> ids, attempt |-> attempt]

FreeJob    == JobAt("free", NoKey, 0, NoMsg)
NewJob(k)  == JobAt("queued", k, 1, NoMsg)

IdleUpload == UploadAt("none", 1)
IdleDelete == DeleteAt("idle", {})
IdleCheck  == CheckAt("idle", NoFile, {}, "download")
IdleRetry  == RetryAt("idle", NoFile, {})

Init ==
  /\ file = [f \in Files |-> "NEW"]
  /\ chunkStatus = [k \in ChunkIds |-> "PENDING"]
  /\ chunkMsg = [k \in ChunkIds |-> NoMsg]
  /\ staged = {}
  /\ upload = [f \in Files |-> IdleUpload]
  /\ job = [j \in Jobs |-> FreeJob]
  /\ lock = NoJob
  /\ trash = {}
  /\ del = [f \in Files |-> IdleDelete]
  /\ check = [q \in Checkers |-> IdleCheck]
  /\ retry = [r \in Retriers |-> IdleRetry]
  /\ log = << >>
  /\ channel = {}
  /\ byHand = {}
  /\ conn = "CONNECTED"
  /\ budget = FaultBudget

(***************************************************************************)
(* Upload requests.                                                        *)
(***************************************************************************)

\* createUpload: the file, its chunk rows and its session are one statement.
CreateUpload(f) ==
  /\ file[f] = "NEW"
  /\ conn = "CONNECTED"
  /\ file' = [file EXCEPT ![f] = "UPLOADING"]
  /\ upload' = [upload EXCEPT ![f] = UploadAt("receiving", 1)]
  /\ UNCHANGED <<chunkStatus, chunkMsg, staged, del, check, retry, job,
                 around>>

\* uploadPart, up to the last part of a chunk being appended to its file.
StageChunk(f) ==
  /\ upload[f].pc = "receiving"
  /\ file[f] = "UPLOADING"
  /\ <<f, upload[f].next>> \notin staged
  /\ staged' = staged \cup {<<f, upload[f].next>>}
  /\ upload' = [upload EXCEPT ![f] = UploadAt("staged", upload[f].next)]
  /\ UNCHANGED <<rows, del, check, retry, job, around>>

\* STAGING_LOST: a chunk that is received again starts from its first part.
RestartChunk(f) ==
  /\ upload[f].pc = "receiving"
  /\ file[f] = "UPLOADING"
  /\ <<f, upload[f].next>> \in staged
  /\ staged' = staged \ {<<f, upload[f].next>>}
  /\ UNCHANGED <<rows, requests, job, around>>

\* uploadPart's continuation: it holds the session it read, so the job is
\* enqueued whether or not the rows still exist.
EnqueueChunk(f) ==
  /\ upload[f].pc = "staged"
  /\ \E j \in Jobs :
       /\ job[j].pc = "free"
       /\ job' = [job EXCEPT ![j] = NewJob(<<f, upload[f].next>>)]
  /\ upload' = [upload EXCEPT ![f] = UploadAt("enqueued", upload[f].next)]
  /\ UNCHANGED <<rows, staged, del, check, retry, around>>

\* Mutation: off by one at the last chunk.
PastLastChunk(n) == n > NumChunks
IsLastChunk(n) == n = NumChunks

\* The session advances, or is deleted with the last part.
AdvanceUpload(f) ==
  /\ upload[f].pc = "enqueued"
  /\ upload' = [upload EXCEPT ![f] =
       IF ~Exists(f) \/ IsLastChunk(upload[f].next)
         THEN UploadAt("closed", upload[f].next)
         ELSE UploadAt("receiving", upload[f].next + 1)]
  /\ UNCHANGED <<rows, staged, del, check, retry, job, around>>

\* The session the client finds when a request has not advanced it.
Resumed(f) ==
  UploadAt(IF Exists(f) THEN "receiving" ELSE "closed", upload[f].next)

\* The job cannot be enqueued, or the session not advanced after it: the part
\* fails, and the client sends the chunk again.
EnqueueFails(f) ==
  /\ upload[f].pc \in {"staged", "enqueued"}
  /\ Spend("queue")
  /\ upload' = [upload EXCEPT ![f] = Resumed(f)]
  /\ UNCHANGED <<rows, staged, del, check, retry, job, lock, trash, telegram,
                 conn>>

(***************************************************************************)
(* The chunk-upload job. A job's pc names the await it is suspended at.    *)
(***************************************************************************)

Goto(j, pc) ==
  job' = [job EXCEPT ![j] = JobAt(pc, job[j].key, job[j].attempt, job[j].msg)]
Finish(j) == job' = [job EXCEPT ![j] = FreeJob]

\* Mutation: the last failed attempt is dropped without a final handler.
FailAttemptSilently(j) ==
  job' = [job EXCEPT ![j] =
    IF job[j].attempt < MaxAttempts
      THEN JobAt("queued", job[j].key, job[j].attempt + 1, NoMsg)
      ELSE FreeJob]

\* An attempt throws: the queue retries it, or calls onFinalFailure.
FailAttempt(j) ==
  job' = [job EXCEPT ![j] =
    IF job[j].attempt < MaxAttempts
      THEN JobAt("queued", job[j].key, job[j].attempt + 1, NoMsg)
      ELSE JobAt("failing", job[j].key, job[j].attempt, NoMsg)]

\* A failed job's final handler no longer occupies the queue.
Running == {j \in Jobs :
              job[j].pc \notin {"free", "queued", "failing", "flagging"}}

\* Mutation: a chunk that another job has taken up counts as delivered too.
TakenUp(k) == ~Exists(k[1]) \/ chunkStatus[k] # "PENDING"
\* The file was deleted, or the job delivers what is stored already.
NothingToDo(k) == ~Exists(k[1]) \/ chunkStatus[k] = "UPLOADED"

\* findUnique(chunk), then findUnique(connection).
JobStart(j) ==
  /\ job[j].pc = "queued"
  /\ Cardinality(Running) < Concurrency
  /\ LET k == job[j].key IN
     \/ NothingToDo(k) /\ Goto(j, "cleaning")
     \/ ~NothingToDo(k) /\ conn = "CONNECTED" /\ Goto(j, "marking")
     \/ ~NothingToDo(k) /\ conn # "CONNECTED" /\ FailAttempt(j)
  /\ UNCHANGED <<rows, staged, requests, around>>

\* update(status: UPLOADING); the update of a missing row throws.
JobMark(j) ==
  /\ job[j].pc = "marking"
  /\ LET k == job[j].key IN
     IF Exists(k[1])
       THEN /\ chunkStatus' = [chunkStatus EXCEPT ![k] = "UPLOADING"]
            /\ Goto(j, "waiting")
       ELSE /\ FailAttempt(j)
            /\ UNCHANGED chunkStatus
  /\ UNCHANGED <<file, chunkMsg, staged, requests, around>>

JobLock(j) ==
  /\ job[j].pc = "waiting"
  /\ lock = NoJob
  /\ lock' = j
  /\ Goto(j, "sending")
  /\ UNCHANGED <<rows, staged, requests, trash, telegram, conn, budget>>

Post(k) ==
  /\ Len(log) < MaxMessages
  /\ log' = Append(log, k)
  /\ channel' = channel \cup {Len(log) + 1}
  /\ UNCHANGED byHand

\* gateway.uploadFile under the mutex; a missing staging file is an error.
JobSend(j) ==
  /\ job[j].pc = "sending"
  /\ lock' = NoJob
  /\ LET k == job[j].key IN
     IF k \in staged
       THEN /\ Post(k)
            /\ job' = [job EXCEPT ![j] =
                         JobAt("posted", k, job[j].attempt, Len(log) + 1)]
       ELSE /\ FailAttempt(j)
            /\ UNCHANGED telegram
  /\ UNCHANGED <<rows, staged, requests, trash, conn, budget>>

\* The transfer fails: before the message exists, or with its answer lost.
JobSendFails(j) ==
  /\ job[j].pc = "sending"
  /\ Spend("telegram")
  /\ lock' = NoJob
  /\ FailAttempt(j)
  /\ \/ UNCHANGED telegram
     \/ job[j].key \in staged /\ Post(job[j].key)
  /\ UNCHANGED <<rows, staged, requests, trash, conn>>

\* survivor: does the row still exist?
JobSurvivor(j) ==
  /\ job[j].pc = "posted"
  /\ Goto(j, IF Exists(job[j].key[1]) THEN "writing" ELSE "orphan")
  /\ UNCHANGED <<rows, staged, requests, around>>

JobWrite(j) ==
  /\ job[j].pc = "writing"
  /\ LET k == job[j].key IN
     IF Exists(k[1])
       THEN /\ chunkStatus' = [chunkStatus EXCEPT ![k] = "UPLOADED"]
            /\ chunkMsg' = [chunkMsg EXCEPT ![k] = job[j].msg]
            /\ Goto(j, "verifying")
       ELSE /\ Goto(j, "orphan")
            /\ UNCHANGED <<chunkStatus, chunkMsg>>
  /\ UNCHANGED <<file, staged, requests, around>>

\* recorded: did the row survive the write?
JobRecorded(j) ==
  /\ job[j].pc = "verifying"
  /\ Goto(j, IF Exists(job[j].key[1]) THEN "unstaging" ELSE "orphan")
  /\ UNCHANGED <<rows, staged, requests, around>>

\* rm(stagingPath), on the way to the count or to the end of the job.
JobUnstage(j) ==
  /\ job[j].pc \in {"unstaging", "cleaning"}
  /\ staged' = staged \ {job[j].key}
  /\ IF job[j].pc = "unstaging" THEN Goto(j, "counting") ELSE Finish(j)
  /\ UNCHANGED <<rows, requests, around>>

\* count(status # UPLOADED): zero too when the rows are gone.
JobCount(j) ==
  /\ job[j].pc = "counting"
  /\ LET f == job[j].key[1] IN
     IF Exists(f) => Unfinished(f) = {}
       THEN Goto(j, "publishing")
       ELSE Finish(j)
  /\ UNCHANGED <<rows, staged, requests, around>>

\* update(status: READY), whose failure on a missing row is swallowed.
JobPublish(j) ==
  /\ job[j].pc = "publishing"
  /\ LET f == job[j].key[1] IN
     file' = IF Exists(f) THEN [file EXCEPT ![f] = "READY"] ELSE file
  /\ Finish(j)
  /\ UNCHANGED <<chunkStatus, chunkMsg, staged, requests, around>>

\* removeOrphanedMessage: under the mutex, an error of Telegram is swallowed.
JobOrphan(j) ==
  /\ job[j].pc = "orphan"
  /\ lock = NoJob
  /\ \/ channel' = channel \ {job[j].msg} /\ UNCHANGED budget
     \/ Spend("telegram") /\ UNCHANGED channel
  /\ Goto(j, "cleaning")
  /\ UNCHANGED <<rows, staged, requests, lock, trash, log, byHand, conn>>

\* onFinalFailure: the chunk becomes ERROR, then the file; the staged bytes
\* stay. A revoked session flags the connection.
JobFailChunk(j) ==
  /\ job[j].pc = "failing"
  /\ LET k == job[j].key IN
     chunkStatus' = IF Exists(k[1]) THEN [chunkStatus EXCEPT ![k] = "ERROR"]
                                    ELSE chunkStatus
  /\ Goto(j, "flagging")
  /\ UNCHANGED <<file, chunkMsg, staged, requests, around>>

JobFailFile(j) ==
  /\ job[j].pc = "flagging"
  /\ LET f == job[j].key[1] IN
     file' = IF Exists(f) THEN [file EXCEPT ![f] = "ERROR"] ELSE file
  /\ Finish(j)
  /\ \/ UNCHANGED <<conn, budget>>
     \/ /\ Exists(job[j].key[1]) /\ conn = "CONNECTED"
        /\ Spend("connection") /\ conn' = "ERROR"
  /\ UNCHANGED <<chunkStatus, chunkMsg, staged, requests, lock, trash,
                 telegram>>

\* A database call of the job throws. Before the transfer, after it and at
\* the count the attempt fails; at the write and the check after it the
\* catch takes it for a vanished row; elsewhere the error is swallowed.
JobDbFails(j) ==
  /\ Spend("database")
  /\ \/ /\ job[j].pc \in {"queued", "marking", "posted", "counting"}
        /\ FailAttempt(j)
     \/ /\ job[j].pc \in {"writing", "verifying"}
        /\ Goto(j, "orphan")
     \/ /\ job[j].pc \in {"publishing", "flagging"}
        /\ Finish(j)
     \/ /\ job[j].pc = "failing"
        /\ Goto(j, "flagging")
  /\ UNCHANGED <<rows, staged, requests, lock, trash, telegram, conn>>

(***************************************************************************)
(* The messages-delete job; one batch, under the mutex.                    *)
(***************************************************************************)

\* Without a connection the job returns and the messages stay.
TrashRun(t) ==
  /\ t \in trash
  /\ lock = NoJob
  /\ trash' = trash \ {t}
  /\ channel' = IF conn = "CONNECTED" THEN channel \ t.ids ELSE channel
  /\ UNCHANGED <<rows, staged, requests, job, lock, log, byHand, conn, budget>>

\* Mutation: a failed batch is not tried again.
TrashFailsOnce(t) ==
  /\ t \in trash
  /\ lock = NoJob
  /\ conn = "CONNECTED"
  /\ trash' = trash \ {t}
  /\ Interrupted
  /\ UNCHANGED <<rows, staged, requests, job, lock, telegram>>

\* Telegram fails the batch: the queue retries it, and in the end gives up.
TrashFails(t) ==
  /\ t \in trash
  /\ lock = NoJob
  /\ conn = "CONNECTED"
  /\ IF t.attempt < MaxAttempts
       THEN /\ trash' = (trash \ {t}) \cup {Batch(t.ids, t.attempt + 1)}
            /\ Spend("telegram") /\ UNCHANGED conn
       ELSE /\ trash' = trash \ {t}
            /\ Interrupted
  /\ UNCHANGED <<rows, staged, requests, job, lock, telegram>>

(***************************************************************************)
(* deleteFile and abortUpload.                                             *)
(***************************************************************************)

\* Mutation: the messages go before the rows that point at them.
DeleteReadMessagesFirst(f) ==
  /\ del[f].pc = "idle"
  /\ Exists(f)
  /\ del' = [del EXCEPT ![f] = DeleteAt("cleanup", MessagesOf(f))]
  /\ UNCHANGED <<rows, staged, upload, check, retry, job, around>>

\* The request reads the file with its chunks: the ids it will delete.
DeleteRead(f) ==
  /\ del[f].pc = "idle"
  /\ Exists(f)
  /\ del' = [del EXCEPT ![f] = DeleteAt("rows", MessagesOf(f))]
  /\ UNCHANGED <<rows, staged, upload, check, retry, job, around>>

\* file.delete cascades to the chunk rows and the session.
DeleteRows(f) ==
  /\ del[f].pc = "rows"
  /\ file' = [file EXCEPT ![f] = "GONE"]
  /\ chunkStatus' = [k \in ChunkIds |->
                       IF k[1] = f THEN "PENDING" ELSE chunkStatus[k]]
  /\ chunkMsg' = [k \in ChunkIds |-> IF k[1] = f THEN NoMsg ELSE chunkMsg[k]]
  /\ upload' = IF upload[f].pc \in {"staged", "enqueued"} THEN upload
               ELSE [upload EXCEPT ![f] = UploadAt("closed", upload[f].next)]
  /\ del' = [del EXCEPT ![f] = DeleteAt("cleanup", del[f].ids)]
  /\ UNCHANGED <<staged, check, retry, job, around>>

\* rm(staging directory), then one messages-delete job for the ids read.
DeleteCleanup(f) ==
  /\ del[f].pc = "cleanup"
  /\ staged' = {k \in staged : k[1] # f}
  /\ trash' = IF del[f].ids = {} THEN trash
              ELSE trash \cup {Batch(del[f].ids, 1)}
  /\ del' = [del EXCEPT ![f] = DeleteAt("done", {})]
  /\ UNCHANGED <<rows, upload, check, retry, job, lock, telegram, conn,
                 budget>>

\* The ids cannot be enqueued: the rows are gone, the request fails.
DeleteFails(f) ==
  /\ del[f].pc = "cleanup"
  /\ Spend("queue")
  /\ staged' = {k \in staged : k[1] # f}
  /\ del' = [del EXCEPT ![f] = DeleteAt("done", {})]
  /\ UNCHANGED <<rows, upload, check, retry, job, lock, trash, telegram, conn>>

(***************************************************************************)
(* download, and the part of retryFailed that verifies a stored file.      *)
(***************************************************************************)

CheckStart(q, f, by) ==
  /\ check[q].pc = "idle"
  /\ conn = "CONNECTED"
  /\ FullyStored(f)
  /\ \/ by = "download" /\ file[f] \in {"READY", "UPLOADING", "ERROR"}
     \/ by = "retry" /\ file[f] = "ERROR"
  /\ check' = [check EXCEPT ![q] =
       CheckAt(IF file[f] = "READY" THEN "verify" ELSE "verifyRepair",
               f, MessagesOf(f), by)]
  /\ UNCHANGED <<rows, staged, upload, del, retry, job, around>>

CheckGoto(q, pc) ==
  check' = [check EXCEPT ![q] =
    IF pc = "idle" THEN IdleCheck
    ELSE CheckAt(pc, check[q].file, check[q].ids, check[q].by)]

\* verifyPresent: one lookup for every message id of the snapshot.
CheckVerify(q) ==
  /\ check[q].pc \in {"verify", "verifyRepair"}
  /\ CheckGoto(q, IF ~(check[q].ids \subseteq channel) THEN "lost"
                  ELSE IF check[q].pc = "verifyRepair" THEN "repair"
                  ELSE "stream")
  /\ UNCHANGED <<rows, staged, upload, del, retry, job, around>>

\* Mutation: a lookup that fails is taken for a message that is missing.
CheckFailsAsLost(q) ==
  /\ check[q].pc \in {"verify", "verifyRepair", "stream"}
  /\ Interrupted
  /\ CheckGoto(q, "lost")
  /\ UNCHANGED <<rows, staged, upload, del, retry, job, lock, trash, telegram>>

\* The lookup or the stream fails: retryFailed leaves the file as it is, and
\* the connection too.
CheckFails(q) ==
  /\ check[q].pc \in {"verify", "verifyRepair", "stream"}
  /\ Interrupted
  /\ check[q].by = "retry" => UNCHANGED conn
  /\ CheckGoto(q, "idle")
  /\ UNCHANGED <<rows, staged, upload, del, retry, job, lock, trash, telegram>>

CheckRepair(q) ==
  /\ check[q].pc = "repair"
  /\ LET f == check[q].file IN
     file' = IF Exists(f) THEN [file EXCEPT ![f] = "READY"] ELSE file
  /\ CheckGoto(q, IF check[q].by = "download" THEN "stream" ELSE "idle")
  /\ UNCHANGED <<chunkStatus, chunkMsg, staged, upload, del, retry, job,
                 around>>

\* The stream ends, or meets a message that has gone since the lookup.
CheckStream(q) ==
  /\ check[q].pc = "stream"
  /\ CheckGoto(q, IF check[q].ids \subseteq channel THEN "idle" ELSE "lost")
  /\ UNCHANGED <<rows, staged, upload, del, retry, job, around>>

\* markFileLost
CheckLost(q) ==
  /\ check[q].pc = "lost"
  /\ LET f == check[q].file IN
     file' = IF Exists(f) THEN [file EXCEPT ![f] = "LOST"] ELSE file
  /\ CheckGoto(q, "idle")
  /\ UNCHANGED <<chunkStatus, chunkMsg, staged, upload, del, retry, job,
                 around>>

(***************************************************************************)
(* retryFailed on a file that was never fully stored.                      *)
(***************************************************************************)

\* The pending chunks are read, and every one of them is still staged.
RetryRead(r, f) ==
  /\ retry[r].pc = "idle"
  /\ conn = "CONNECTED"
  /\ file[f] = "ERROR"
  /\ ~FullyStored(f)
  /\ Unfinished(f) # {}
  /\ Unfinished(f) \subseteq staged
  /\ retry' = [retry EXCEPT ![r] = RetryAt("reset", f, Unfinished(f))]
  /\ UNCHANGED <<rows, staged, upload, del, check, job, around>>

RetryReset(r) ==
  /\ retry[r].pc = "reset"
  /\ chunkStatus' = [k \in ChunkIds |->
       IF k[1] = retry[r].file /\ chunkStatus[k] # "UPLOADED"
         THEN "PENDING" ELSE chunkStatus[k]]
  /\ retry' = [retry EXCEPT ![r] =
                 RetryAt("mark", retry[r].file, retry[r].pending)]
  /\ UNCHANGED <<file, chunkMsg, staged, upload, del, check, job, around>>

\* update(status: UPLOADING) throws when the file is gone.
RetryMark(r) ==
  /\ retry[r].pc = "mark"
  /\ LET f == retry[r].file IN
     IF Exists(f)
       THEN /\ file' = [file EXCEPT ![f] = "UPLOADING"]
            /\ retry' = [retry EXCEPT ![r] =
                           RetryAt("enqueue", retry[r].file, retry[r].pending)]
       ELSE /\ retry' = [retry EXCEPT ![r] = IdleRetry]
            /\ UNCHANGED file
  /\ UNCHANGED <<chunkStatus, chunkMsg, staged, upload, del, check, job,
                 around>>

\* One enqueue per pending chunk, in index order.
RetryEnqueue(r) ==
  /\ retry[r].pc = "enqueue"
  /\ \E k \in retry[r].pending, j \in Jobs :
       /\ \A other \in retry[r].pending : k[2] <= other[2]
       /\ job[j].pc = "free"
       /\ job' = [job EXCEPT ![j] = NewJob(k)]
       /\ retry' = [retry EXCEPT ![r] =
            IF retry[r].pending = {k} THEN IdleRetry
            ELSE RetryAt("enqueue", retry[r].file, retry[r].pending \ {k})]
  /\ UNCHANGED <<rows, staged, upload, del, check, around>>

\* An enqueue throws: the chunks that remain are PENDING without a job.
RetryFails(r) ==
  /\ retry[r].pc = "enqueue"
  /\ Spend("queue")
  /\ retry' = [retry EXCEPT ![r] = IdleRetry]
  /\ UNCHANGED <<rows, staged, upload, del, check, job, lock, trash, telegram,
                 conn>>

(***************************************************************************)
(* The environment.                                                        *)
(***************************************************************************)

\* The user deletes a message inside the Telegram app.
DeleteByHand(m) ==
  /\ m \in channel
  /\ Spend("byHand")
  /\ channel' = channel \ {m}
  /\ byHand' = byHand \cup {m}
  /\ UNCHANGED <<rows, staged, requests, job, lock, trash, log, conn>>

\* A health check, or a revoked session a job met, flags the connection; a
\* later health check of the user finds it working again.
ConnectionFails ==
  /\ conn = "CONNECTED"
  /\ Spend("connection")
  /\ conn' = "ERROR"
  /\ UNCHANGED <<rows, staged, requests, job, lock, trash, telegram>>

ConnectionRecovers ==
  /\ conn = "ERROR"
  /\ conn' = "CONNECTED"
  /\ UNCHANGED <<rows, staged, requests, job, lock, trash, telegram, budget>>

\* The API process dies and starts again. Requests, the mutex and the final
\* failure handlers are gone; BullMQ redelivers its jobs, the in-process
\* queue loses them. The staging directory may be on an ephemeral disk.
Crash ==
  /\ Spend("crash")
  /\ staged' \in {staged, {}}
  /\ upload' = [f \in Files |-> IF upload[f].pc \in {"staged", "enqueued"}
                               THEN Resumed(f) ELSE upload[f]]
  /\ del' = [f \in Files |-> IF del[f].pc = "rows" THEN IdleDelete
                             ELSE IF del[f].pc = "cleanup"
                             THEN DeleteAt("done", {}) ELSE del[f]]
  /\ check' = [q \in Checkers |-> IdleCheck]
  /\ retry' = [r \in Retriers |-> IdleRetry]
  /\ job' = [j \in Jobs |->
       IF ~Durable \/ job[j].pc \in {"free", "failing", "flagging"} THEN FreeJob
       ELSE JobAt("queued", job[j].key, job[j].attempt, NoMsg)]
  /\ trash' = IF Durable THEN trash ELSE {}
  /\ lock' = NoJob
  /\ UNCHANGED <<rows, telegram, conn>>

-----------------------------------------------------------------------------

UploadStep(f) == EnqueueChunk(f) \/ AdvanceUpload(f)

JobStep(j) ==
  \/ JobStart(j) \/ JobMark(j) \/ JobLock(j) \/ JobSend(j)
  \/ JobSurvivor(j) \/ JobWrite(j) \/ JobRecorded(j) \/ JobUnstage(j)
  \/ JobCount(j) \/ JobPublish(j) \/ JobOrphan(j)
  \/ JobFailChunk(j) \/ JobFailFile(j)

DeleteStep(f) == DeleteRows(f) \/ DeleteCleanup(f)

CheckStep(q) ==
  CheckVerify(q) \/ CheckRepair(q) \/ CheckStream(q) \/ CheckLost(q)

RetryStep(r) == RetryReset(r) \/ RetryMark(r) \/ RetryEnqueue(r)

Next ==
  \/ \E f \in Files : CreateUpload(f) \/ StageChunk(f) \/ RestartChunk(f)
                         \/ UploadStep(f) \/ EnqueueFails(f)
  \/ \E j \in Jobs : JobStep(j) \/ JobSendFails(j) \/ JobDbFails(j)
  \/ \E t \in trash : TrashRun(t) \/ TrashFails(t)
  \/ \E f \in Files : DeleteRead(f) \/ DeleteStep(f) \/ DeleteFails(f)
  \/ \E q \in Checkers, f \in Files, by \in {"download", "retry"} :
       CheckStart(q, f, by)
  \/ \E q \in Checkers : CheckStep(q) \/ CheckFails(q)
  \/ \E r \in Retriers, f \in Files : RetryRead(r, f)
  \/ \E r \in Retriers : RetryStep(r) \/ RetryFails(r)
  \/ \E m \in channel : DeleteByHand(m)
  \/ ConnectionFails \/ ConnectionRecovers \/ Crash

Spec == Init /\ [][Next]_vars

\* What the process runs without anybody asking again: the queue picks up and
\* finishes its jobs, and a request that has started runs to its end. Clients
\* owe nothing: no fairness on new requests, nor on the client's next chunk.
Fairness ==
  /\ \A f \in Files : WF_vars(UploadStep(f)) /\ WF_vars(DeleteStep(f))
  /\ \A j \in Jobs : WF_vars(JobStep(j))
  /\ \A r \in Retriers : WF_vars(RetryStep(r))
  /\ \A q \in Checkers : WF_vars(CheckStep(q))
  /\ WF_vars(\E t \in trash : TrashRun(t))

FairSpec == Spec /\ Fairness

-----------------------------------------------------------------------------
(***************************************************************************)
(* Properties.                                                             *)
(***************************************************************************)

UploadType ==
  [pc : {"none", "receiving", "staged", "enqueued", "closed"},
   next : 1..NumChunks]

DeleteType == [pc : {"idle", "rows", "cleanup", "done"}, ids : SUBSET Nat]

JobType ==
  [pc : {"free", "queued", "marking", "waiting", "sending", "posted",
         "writing", "verifying", "unstaging", "counting", "publishing",
         "orphan", "cleaning", "failing", "flagging"},
   key : ChunkIds \cup {NoKey}, attempt : 0..MaxAttempts, msg : Nat]

CheckType ==
  [pc : {"idle", "verify", "verifyRepair", "lost", "repair", "stream"},
   file : Files \cup {NoFile}, ids : SUBSET Nat, by : {"download", "retry"}]

RetryType ==
  [pc : {"idle", "reset", "mark", "enqueue"}, file : Files \cup {NoFile},
   pending : SUBSET ChunkIds]

\* The type of every row, request and job; message ids are ids that were
\* handed out, or are still to be.
TypeOK ==
  /\ file \in [Files -> {"NEW", "UPLOADING", "READY", "ERROR", "LOST", "GONE"}]
  /\ chunkStatus \in [ChunkIds -> {"PENDING", "UPLOADING", "UPLOADED", "ERROR"}]
  /\ chunkMsg \in [ChunkIds -> Nat]
  /\ staged \subseteq ChunkIds
  /\ upload \in [Files -> UploadType]
  /\ job \in [Jobs -> JobType]
  /\ lock \in Jobs \cup {NoJob}
  /\ trash \subseteq [ids : SUBSET Nat, attempt : 1..MaxAttempts]
  /\ del \in [Files -> DeleteType]
  /\ check \in [Checkers -> CheckType]
  /\ retry \in [Retriers -> RetryType]
  /\ log \in Seq(ChunkIds)
  /\ channel \subseteq 1..Len(log)
  /\ byHand \subseteq 1..Len(log)
  /\ conn \in {"CONNECTED", "ERROR"}
  /\ budget \in [FaultKinds -> Nat]

\* A file shown as READY, or as LOST (it was stored and then deleted in the
\* storage), has a message id for every one of its chunks, whatever the order
\* in which duplicate jobs, retries, downloads and crashes touch its rows:
\* the worker's count, the repair of download and retryFailed, and
\* markFileLost may each act on rows that have changed since they were read.
ReadyIsStored ==
  \A f \in Files : file[f] \in {"READY", "LOST"} => FullyStored(f)

DatabaseQuiet == budget["database"] = FaultBudget["database"]

\* Unless a database call of a job has failed, the application never deletes
\* the message a live row points at: it is in the channel, or the user has
\* deleted it there. Orphan removal, cleanup jobs built from old snapshots
\* and redelivered jobs only ever delete messages of files that are gone.
LiveMessagesKept ==
  DatabaseQuiet =>
    \A k \in ChunkIds :
      chunkMsg[k] # NoMsg => chunkMsg[k] \in channel \cup byHand

\* A file is marked LOST only after its user deleted one of its messages.
LostIsEarned ==
  DatabaseQuiet =>
    \A f \in Files :
      file[f] = "LOST" => \E m \in byHand : log[m][1] = f

DiskQuiet == budget["crash"] = FaultBudget["crash"]

\* The server has received the chunk, and its session goes on after it.
HandedOver(k) ==
  LET u == upload[k[1]] IN
  /\ Exists(k[1])
  /\ \/ u.pc = "receiving" /\ k[2] < u.next
     \/ u.pc \in {"staged", "enqueued"} /\ k[2] <= u.next
     \/ u.pc = "closed"

\* The bytes of a chunk the client no longer has to send are never dropped
\* while its file lives: they stay in the staging directory until they are in
\* the channel under the id the row has recorded, or the user has deleted them
\* there.  A job unlinks the staging file in three places, each long after it
\* read the row, and a duplicate of it may be sending from that file.  Excused:
\* a restart, whose disk may be a new one, and a failed database call of a job.
BytesSurvive ==
  DatabaseQuiet /\ DiskQuiet =>
    \A k \in ChunkIds :
      HandedOver(k) => k \in staged \/ chunkMsg[k] \in channel \cup byHand

(***************************************************************************)
(* Why they hold: what a suspended job or request may rely on.             *)
(***************************************************************************)

Gone(f) == file[f] = "GONE"
StoredOrGone(f) == FullyStored(f) \/ Gone(f)
Carries(m, k) == m \in 1..Len(log) /\ log[m] = k
CarriesFor(m, f) == m \in 1..Len(log) /\ log[m][1] = f
Kept(m) == m \in channel \cup byHand

\* The status of a chunk row is backed by its message id, the id is that of a
\* message with the chunk's caption, and only a file's row has one.
RowInv ==
  \A k \in ChunkIds :
    /\ chunkStatus[k] = "UPLOADED" => chunkMsg[k] # NoMsg
    /\ chunkMsg[k] # NoMsg => Carries(chunkMsg[k], k) /\ Exists(k[1])

\* Nothing is at work on a file that was never created.
WorkInv ==
  /\ \A f \in Files :
       /\ upload[f].pc # "none" => file[f] # "NEW"
       /\ del[f].pc = "rows" => Exists(f)
       /\ del[f].pc = "cleanup" => Gone(f)
  /\ \A j \in Jobs :
       job[j].pc # "free" =>
         job[j].key \in ChunkIds /\ file[job[j].key[1]] # "NEW"
  /\ \A r \in Retriers : \A k \in retry[r].pending : file[k[1]] # "NEW"

\* A job that is about to publish a file, and a request that verifies one,
\* saw all its chunks stored: they still are, or the file is gone.
PublishInv ==
  /\ \A j \in Jobs : job[j].pc = "publishing" => StoredOrGone(job[j].key[1])
  /\ \A q \in Checkers :
       check[q].pc # "idle" =>
         check[q].file \in Files /\ StoredOrGone(check[q].file)

\* A job holds the id of a message of its own chunk.
MessageInv ==
  \A j \in Jobs :
    job[j].pc \in {"posted", "writing", "verifying", "orphan"} =>
      Carries(job[j].msg, job[j].key)

\* The ids of a deletion are those of a file that is gone, and the ids of a
\* download are those of its file.
SnapshotInv ==
  /\ \A f \in Files : \A m \in del[f].ids : CarriesFor(m, f)
  /\ \A t \in trash : \A m \in t.ids : m \in 1..Len(log) /\ Gone(log[m][1])
  /\ \A q \in Checkers : \A m \in check[q].ids : CarriesFor(m, check[q].file)

\* Without a failing database call, a message is only given up for a file
\* that is gone, and a file only for messages its user deleted.
JobsQuietInv ==
  DatabaseQuiet =>
    \A j \in Jobs :
      /\ job[j].pc = "orphan" => Gone(job[j].key[1])
      /\ job[j].pc \in {"posted", "writing"} =>
           Kept(job[j].msg) \/ Gone(job[j].key[1])

\* A job unlinks a staging file only once the row has an id, or is gone.
UnstageInv ==
  DatabaseQuiet =>
    \A j \in Jobs :
      job[j].pc \in {"verifying", "unstaging", "cleaning"} =>
        chunkMsg[job[j].key] # NoMsg \/ Gone(job[j].key[1])

ChecksQuietInv ==
  DatabaseQuiet =>
    \A q \in Checkers :
      /\ \A m \in check[q].ids : Kept(m) \/ Gone(check[q].file)
      /\ check[q].pc = "lost" =>
           \/ Gone(check[q].file)
           \/ \E m \in byHand : CarriesFor(m, check[q].file)

BudgetInv == \A kind \in FaultKinds : budget[kind] <= FaultBudget[kind]

StoredInv ==
  /\ TypeOK
  /\ RowInv
  /\ WorkInv
  /\ PublishInv
  /\ MessageInv
  /\ ReadyIsStored

KeptInv ==
  /\ BudgetInv
  /\ SnapshotInv
  /\ JobsQuietInv
  /\ ChecksQuietInv
  /\ LiveMessagesKept
  /\ LostIsEarned

BytesInv == UnstageInv /\ BytesSurvive

\* The inductive invariant: what suspended jobs and requests rely on, together
\* with the properties that follow from it.
EngineInv == StoredInv /\ KeptInv /\ BytesInv

\* A file whose client has sent every part does not stay UPLOADING: it
\* becomes READY or ERROR, or is deleted.
UploadsSettle ==
  \A f \in Files :
    (file[f] = "UPLOADING" /\ upload[f].pc = "closed")
      ~> file[f] # "UPLOADING"

\* What a delete request has read and committed to delete goes from the
\* channel, unless Telegram keeps failing: a failed batch is tried again.
DeletionsComplete ==
  \A m \in 1..MaxMessages :
    (\E f \in Files : del[f].pc = "cleanup" /\ m \in del[f].ids)
      ~> m \notin channel \/ budget["telegram"] = 0

\* The engine implements the lifecycle a file is promised: read the rows as
\* the status shown and the chunks that have a message id.
Lifecycle == INSTANCE FileLifecycle WITH
  Chunks <- 1..NumChunks,
  status <- file,
  stored <- [f \in Files |-> {c \in 1..NumChunks : chunkMsg[<<f, c>>] # NoMsg}]

LifecycleSpec == Lifecycle!Spec

(***************************************************************************)
(* What the comments and documents say of the engine, and it does not do.  *)
(***************************************************************************)

\* storage.worker.ts, after its "final race window": no message is missed.
\* Every message of the channel is known to a row, to a deletion, or to the
\* job that has just posted it.
NoMissedMessage ==
  \A m \in channel :
    \/ \E k \in ChunkIds : chunkMsg[k] = m
    \/ \E t \in trash : m \in t.ids
    \/ \E f \in Files : m \in del[f].ids
    \/ \E j \in Jobs : job[j].msg = m

\* storage.worker.ts: removeOrphanedMessage runs because the rows vanished.
\* So what a READY file points at is there, unless the user deleted it.
ReadyIsDownloadable ==
  \A f \in Files :
    file[f] = "READY" => MessagesOf(f) \subseteq channel \cup byHand

\* storage.worker.ts: the bytes kept staged after a final failure are what
\* makes "retry failed syncs" possible.  So a failed file that nobody is at
\* work on, and all of which was received, is one that retryFailed takes up.
FailedIsRetryable ==
  DatabaseQuiet /\ DiskQuiet =>
    \A f \in Files :
      file[f] = "ERROR" /\ upload[f].pc = "closed"
        /\ (\A j \in Jobs : job[j].pc = "free")
        /\ (\A r \in Retriers : retry[r].pc = "idle")
      => FullyStored(f) \/ Unfinished(f) \subseteq staged

=============================================================================
