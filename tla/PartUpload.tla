----------------------------- MODULE PartUpload -----------------------------
(***************************************************************************)
(* How the bytes of one file reach the staging directory: the part loop of *)
(* the web client (stores/uploads.ts), the PUT requests the server handles *)
(* for it (files.service.ts uploadPart), and the chunk jobs that read what *)
(* was staged.  StorageEngine has all this as StageChunk and RestartChunk. *)
(*                                                                         *)
(* A byte is known by its offset in the file, so the content of a staging  *)
(* file is a sequence of offsets.  A PUT opens the file for appending and  *)
(* keeps it open: when another request removes the file, what the PUT      *)
(* still writes is lost with the file it had opened.                       *)
(*                                                                         *)
(* The jobs are here for what they do to the staging directory and to the  *)
(* status of the file: a job that is not stored reads and stores in one    *)
(* step, and jobs of one chunk that wait together count as one.  Retry of  *)
(* a failed file, deletion and expiry of the session are left out.         *)
(***************************************************************************)
EXTENDS Integers, Sequences, SequencesExt

CONSTANTS
  FileUnits,         \* size of the file
  PartUnits,         \* UPLOAD_PART_SIZE_BYTES
  ConfigChunkUnits,  \* CHUNK_SIZE_BYTES
  Requests,          \* slots for PUT requests
  Faults,            \* the kinds of fault that may happen
  MaxFaults          \* bound: how many may happen in all

FaultKinds == {"cut", "answer", "abandon", "crash", "server"}

ASSUME PartAssumption ==
  /\ FileUnits \in Nat \ {0}
  /\ PartUnits \in Nat \ {0}
  /\ ConfigChunkUnits \in Nat \ {0}
  /\ Faults \subseteq FaultKinds
  /\ MaxFaults \in Nat

(***************************************************************************)
(* The arithmetic of parts and chunks.                                     *)
(***************************************************************************)

CeilDiv(a, b) == (a + b - 1) \div b
Least(a, b) == IF a < b THEN a ELSE b
Greatest(a, b) == IF a < b THEN b ELSE a

\* A chunk is a whole number of parts.
ChunkUnits == Greatest(PartUnits, (ConfigChunkUnits \div PartUnits) * PartUnits)
PartsPerChunk == ChunkUnits \div PartUnits
TotalChunks == CeilDiv(FileUnits, ChunkUnits)
TotalParts == CeilDiv(FileUnits, PartUnits)
Parts == 0..(TotalParts - 1)
Chunks == 0..(TotalChunks - 1)

ChunkOf(p) == p \div PartsPerChunk
FirstPart(c) == c * PartsPerChunk
LastPart(c) == Least(FirstPart(c + 1), TotalParts) - 1
OffsetInChunk(p) == (p % PartsPerChunk) * PartUnits

\* The bytes the server demands of a part.
ExpectedUnits(p) ==
  IF p < TotalParts - 1 THEN PartUnits
  ELSE FileUnits - PartUnits * (TotalParts - 1)

IsLastOfFile(p) == p = TotalParts - 1

\* Mutation: the short last chunk of a file is never complete.
FullChunksOnly(p) == (p + 1) % PartsPerChunk = 0

\* Mutation: parts counted from one.
FirstOfChunk(p) == IsLastOfFile(p) \/ p % PartsPerChunk = 0

IsLastOfChunk(p) == IsLastOfFile(p) \/ (p + 1) % PartsPerChunk = 0

\* What the client slices for a part: the file ends where it ends.
BodyUnits(p) == Least(PartUnits, FileUnits - p * PartUnits)
PartByte(p, i) == p * PartUnits + i

\* The bytes a chunk row stands for.
ChunkBytes(c) ==
  [i \in 1..Least(ChunkUnits, FileUnits - c * ChunkUnits) |->
     c * ChunkUnits + i - 1]

\* What truncate fills a file with that is shorter than the new length.
Hole == FileUnits

VARIABLES
  cursor,   \* nextPart of the upload session, Closed when it is deleted
  status,   \* of the file: UPLOADING, READY, or ERROR once a sync has failed
  present,  \* chunks that have a staging file
  disk,     \* what the staging file of a chunk holds
  put,      \* the PUT requests the server is handling
  queued,   \* chunks whose job is waiting to run
  unstage,  \* chunks whose job is about to remove the staging file
  stored,   \* chunks whose job has read the staging file and stored it
  sent,     \* what the job of a chunk read
  client,   \* the part loop, and the request it waits for
  happened, \* the kinds of fault that have happened
  left      \* how many may still happen

staging == <<present, disk>>
faults == <<happened, left>>
vars == <<cursor, status, staging, put, queued, unstage, stored, sent, client, faults>>

Closed == -1
NoPut == "none"

PutAt(pc, part, linked, received) ==
  [pc |-> pc, part |-> part, linked |-> linked, received |-> received]
IdlePut == PutAt("idle", 0, FALSE, 0)

ClientAt(pc, next, on) == [pc |-> pc, next |-> next, on |-> on]

Fault(kind) ==
  /\ kind \in Faults
  /\ left > 0
  /\ left' = left - 1
  /\ happened' = happened \cup {kind}

Init ==
  /\ cursor = 0
  /\ status = "UPLOADING"
  /\ present = {}
  /\ disk = [c \in Chunks |-> << >>]
  /\ put = [r \in Requests |-> IdlePut]
  /\ queued = {}
  /\ unstage = {}
  /\ stored = {}
  /\ sent = [c \in Chunks |-> << >>]
  /\ client = ClientAt("ready", 0, NoPut)
  /\ happened = {}
  /\ left = MaxFaults

(***************************************************************************)
(* The client: one loop, one request at a time.                            *)
(***************************************************************************)

ClientSend(r) ==
  /\ client.pc = "ready"
  /\ client.next < TotalParts
  /\ put[r].pc = "idle"
  /\ put' = [put EXCEPT ![r] = PutAt("check", client.next, FALSE, 0)]
  /\ client' = ClientAt("waiting", client.next, r)
  /\ UNCHANGED <<cursor, status, staging, queued, unstage, stored, sent, faults>>

ClientDone ==
  /\ client.pc = "ready"
  /\ client.next = TotalParts
  /\ client' = ClientAt("done", TotalParts, NoPut)
  /\ UNCHANGED <<cursor, status, staging, put, queued, unstage, stored, sent, faults>>

\* fetch fails while the server is still at work on the request.
ClientAbandons ==
  /\ client.pc = "waiting"
  /\ Fault("abandon")
  /\ client' = ClientAt("stopped", client.next, NoPut)
  /\ UNCHANGED <<cursor, status, staging, put, queued, unstage, stored, sent>>

\* The user resumes an upload that stopped: the loop goes on where it was.
ClientResumes ==
  /\ client.pc = "stopped"
  /\ client' = ClientAt("ready", client.next, NoPut)
  /\ UNCHANGED <<cursor, status, staging, put, queued, unstage, stored, sent, faults>>

\* The request r ends, and the client goes on as the answer says, unless the
\* answer is lost or nobody waits for it any more.
Answer(r, pc, next) ==
  IF client.on = r
    THEN \/ client' = ClientAt(pc, next, NoPut) /\ UNCHANGED faults
         \/ client' = ClientAt("stopped", client.next, NoPut) /\ Fault("answer")
    ELSE UNCHANGED <<client, faults>>

AnswerOk(r) == Answer(r, "ready", client.next + 1)
AnswerResume(r, next) == Answer(r, "ready", next)
AnswerError(r) == Answer(r, "stopped", client.next)

(***************************************************************************)
(* uploadPart, from await to await.                                        *)
(***************************************************************************)

Goto(r, pc) ==
  put' = [put EXCEPT ![r] =
            PutAt(pc, put[r].part, put[r].linked, put[r].received)]
Leave(r) == put' = [put EXCEPT ![r] = IdlePut]

\* The session is read: no session, file not UPLOADING, part out of order.
PutCheck(r) ==
  /\ put[r].pc = "check"
  /\ \/ /\ cursor = Closed \/ status # "UPLOADING"
        /\ Leave(r) /\ AnswerError(r)
     \/ /\ cursor # Closed /\ status = "UPLOADING" /\ put[r].part # cursor
        /\ Leave(r) /\ AnswerResume(r, cursor)
     \/ /\ cursor # Closed /\ status = "UPLOADING" /\ put[r].part = cursor
        /\ Goto(r, "stat") /\ UNCHANGED <<client, faults>>
  /\ UNCHANGED <<cursor, status, staging, queued, unstage, stored, sent>>

Unlinked(c) ==
  [r \in Requests |->
     IF ChunkOf(put[r].part) = c THEN [put[r] EXCEPT !.linked = FALSE]
                                 ELSE put[r]]

RemoveStaging(c) ==
  /\ present' = present \ {c}
  /\ disk' = [disk EXCEPT ![c] = << >>]

\* Mutation: only a file that has vanished counts as lost.
PutStatSeesWipesOnly(r) ==
  /\ put[r].pc = "stat"
  /\ LET c == ChunkOf(put[r].part) IN
     IF disk[c] # << >> \/ OffsetInChunk(put[r].part) = 0
       THEN Goto(r, "open") /\ UNCHANGED staging
       ELSE /\ RemoveStaging(c)
            /\ put' = [Unlinked(c) EXCEPT ![r].pc = "reset"]
  /\ UNCHANGED <<cursor, status, queued, unstage, stored, sent, client, faults>>

\* The staged bytes must end where the part begins; if not, the staging file
\* is removed and the chunk starts again.
PutStat(r) ==
  /\ put[r].pc = "stat"
  /\ LET c == ChunkOf(put[r].part) IN
     IF Len(disk[c]) = OffsetInChunk(put[r].part)
       THEN Goto(r, "open") /\ UNCHANGED staging
       ELSE /\ RemoveStaging(c)
            /\ put' = [Unlinked(c) EXCEPT ![r].pc = "reset"]
  /\ UNCHANGED <<cursor, status, queued, unstage, stored, sent, client, faults>>

\* Mutation: the client is told to send the same part again.
PutResetNowhere(r) ==
  /\ put[r].pc = "reset"
  /\ Leave(r)
  /\ IF cursor = Closed THEN AnswerError(r) ELSE AnswerResume(r, cursor)
  /\ UNCHANGED <<cursor, status, staging, queued, unstage, stored, sent>>

\* STAGING_LOST; the update of a deleted session throws.
PutReset(r) ==
  /\ put[r].pc = "reset"
  /\ Leave(r)
  /\ LET first == FirstPart(ChunkOf(put[r].part)) IN
     IF cursor = Closed
       THEN AnswerError(r) /\ UNCHANGED cursor
       ELSE AnswerResume(r, first) /\ cursor' = first
  /\ UNCHANGED <<status, staging, queued, unstage, stored, sent>>

PutOpen(r) ==
  /\ put[r].pc = "open"
  /\ present' = present \cup {ChunkOf(put[r].part)}
  /\ put' = [put EXCEPT ![r] = PutAt("write", put[r].part, TRUE, 0)]
  /\ UNCHANGED <<cursor, status, disk, queued, unstage, stored, sent, client, faults>>

\* A body of another size than expected is rolled back.
AfterBody(p) ==
  IF BodyUnits(p) # ExpectedUnits(p) THEN "rollback"
  ELSE IF IsLastOfChunk(p) THEN "hash" ELSE "advance"

\* One more unit of the body is appended to the file the request has open.
PutWrite(r) ==
  /\ put[r].pc = "write"
  /\ LET p == put[r].part
         n == put[r].received + 1
     IN
     /\ disk' = IF put[r].linked
                  THEN [disk EXCEPT ![ChunkOf(p)] =
                          Append(@, PartByte(p, put[r].received))]
                  ELSE disk
     /\ put' = [put EXCEPT ![r] =
          PutAt(IF n < BodyUnits(p) THEN "write" ELSE AfterBody(p),
                p, put[r].linked, n)]
  /\ UNCHANGED <<cursor, status, present, queued, unstage, stored, sent, client, faults>>

\* The body ends early.
PutCut(r) ==
  /\ put[r].pc = "write"
  /\ Fault("cut")
  /\ Goto(r, "rollback")
  /\ UNCHANGED <<cursor, status, staging, queued, unstage, stored, sent, client>>

Resized(content, length) ==
  [i \in 1..length |-> IF i <= Len(content) THEN content[i] ELSE Hole]

\* truncate(path, offset), whatever file the path now names.
PutRollback(r) ==
  /\ put[r].pc = "rollback"
  /\ LET c == ChunkOf(put[r].part) IN
     disk' = IF c \in present
               THEN [disk EXCEPT ![c] = Resized(@, OffsetInChunk(put[r].part))]
               ELSE disk
  /\ Leave(r) /\ AnswerError(r)
  /\ UNCHANGED <<cursor, status, present, queued, unstage, stored, sent>>

\* sha256OfFile: a staging file that has gone is an error.
PutHash(r) ==
  /\ put[r].pc = "hash"
  /\ IF ChunkOf(put[r].part) \in present
       THEN Goto(r, "enqueue") /\ UNCHANGED <<client, faults>>
       ELSE Leave(r) /\ AnswerError(r)
  /\ UNCHANGED <<cursor, status, staging, queued, unstage, stored, sent>>

PutEnqueue(r) ==
  /\ put[r].pc = "enqueue"
  /\ queued' = queued \cup {ChunkOf(put[r].part)}
  /\ Goto(r, "advance")
  /\ UNCHANGED <<cursor, status, staging, unstage, stored, sent, client, faults>>

\* The session is deleted with the last part, and moved on before; either
\* throws when the session is gone.
PutAdvance(r) ==
  /\ put[r].pc = "advance"
  /\ Leave(r)
  /\ IF cursor = Closed
       THEN AnswerError(r) /\ UNCHANGED cursor
       ELSE /\ AnswerOk(r)
            /\ cursor' = IF IsLastOfFile(put[r].part) THEN Closed
                         ELSE put[r].part + 1
  /\ UNCHANGED <<status, staging, queued, unstage, stored, sent>>

\* The database or the queue fails the request at one of its writes.
PutFails(r) ==
  /\ put[r].pc \in {"reset", "enqueue", "advance"}
  /\ Fault("server")
  /\ Leave(r)
  /\ client' = IF client.on = r THEN ClientAt("stopped", client.next, NoPut)
                                ELSE client
  /\ UNCHANGED <<cursor, status, staging, queued, unstage, stored, sent>>

(***************************************************************************)
(* The chunk's job, and the process.                                       *)
(***************************************************************************)

\* The job transfers as many bytes of the staging file as the chunk has.
JobReads(c) ==
  /\ c \in queued
  /\ c \notin stored
  /\ c \in present
  /\ sent' = [sent EXCEPT ![c] =
               SubSeq(disk[c], 1, Least(Len(disk[c]), Len(ChunkBytes(c))))]
  /\ stored' = stored \cup {c}
  /\ queued' = queued \ {c}
  /\ unstage' = unstage \cup {c}
  /\ UNCHANGED <<cursor, status, staging, put, client, faults>>

\* Then it removes the staging file, whoever has written it since, and the job
\* that finds all chunks stored publishes the file.
JobUnstages(c) ==
  /\ c \in unstage
  /\ unstage' = unstage \ {c}
  /\ RemoveStaging(c)
  /\ put' = Unlinked(c)
  /\ status' = IF stored = Chunks THEN "READY" ELSE status
  /\ UNCHANGED <<cursor, queued, stored, sent, client, faults>>

\* The job of a chunk that is stored already only removes the staging file.
JobSkips(c) ==
  /\ c \in queued
  /\ c \in stored
  /\ queued' = queued \ {c}
  /\ RemoveStaging(c)
  /\ put' = Unlinked(c)
  /\ UNCHANGED <<cursor, status, unstage, stored, sent, client, faults>>

\* Without a staging file every attempt fails, and with one that is shorter
\* than the chunk they may; then the file becomes ERROR.
JobGivesUp(c) ==
  /\ c \in queued
  /\ c \notin stored
  /\ c \notin present \/ Len(disk[c]) < Len(ChunkBytes(c))
  /\ status' = "ERROR"
  /\ queued' = queued \ {c}
  /\ UNCHANGED <<cursor, staging, put, unstage, stored, sent, client, faults>>

\* The process dies: requests end where they are, with no rollback, and the
\* disk may not survive. BullMQ delivers its jobs again, the in-process queue
\* loses them.
Crash ==
  /\ Fault("crash")
  /\ put' = [r \in Requests |-> IdlePut]
  /\ client' = IF client.pc = "waiting"
                 THEN ClientAt("stopped", client.next, NoPut) ELSE client
  /\ \/ UNCHANGED staging
     \/ present' = {} /\ disk' = [c \in Chunks |-> << >>]
  /\ queued' \in {queued \cup unstage, {}}
  /\ unstage' = {}
  /\ UNCHANGED <<cursor, status, stored, sent>>

-----------------------------------------------------------------------------

PutStep(r) ==
  \/ PutCheck(r) \/ PutStat(r) \/ PutReset(r) \/ PutOpen(r) \/ PutWrite(r)
  \/ PutRollback(r) \/ PutHash(r) \/ PutEnqueue(r) \/ PutAdvance(r)

ClientStep == ClientDone \/ \E r \in Requests : ClientSend(r)

JobStep(c) == JobReads(c) \/ JobUnstages(c) \/ JobSkips(c) \/ JobGivesUp(c)

Next ==
  \/ ClientStep \/ ClientAbandons \/ ClientResumes
  \/ \E r \in Requests : PutStep(r) \/ PutCut(r) \/ PutFails(r)
  \/ \E c \in Chunks : JobStep(c)
  \/ Crash

Spec == Init /\ [][Next]_vars

\* The event loop carries requests and jobs to their end and runs the client's
\* loop; and, for UploadCompletes, the user resumes an upload that stopped.
Fairness ==
  /\ \A r \in Requests : WF_vars(PutStep(r))
  /\ \A c \in Chunks : WF_vars(JobStep(c))
  /\ WF_vars(ClientStep)
  /\ WF_vars(ClientResumes)

FairSpec == Spec /\ Fairness

-----------------------------------------------------------------------------
(***************************************************************************)
(* Properties.                                                             *)
(***************************************************************************)

PutType ==
  [pc : {"idle", "check", "stat", "reset", "open", "write", "rollback",
         "hash", "enqueue", "advance"},
   part : Parts, linked : BOOLEAN, received : 0..PartUnits]

ClientType ==
  [pc : {"ready", "waiting", "stopped", "done"}, next : 0..TotalParts,
   on : Requests \cup {NoPut}]

Content == Seq(0..Hole)

\* The types of the session, the staging area, the requests and the client:
\* the resume cursor is a part of the file until the session is deleted.
TypeOK ==
  /\ cursor \in Parts \cup {Closed}
  /\ status \in {"UPLOADING", "READY", "ERROR"}
  /\ present \subseteq Chunks
  /\ DOMAIN disk = Chunks /\ \A c \in Chunks : disk[c] \in Content
  /\ put \in [Requests -> PutType]
  /\ queued \subseteq Chunks
  /\ unstage \subseteq Chunks
  /\ stored \subseteq Chunks
  /\ DOMAIN sent = Chunks /\ \A c \in Chunks : sent[c] \in Content
  /\ client \in ClientType
  /\ happened \subseteq Faults
  /\ left \in 0..MaxFaults

\* The session never moves past a chunk whose job was not enqueued, whatever
\* requests are cut, repeated, left behind or fail: if the process has not
\* died, a chunk the cursor has passed has its job queued, is stored, or has
\* failed.
NothingSkipped ==
  "crash" \notin happened =>
    \A c \in Chunks :
      (cursor = Closed \/ cursor > LastPart(c)) =>
        c \in queued \cup stored \/ status = "ERROR"

\* As long as no request is sent before its predecessor has ended on the
\* server, what a request hands to the queue is the bytes of the chunk, in
\* order and complete, although bodies were cut, chunks were sent again and
\* the process died between any two steps; unless an earlier job has taken
\* the chunk already, which then removes the file under the request.
EnqueuedIntact ==
  "abandon" \notin happened =>
    \A r \in Requests :
      put[r].pc = "enqueue" =>
        LET c == ChunkOf(put[r].part) IN
        disk[c] = ChunkBytes(c) \/ c \in stored

\* If, moreover, neither the process nor a write to the database fails, what
\* a job reads is the bytes of the chunk: no chunk is sent again while its
\* job is waiting.
SentIntact ==
  happened \subseteq {"cut", "answer"} =>
    \A c \in stored : sent[c] = ChunkBytes(c)

\* A user who resumes an upload whenever it stops gets all of it received, or
\* the file is READY or ERROR before: STAGING_LOST never sends the client in
\* circles.
UploadCompletes == <>(cursor = Closed \/ status # "UPLOADING")

(***************************************************************************)
(* What the comments say of the protocol, and it does not do.              *)
(***************************************************************************)

\* files.service.ts: a failed part is rolled back "so a retry is clean", and
\* schema.prisma: "Parts arrive strictly in order".  So what a job reads from
\* the staging directory is the bytes of its chunk.
RetryIsClean == \A c \in stored : sent[c] = ChunkBytes(c)

=============================================================================
