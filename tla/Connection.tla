----------------------------- MODULE Connection -----------------------------
(***************************************************************************)
(* The storage connection of one account (modules/connection), and what    *)
(* hangs on it: the requests and jobs that read the row, use its session   *)
(* and channel some awaits later, and write rows that only make sense with *)
(* that channel.                                                           *)
(*                                                                         *)
(* start, verifyCode, verifyPassword, check and disconnect hold the        *)
(* account's mutex from their first read to their last write; uploads and  *)
(* deletions hold it around the call to Telegram only; createUpload,       *)
(* download and the keep-alive never do.                                   *)
(*                                                                         *)
(* Every sign-in makes a new session, and the channel provisioned with it  *)
(* has the session's number.  Telegram numbers the messages of each        *)
(* channel from one.  A file is one chunk here; StorageEngine has chunks,  *)
(* attempts and retries.                                                   *)
(***************************************************************************)
EXTENDS Integers, Sequences, FiniteSets

CONSTANTS
  Files,
  MaxStarts,    \* bound: calls of start that send a code
  MaxSessions,  \* bound: sign-ins
  Faults,       \* the kinds of fault that may happen
  MaxFaults     \* bound: how many may happen in all

\* revoke: the user ends the session from inside Telegram; health: a health
\* check fails although the session lives; interrupt: the process dies or the
\* database fails in the middle of a request.
FaultKinds == {"revoke", "health", "interrupt"}

ASSUME ConnectionAssumption ==
  /\ MaxStarts \in Nat
  /\ MaxSessions \in Nat
  /\ Faults \subseteq FaultKinds
  /\ MaxFaults \in Nat

VARIABLES
  row,        \* the StorageConnection row
  starts,     \* data keys made so far; rows made so far
  sessions,   \* sessions made so far
  alive,      \* the sessions Telegram accepts
  op,         \* the request that holds the mutex across an await
  file,       \* status of each file
  stored,     \* the message a file's chunk row points at
  work,       \* the upload request and the job of each file
  download,   \* a download
  trash,      \* messages-delete jobs
  sweep,      \* the keep-alive, looking at this account
  log,        \* the messages ever posted to each channel
  present,    \* the messages that are there, as <<channel, id>>
  abandoned,  \* channels the row pointed at when start replaced it
  late,       \* files created after the purge of a disconnect, before its end
  happened,   \* the kinds of fault that have happened
  left        \* how many may still happen

account  == <<row, starts, abandoned, op, sweep>>
telegram == <<sessions, alive, log, present>>
files    == <<file, late, stored>>
drive    == <<files, work, download, trash>>
faults   == <<happened, left>>
vars == <<account, telegram, drive, faults>>

Ids == 1..MaxSessions
Secrets == {"session", "pending", "phone"}

\* A secret is sealed under the data key of the row, or absent (0).
Unsealed == [s \in Secrets |-> 0]
NoRow == [status |-> "NONE", id |-> 0, key |-> 0, sealed |-> Unsealed,
          session |-> 0, channel |-> 0]

\* What a request or job keeps of the row it has read.
Snap == [id |-> row.id, session |-> row.session, channel |-> row.channel]
NoSnap == [id |-> 0, session |-> 0, channel |-> 0]

Connected == row.status = "CONNECTED"
Exists(f) == file[f] \notin {"NEW", "GONE"}
Free == op.kind = "idle"

OpAt(kind, pc, session) == [kind |-> kind, pc |-> pc, session |-> session]
NoOp == OpAt("idle", "idle", 0)
At(kind, pc) == op.kind = kind /\ op.pc = pc

NoMsg == <<0, 0>>
WorkAt(pc, snap, msg) == [pc |-> pc, snap |-> snap, msg |-> msg]
NoWork == WorkAt("idle", NoSnap, NoMsg)
NoDownload == [pc |-> "idle", snap |-> NoSnap, of |-> {}, id |-> 0]
NoSweep == [pc |-> "idle", snap |-> NoSnap]

Fault(kind) ==
  /\ kind \in Faults
  /\ left > 0
  /\ left' = left - 1
  /\ happened' = happened \cup {kind}

Init ==
  /\ row = NoRow
  /\ starts = 0
  /\ sessions = 0
  /\ alive = {}
  /\ op = NoOp
  /\ file = [f \in Files |-> "NEW"]
  /\ stored = [f \in Files |-> NoMsg]
  /\ work = [f \in Files |-> NoWork]
  /\ download = NoDownload
  /\ trash = {}
  /\ sweep = NoSweep
  /\ log = [c \in Ids |-> << >>]
  /\ present = {}
  /\ abandoned = {}
  /\ late = {}
  /\ happened = {}
  /\ left = MaxFaults

(***************************************************************************)
(* start.                                                                  *)
(***************************************************************************)

StartRead ==
  /\ Free
  /\ ~Connected
  /\ starts < MaxStarts
  /\ op' = OpAt("start", "upsert", 0)
  /\ UNCHANGED <<row, starts, abandoned, sweep, telegram, drive, faults>>

\* The code is sent; a fresh data key, no session, no channel. A row that
\* exists keeps its id, and what was sealed as pending and phone.
StartUpsert ==
  /\ At("start", "upsert")
  /\ starts' = starts + 1
  /\ row' = [status |-> "PENDING_CODE",
             id |-> IF row.id = 0 THEN starts + 1 ELSE row.id,
             key |-> starts + 1,
             sealed |-> [row.sealed EXCEPT !["session"] = 0],
             session |-> 0, channel |-> 0]
  /\ abandoned' = abandoned \cup ({row.channel} \ {0})
  /\ op' = OpAt("start", "seal", 0)
  /\ UNCHANGED <<sweep, telegram, drive, faults>>

\* Mutation: a phone number that is sealed already stays as it is.
StartSealOnce ==
  /\ At("start", "seal")
  /\ row' = [row EXCEPT !.sealed["pending"] = row.key,
                        !.sealed["phone"] = IF @ = 0 THEN row.key ELSE @]
  /\ op' = NoOp
  /\ UNCHANGED <<starts, abandoned, sweep, telegram, drive, faults>>

StartSeal ==
  /\ At("start", "seal")
  /\ row' = [row EXCEPT !.sealed["pending"] = row.key,
                        !.sealed["phone"] = row.key]
  /\ op' = NoOp
  /\ UNCHANGED <<starts, abandoned, sweep, telegram, drive, faults>>

(***************************************************************************)
(* verifyCode and verifyPassword.                                          *)
(***************************************************************************)

\* The pending login must be there and readable.
VerifyRead(status) ==
  /\ Free
  /\ row.status = status
  /\ row.sealed["pending"] = row.key
  /\ op' = OpAt("verify", status, 0)
  /\ UNCHANGED <<row, starts, abandoned, sweep, telegram, drive, faults>>

\* The code is right, and the account has a second factor.
VerifyNeedsPassword ==
  /\ At("verify", "PENDING_CODE")
  /\ row' = [row EXCEPT !.status = "PENDING_PASSWORD"]
  /\ op' = NoOp
  /\ UNCHANGED <<starts, abandoned, sweep, telegram, drive, faults>>

\* The code or the password signs in.
VerifySignIn ==
  /\ op.kind = "verify" /\ op.pc \in {"PENDING_CODE", "PENDING_PASSWORD"}
  /\ sessions < MaxSessions
  /\ sessions' = sessions + 1
  /\ alive' = alive \cup {sessions + 1}
  /\ op' = OpAt("verify", "finalize", sessions + 1)
  /\ UNCHANGED <<row, starts, abandoned, sweep, log, present, drive, faults>>

\* The channel has been provisioned: the row is connected.
Finalize ==
  /\ At("verify", "finalize")
  /\ row' = [row EXCEPT !.status = "CONNECTED",
                        !.sealed["session"] = row.key,
                        !.sealed["pending"] = 0,
                        !.session = op.session,
                        !.channel = op.session]
  /\ op' = NoOp
  /\ UNCHANGED <<starts, abandoned, sweep, telegram, drive, faults>>

(***************************************************************************)
(* check and disconnect.                                                   *)
(***************************************************************************)

CheckRead ==
  /\ Free
  /\ row.status \in {"CONNECTED", "ERROR"}
  /\ row.session # 0
  /\ op' = OpAt("check", "health", row.session)
  /\ UNCHANGED <<row, starts, abandoned, sweep, telegram, drive, faults>>

CheckHealthy ==
  /\ At("check", "health")
  /\ op.session \in alive
  /\ row' = [row EXCEPT !.status = "CONNECTED"]
  /\ op' = NoOp
  /\ UNCHANGED <<starts, abandoned, sweep, telegram, drive, faults>>

CheckFailed ==
  /\ At("check", "health")
  /\ \/ op.session \notin alive /\ UNCHANGED faults
     \/ op.session \in alive /\ Fault("health")
  /\ row' = [row EXCEPT !.status = "ERROR"]
  /\ op' = NoOp
  /\ UNCHANGED <<starts, abandoned, sweep, telegram, drive>>

DisconnectRead ==
  /\ Free
  /\ row.id # 0
  /\ op' = OpAt("disconnect", IF row.session # 0 THEN "logout" ELSE "purge",
                row.session)
  /\ UNCHANGED <<row, starts, abandoned, sweep, telegram, drive, faults>>

\* A logout that fails is ignored.
DisconnectLogOut ==
  /\ At("disconnect", "logout")
  /\ alive' \in {alive, alive \ {op.session}}
  /\ op' = OpAt("disconnect", "purge", op.session)
  /\ UNCHANGED <<row, starts, abandoned, sweep, sessions, log, present, drive, faults>>

Purged(gone) ==
  /\ file' = [f \in Files |-> IF f \in gone THEN "GONE" ELSE file[f]]
  /\ stored' = [f \in Files |-> IF f \in gone THEN NoMsg ELSE stored[f]]

\* Mutation: uploads that have not finished are left to finish.
DisconnectPurgeReady ==
  /\ At("disconnect", "purge")
  /\ Purged({f \in Files : file[f] \in {"READY", "LOST"}})
  /\ op' = OpAt("disconnect", "row", op.session)
  /\ UNCHANGED <<row, starts, abandoned, sweep, telegram, late, work, download, trash, faults>>

DisconnectPurge ==
  /\ At("disconnect", "purge")
  /\ Purged({f \in Files : Exists(f)})
  /\ op' = OpAt("disconnect", "row", op.session)
  /\ UNCHANGED <<row, starts, abandoned, sweep, telegram, late, work, download, trash, faults>>

DisconnectRow ==
  /\ At("disconnect", "row")
  /\ row' = NoRow
  /\ op' = NoOp
  /\ UNCHANGED <<starts, abandoned, sweep, telegram, drive, faults>>

\* A call to Telegram that fails ends the request with nothing written; an
\* interruption ends it wherever it is.
OpFails ==
  /\ \/ /\ op.kind \in {"start", "verify"} /\ op.pc # "seal"
        /\ UNCHANGED faults
     \/ /\ ~Free
        /\ Fault("interrupt")
  /\ op' = NoOp
  /\ UNCHANGED <<row, starts, abandoned, sweep, telegram, drive>>

(***************************************************************************)
(* Uploads: createUpload and the chunk's job.                              *)
(***************************************************************************)

Working(f, pc, snap, msg) == work' = [work EXCEPT ![f] = WorkAt(pc, snap, msg)]

\* A session Telegram no longer accepts: the row is marked by whoever holds
\* it, whichever session the row has by now.
FlagRevoked(applies) ==
  row' = IF applies THEN [row EXCEPT !.status = "ERROR"] ELSE row

UploadRead(f) ==
  /\ work[f].pc = "idle"
  /\ file[f] = "NEW"
  /\ Connected
  /\ Working(f, "create", NoSnap, NoMsg)
  /\ UNCHANGED <<account, telegram, files, download, trash, faults>>

\* The rows; the parts arrive, and the job is enqueued.
UploadCreate(f) ==
  /\ work[f].pc = "create"
  /\ file' = [file EXCEPT ![f] = "UPLOADING"]
  /\ late' = IF At("disconnect", "row") THEN late \cup {f} ELSE late
  /\ Working(f, "queued", NoSnap, NoMsg)
  /\ UNCHANGED <<account, telegram, stored, download, trash, faults>>

JobRead(f) ==
  /\ work[f].pc = "queued"
  /\ IF Exists(f)
       THEN Connected /\ Working(f, "send", Snap, NoMsg)
       ELSE Working(f, "done", NoSnap, NoMsg)
  /\ UNCHANGED <<account, telegram, files, download, trash, faults>>

JobSend(f) ==
  /\ work[f].pc = "send"
  /\ Free
  /\ work[f].snap.session \in alive
  /\ LET c == work[f].snap.channel
         id == Len(log[c]) + 1
     IN
     /\ log' = [log EXCEPT ![c] = Append(@, f)]
     /\ present' = present \cup {<<c, id>>}
     /\ Working(f, "write", work[f].snap, <<c, id>>)
  /\ UNCHANGED <<account, sessions, alive, files, download, trash, faults>>

\* The session is dead: this attempt fails, and the next one reads the row.
JobSendFails(f) ==
  /\ work[f].pc = "send"
  /\ Free
  /\ work[f].snap.session \notin alive
  /\ Working(f, "queued", NoSnap, NoMsg)
  /\ UNCHANGED <<account, telegram, files, download, trash, faults>>

\* The row of the chunk still there, it gets the id and the file is READY;
\* gone, the message is an orphan and goes too, if the session lives.
JobWrite(f) ==
  /\ work[f].pc = "write"
  /\ IF Exists(f)
       THEN /\ file' = [file EXCEPT ![f] = "READY"]
            /\ stored' = [stored EXCEPT ![f] = work[f].msg]
            /\ UNCHANGED present
       ELSE /\ Free
            /\ present' = IF work[f].snap.session \in alive
                            THEN present \ {work[f].msg} ELSE present
            /\ UNCHANGED <<file, stored>>
  /\ Working(f, "done", NoSnap, NoMsg)
  /\ UNCHANGED <<account, sessions, alive, log, late, download, trash, faults>>

\* The last attempt has failed, for want of a connection or with a dead
\* session; in the latter case the row is marked.
JobGivesUp(f) ==
  /\ work[f].pc \in {"queued", "send"}
  /\ \/ /\ work[f].pc = "queued" /\ Exists(f) /\ ~Connected
        /\ UNCHANGED row
     \/ /\ work[f].pc = "send" /\ Free /\ work[f].snap.session \notin alive
        /\ FlagRevoked(Exists(f) /\ row.id # 0)
  /\ file' = IF Exists(f) THEN [file EXCEPT ![f] = "ERROR"] ELSE file
  /\ Working(f, "done", NoSnap, NoMsg)
  /\ UNCHANGED <<starts, abandoned, op, sweep, telegram, late, stored, download, trash, faults>>

(***************************************************************************)
(* Downloads and deletions.                                                *)
(***************************************************************************)

DownloadRead(f) ==
  /\ download.pc = "idle"
  /\ file[f] = "READY"
  /\ Connected
  /\ download' = [pc |-> "verify", snap |-> Snap, of |-> {f}, id |-> stored[f][2]]
  /\ UNCHANGED <<account, telegram, files, work, trash, faults>>

\* verifyPresent: a message that is missing makes the file LOST.
DownloadVerify ==
  /\ download.pc = "verify"
  /\ download.snap.session \in alive
  /\ file' = [f \in Files |->
       IF f \in download.of /\ Exists(f)
          /\ <<download.snap.channel, download.id>> \notin present
         THEN "LOST" ELSE file[f]]
  /\ download' = NoDownload
  /\ UNCHANGED <<account, telegram, late, stored, work, trash, faults>>

DownloadFails ==
  /\ download.pc = "verify"
  /\ download.snap.session \notin alive
  /\ FlagRevoked(Connected)
  /\ download' = NoDownload
  /\ UNCHANGED <<starts, abandoned, op, sweep, telegram, files, work, trash, faults>>

\* deleteFile, with its rows and its messages-delete job.
Delete(f) ==
  /\ Exists(f)
  /\ file' = [file EXCEPT ![f] = "GONE"]
  /\ stored' = [stored EXCEPT ![f] = NoMsg]
  /\ trash' = IF stored[f] = NoMsg THEN trash
              ELSE trash \cup {[id |-> stored[f][2], pc |-> "queued", snap |-> NoSnap]}
  /\ UNCHANGED <<account, telegram, late, work, download, faults>>

\* The job reads the connection; without one there is nothing to do.
TrashRead(t) ==
  /\ t.pc = "queued"
  /\ trash' = (trash \ {t}) \cup
       (IF Connected THEN {[t EXCEPT !.pc = "run", !.snap = Snap]} ELSE {})
  /\ UNCHANGED <<account, telegram, files, work, download, faults>>

TrashRun(t) ==
  /\ t.pc = "run"
  /\ Free
  /\ t.snap.session \in alive
  /\ present' = present \ {<<t.snap.channel, t.id>>}
  /\ trash' = trash \ {t}
  /\ UNCHANGED <<account, sessions, alive, log, files, work, download, faults>>

\* The attempt fails: there is another, or this was the last.
TrashFails(t) ==
  /\ t.pc = "run"
  /\ Free
  /\ t.snap.session \notin alive
  /\ \/ /\ trash' = (trash \ {t}) \cup {[t EXCEPT !.pc = "queued", !.snap = NoSnap]}
        /\ UNCHANGED row
     \/ /\ trash' = trash \ {t}
        /\ FlagRevoked(row.id # 0)
  /\ UNCHANGED <<starts, abandoned, op, sweep, telegram, files, work, download, faults>>

(***************************************************************************)
(* The keep-alive, and the user in Telegram.                               *)
(***************************************************************************)

SweepRead ==
  /\ sweep.pc = "idle"
  /\ Connected
  /\ sweep' = [pc |-> "health", snap |-> Snap]
  /\ UNCHANGED <<row, starts, abandoned, op, telegram, drive, faults>>

\* Mutation: a connection that answers is connected.
SweepReconnects ==
  /\ sweep.pc = "health"
  /\ sweep.snap.session \in alive
  /\ row' = IF row.id = sweep.snap.id THEN [row EXCEPT !.status = "CONNECTED"] ELSE row
  /\ sweep' = NoSweep
  /\ UNCHANGED <<starts, abandoned, op, telegram, drive, faults>>

SweepHealthy ==
  /\ sweep.pc = "health"
  /\ sweep.snap.session \in alive
  /\ sweep' = NoSweep
  /\ UNCHANGED <<row, starts, abandoned, op, telegram, drive, faults>>

\* The row is marked by its id, whatever it has become; a row that is gone
\* makes the update throw, which ends the sweep.
SweepFails ==
  /\ sweep.pc = "health"
  /\ \/ sweep.snap.session \notin alive /\ UNCHANGED faults
     \/ sweep.snap.session \in alive /\ Fault("health")
  /\ FlagRevoked(row.id = sweep.snap.id)
  /\ sweep' = NoSweep
  /\ UNCHANGED <<starts, abandoned, op, telegram, drive>>

Revoke ==
  /\ Fault("revoke")
  /\ \E s \in alive : alive' = alive \ {s}
  /\ UNCHANGED <<account, sessions, log, present, drive>>

-----------------------------------------------------------------------------

Locked ==
  \/ StartRead \/ StartUpsert \/ StartSeal
  \/ \E status \in {"PENDING_CODE", "PENDING_PASSWORD"} : VerifyRead(status)
  \/ VerifyNeedsPassword \/ VerifySignIn \/ Finalize
  \/ CheckRead \/ CheckHealthy \/ CheckFailed
  \/ DisconnectRead \/ DisconnectLogOut \/ DisconnectPurge \/ DisconnectRow
  \/ OpFails

Upload(f) ==
  \/ UploadRead(f) \/ UploadCreate(f)
  \/ JobRead(f) \/ JobSend(f) \/ JobSendFails(f) \/ JobWrite(f) \/ JobGivesUp(f)

Next ==
  \/ Locked
  \/ \E f \in Files : Upload(f) \/ DownloadRead(f) \/ Delete(f)
  \/ DownloadVerify \/ DownloadFails
  \/ \E t \in trash : TrashRead(t) \/ TrashRun(t) \/ TrashFails(t)
  \/ SweepRead \/ SweepHealthy \/ SweepFails
  \/ Revoke

Spec == Init /\ [][Next]_vars

-----------------------------------------------------------------------------
(***************************************************************************)
(* Properties.                                                             *)
(***************************************************************************)

Sessions == 0..MaxSessions
Keys == 0..MaxStarts
SnapType == [id : Keys, session : Sessions, channel : Sessions]
RowType ==
  [status : {"NONE", "PENDING_CODE", "PENDING_PASSWORD", "CONNECTED", "ERROR"},
   id : Keys, key : Keys, sealed : [Secrets -> Keys],
   session : Sessions, channel : Sessions]

\* The types of the row, of what was read from it, and of the files' messages.
TypeOK ==
  /\ row \in RowType
  /\ starts \in Keys
  /\ sessions \in Sessions
  /\ alive \subseteq Ids
  /\ op.session \in Sessions
  /\ \A f \in Files :
       /\ file[f] \in {"NEW", "UPLOADING", "READY", "ERROR", "LOST", "GONE"}
       /\ stored[f] \in Sessions \X Nat
       /\ work[f].snap \in SnapType /\ work[f].msg \in Sessions \X Nat
  /\ download.snap \in SnapType /\ download.of \subseteq Files
  /\ \A t \in trash : t.id \in Nat \ {0} /\ t.snap \in SnapType
  /\ sweep.snap \in SnapType
  /\ abandoned \subseteq Ids
  /\ late \subseteq Files
  /\ \A m \in present : m[2] \in DOMAIN log[m[1]]

\* A row that says CONNECTED has a session and a channel, made together, and
\* the session can be read with the row's key, although the keep-alive,
\* downloads and jobs write the status without the mutex.
ConnectedIsUsable ==
  Connected =>
    /\ row.session # 0 /\ row.channel = row.session
    /\ row.sealed["session"] = row.key

\* Between requests every secret of the row is sealed under the row's key,
\* unless a start was interrupted after it had replaced the key.
SecretsReadable ==
  Free /\ "interrupt" \notin happened =>
    \A s \in Secrets : row.sealed[s] \in {0, row.key}

\* A file that has been stored lies in the channel of the row, from the moment
\* its job writes the id to the end of disconnect, although the job read the
\* row long before; unless a start from ERROR has given that channel up, or
\* the file was created while a disconnect was between its purge and its end.
StoredWhereConnected ==
  \A f \in Files \ late :
    stored[f] # NoMsg => stored[f][1] = row.channel \/ stored[f][1] \in abandoned

(***************************************************************************)
(* What comments and the user interface say, and the code does not do.     *)
(***************************************************************************)

\* drive/page.tsx, when the connection is broken: "Your files are safe;
\* uploads, downloads, and syncing are paused until you reconnect." So when
\* the account is connected, a file that is READY is looked for in the channel
\* it was stored in.
FilesSurviveReconnect ==
  \A f \in Files :
    Connected /\ file[f] = "READY" => stored[f][1] = row.channel

\* storage.worker.ts, of a deletion that finds the user disconnected: "the
\* messages stay in THEIR account", and disconnect: "a reconnect starts clean".
\* So no deletion takes away the message of a file that is READY, at least
\* where every connection ended with a disconnect that purged every file.
ReadyKeepsMessage ==
  late = {} /\ abandoned = {} =>
    \A f \in Files : file[f] = "READY" => stored[f] \in present

=============================================================================
