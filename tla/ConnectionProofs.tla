--------------------------- MODULE ConnectionProofs ---------------------------
(* The storage connection's row, its secrets and the messages that hang on it, *)
(* for any number of files, logins, sign-ins and faults.                       *)
EXTENDS Connection, TLAPS

OpKinds == {"idle", "start", "verify", "check", "disconnect"}
OpPcs == {"idle", "upsert", "seal", "PENDING_CODE", "PENDING_PASSWORD", "finalize", "health",
          "logout", "purge", "row"}
WorkType == [pc : {"idle", "create", "queued", "send", "write", "done"}, snap : SnapType,
             msg : Sessions \X Nat]

\* The variables that the argument is about have their types.
RowTyped == row \in RowType /\ starts \in Keys /\ sessions \in Sessions
OpTyped == op \in [kind : OpKinds, pc : OpPcs, session : Sessions]
FilesTyped ==
  /\ file \in [Files -> {"NEW", "UPLOADING", "READY", "ERROR", "LOST", "GONE"}]
  /\ stored \in [Files -> Sessions \X Nat]
WorkTyped == work \in [Files -> WorkType] /\ log \in [Ids -> Seq(Files)]
Typed == RowTyped /\ OpTyped /\ FilesTyped /\ WorkTyped

\* A row with a session has its channel, and the key it is sealed under; a row
\* that is connected has a session.
SessionUsable ==
  /\ row.session # 0 => row.channel = row.session /\ row.sealed["session"] = row.key
  /\ Connected => row.session # 0

\* A login that has yet to be finished has no channel to lose.
LoginsStartClean == row.status \in {"PENDING_CODE", "PENDING_PASSWORD"} => row.channel = 0

\* What the request that holds the mutex may rely on until it ends.
OpRelies ==
  /\ At("start", "upsert") => starts < MaxStarts
  /\ op.kind = "check" => row.session # 0
  /\ op.kind = "verify" \/ At("start", "seal") => row.channel = 0
  /\ At("verify", "finalize") => op.session # 0

\* Secrets are sealed under the row's key, but for those a start is about to
\* seal again.
SealsInv ==
  "interrupt" \notin happened =>
    IF At("start", "seal") THEN row.sealed["session"] = 0
    ELSE \A s \in Secrets : row.sealed[s] \in {0, row.key}

\* Where a channel is, as far as the row goes.
Known(c) == c # 0 /\ (c = row.channel \/ c \in abandoned)

\* A message that is stored, or about to be, lies in a channel the row knows.
StoredOf(f) ==
  /\ stored[f] # NoMsg => Exists(f) /\ stored[f][1] # 0 /\ (f \notin late => Known(stored[f][1]))
  /\ work[f].pc \in {"send", "write"} =>
       /\ work[f].snap.channel # 0
       /\ Exists(f) /\ f \notin late => Known(work[f].snap.channel)
  /\ work[f].pc = "write" => work[f].msg[1] = work[f].snap.channel
  /\ At("disconnect", "row") /\ f \notin late => ~Exists(f)
StoredInv == \A f \in Files : StoredOf(f)

RowInv == RowTyped /\ OpTyped /\ SessionUsable /\ LoginsStartClean /\ OpRelies /\ SealsInv
ConnInv == RowInv /\ FilesTyped /\ WorkTyped /\ StoredInv
-----------------------------------------------------------------------------
\* What a step that does not hold the mutex may do to the row: mark it.
Elsewhere ==
  /\ row' \in {row, [row EXCEPT !.status = "ERROR"]}
  /\ UNCHANGED <<starts, sessions, op, abandoned>>
  /\ happened \subseteq happened'

\* Every step belongs to the holder of the mutex, or does no more than that.
LEMMA LockedOrElsewhere == Next => Locked \/ Elsewhere
<1> SUFFICES ASSUME Next, ~Locked PROVE Elsewhere
  OBVIOUS
<1> USE DEF Elsewhere, account, telegram, files, drive, faults
<1>1. ASSUME NEW f \in Files, Upload(f) PROVE Elsewhere
  BY <1>1 DEF Upload, UploadRead, UploadCreate, JobRead, JobSend, JobSendFails, JobWrite,
     JobGivesUp, FlagRevoked
<1>2. ASSUME NEW f \in Files, DownloadRead(f) \/ Delete(f) PROVE Elsewhere
  BY <1>2 DEF DownloadRead, Delete
<1>3. CASE DownloadVerify \/ DownloadFails
  BY <1>3 DEF DownloadVerify, DownloadFails, FlagRevoked
<1>4. ASSUME NEW t \in trash, TrashRead(t) \/ TrashRun(t) \/ TrashFails(t) PROVE Elsewhere
  BY <1>4 DEF TrashRead, TrashRun, TrashFails, FlagRevoked
<1>5. CASE SweepRead \/ SweepHealthy \/ SweepFails
  BY <1>5 DEF SweepRead, SweepHealthy, SweepFails, FlagRevoked, Fault
<1>6. CASE Revoke
  BY <1>6 DEF Revoke, Fault
<1> QED BY <1>1, <1>2, <1>3, <1>4, <1>5, <1>6 DEF Next

\* Marking the row, at any moment, leaves it as usable as it was.
LEMMA RowKeptElsewhere == RowInv /\ Elsewhere => RowInv'
<1> SUFFICES ASSUME RowInv, Elsewhere PROVE RowInv'
  OBVIOUS
<1> USE DEF Elsewhere, RowInv
<1>1. /\ row' \in RowType /\ row'.status \in {row.status, "ERROR"} /\ row'.id = row.id
      /\ row'.key = row.key /\ row'.sealed = row.sealed
      /\ row'.session = row.session /\ row'.channel = row.channel
  BY DEF RowTyped, RowType
<1>2. RowTyped' /\ OpTyped'
  BY <1>1 DEF RowTyped, OpTyped
<1>3. SessionUsable' /\ LoginsStartClean'
  BY <1>1 DEF SessionUsable, LoginsStartClean, Connected
<1>4. OpRelies'
  BY <1>1 DEF OpRelies, At
<1>5. SealsInv'
  BY <1>1 DEF SealsInv, At
<1> QED BY <1>2, <1>3, <1>4, <1>5

\* So does every request that holds the mutex, step by step.
LEMMA RowKeptLocked == RowInv /\ Locked => RowInv'
<1> SUFFICES ASSUME RowInv, Locked PROVE RowInv'
  OBVIOUS
<1> USE ConnectionAssumption DEF RowInv, OpTyped, OpKinds, OpPcs, OpAt, NoOp, At, Free, account,
    faults
<1>0. row.sealed \in [Secrets -> Keys] /\ row.key \in Keys /\ 0 \in Keys
  BY DEF RowTyped, RowType, Keys
<1>1. CASE StartRead
  BY <1>1 DEF StartRead, telegram, RowTyped, Connected, SessionUsable, LoginsStartClean, OpRelies,
     SealsInv, Sessions
<1>2. CASE StartUpsert
  <2>1. /\ row' = [status |-> "PENDING_CODE", id |-> IF row.id = 0 THEN starts + 1 ELSE row.id,
                   key |-> starts + 1, sealed |-> [row.sealed EXCEPT !["session"] = 0],
                   session |-> 0, channel |-> 0]
        /\ starts' = starts + 1 /\ sessions' = sessions /\ op' = OpAt("start", "seal", 0)
        /\ starts < MaxStarts
    BY <1>2 DEF StartUpsert, OpRelies, telegram
  <2>2. [row.sealed EXCEPT !["session"] = 0] \in [Secrets -> Keys]
    BY <1>0
  <2>3. RowTyped' /\ OpTyped'
    BY <2>1, <2>2 DEF RowTyped, RowType, Keys, Sessions
  <2>4. SessionUsable' /\ LoginsStartClean' /\ OpRelies'
    BY <2>1 DEF SessionUsable, LoginsStartClean, OpRelies, Connected
  <2>5. SealsInv'
    BY <2>1, <2>2 DEF SealsInv, RowTyped, RowType, Secrets
  <2> QED BY <2>3, <2>4, <2>5
<1>3. CASE StartSeal
  <2>1. /\ row' = [row EXCEPT !.sealed = row'.sealed]
        /\ row'.sealed = [row.sealed EXCEPT !["pending"] = row.key, !["phone"] = row.key]
        /\ UNCHANGED <<starts, sessions>> /\ op' = NoOp /\ At("start", "seal")
        /\ UNCHANGED happened
    BY <1>3 DEF StartSeal, telegram, RowTyped, RowType
  <2>2. row'.sealed \in [Secrets -> Keys]
    BY <2>1 DEF RowTyped, RowType
  <2>3. RowTyped' /\ OpTyped'
    BY <2>1, <2>2 DEF RowTyped, RowType, Sessions
  <2>4. SessionUsable' /\ LoginsStartClean' /\ OpRelies'
    BY <2>1 DEF SessionUsable, LoginsStartClean, OpRelies, Connected, RowTyped, RowType, Secrets
  <2>5. SealsInv'
    BY <2>1, <2>2 DEF SealsInv, RowTyped, RowType, Secrets
  <2> QED BY <2>3, <2>4, <2>5
<1>4. ASSUME NEW status \in {"PENDING_CODE", "PENDING_PASSWORD"}, VerifyRead(status) PROVE RowInv'
  BY <1>4 DEF VerifyRead, telegram, RowTyped, Connected, SessionUsable, LoginsStartClean,
     OpRelies, SealsInv, Sessions
<1>5. CASE VerifyNeedsPassword
  <2>1. /\ row' = [row EXCEPT !.status = "PENDING_PASSWORD"]
        /\ UNCHANGED <<starts, sessions, happened>> /\ op' = NoOp /\ At("verify", "PENDING_CODE")
    BY <1>5 DEF VerifyNeedsPassword, telegram
  <2> QED BY <2>1 DEF RowTyped, RowType, Connected, SessionUsable, LoginsStartClean, OpRelies,
      SealsInv, Sessions
<1>6. CASE VerifySignIn
  BY <1>6 DEF VerifySignIn, telegram, RowTyped, Connected, SessionUsable, LoginsStartClean,
     OpRelies, SealsInv, Sessions
<1>7. CASE Finalize
  <2>1. /\ row'.sealed = [row.sealed EXCEPT !["session"] = row.key, !["pending"] = 0]
        /\ row'.status = "CONNECTED" /\ row'.session = op.session /\ row'.channel = op.session
        /\ row'.id = row.id /\ row'.key = row.key
        /\ UNCHANGED <<starts, sessions, happened>> /\ op' = NoOp /\ At("verify", "finalize")
    BY <1>7 DEF Finalize, telegram, RowTyped, RowType
  <2>2. row'.sealed \in [Secrets -> Keys] /\ row' \in RowType
    <3>1. row'.sealed \in [Secrets -> Keys]
      BY <1>0, <2>1
    <3>2. row' = [row EXCEPT !.status = "CONNECTED", !.sealed = row'.sealed,
                             !.session = op.session, !.channel = op.session]
      BY <1>7, <2>1 DEF Finalize, RowTyped, RowType
    <3> QED BY <3>1, <3>2 DEF RowTyped, RowType
  <2>3. RowTyped' /\ OpTyped'
    BY <2>1, <2>2 DEF RowTyped, Sessions
  <2>4. SessionUsable' /\ LoginsStartClean' /\ OpRelies'
    BY <2>1 DEF SessionUsable, LoginsStartClean, OpRelies, Connected, RowTyped, RowType, Secrets
  <2>5. SealsInv'
    BY <2>1, <2>2 DEF SealsInv, RowTyped, RowType, Secrets
  <2> QED BY <2>3, <2>4, <2>5
<1>8. CASE CheckRead
  BY <1>8 DEF CheckRead, telegram, RowTyped, RowType, Connected, SessionUsable, LoginsStartClean,
     OpRelies, SealsInv
<1>9. CASE CheckHealthy \/ CheckFailed
  <2>1. /\ row' = [row EXCEPT !.status = row'.status] /\ row'.status \in {"CONNECTED", "ERROR"}
        /\ UNCHANGED <<starts, sessions>> /\ happened \subseteq happened'
        /\ op' = NoOp /\ At("check", "health")
    BY <1>9 DEF CheckHealthy, CheckFailed, Fault, telegram, RowTyped, RowType
  <2> QED BY <2>1 DEF RowTyped, RowType, Connected, SessionUsable, LoginsStartClean, OpRelies,
      SealsInv, Sessions
<1>10. CASE DisconnectRead
  BY <1>10 DEF DisconnectRead, telegram, RowTyped, RowType, Connected, SessionUsable,
     LoginsStartClean, OpRelies, SealsInv
<1>11. CASE DisconnectLogOut \/ DisconnectPurge
  BY <1>11 DEF DisconnectLogOut, DisconnectPurge, Purged, telegram, RowTyped, Connected,
     SessionUsable, LoginsStartClean, OpRelies, SealsInv
<1>12. CASE DisconnectRow
  BY <1>12 DEF DisconnectRow, NoRow, Unsealed, telegram, RowTyped, RowType, Connected,
     SessionUsable, LoginsStartClean,
     OpRelies, SealsInv, Sessions, Keys
<1>13. CASE OpFails
  BY <1>13 DEF OpFails, Fault, telegram, RowTyped, Connected, SessionUsable, LoginsStartClean,
     OpRelies, SealsInv, Sessions
<1> QED BY <1>1, <1>2, <1>3, <1>4, <1>5, <1>6, <1>7, <1>8, <1>9, <1>10, <1>11, <1>12,
    <1>13 DEF Locked

\* What a request or a job reads of the row has the row's types.
LEMMA SnapTyped == RowTyped => Snap \in SnapType /\ NoSnap \in SnapType /\ NoMsg \in Sessions \X Nat
BY ConnectionAssumption DEF RowTyped, RowType, Snap, NoSnap, NoMsg, SnapType, Keys, Sessions

\* Only uploads, downloads, deletions and a disconnect touch files and jobs.
LEMMA FilesKeptTyped ==
  RowInv /\ FilesTyped /\ WorkTyped /\ StoredInv /\ [Next]_vars => FilesTyped' /\ WorkTyped'
<1> SUFFICES ASSUME RowTyped, SessionUsable, FilesTyped, WorkTyped, StoredInv, [Next]_vars
             PROVE FilesTyped' /\ WorkTyped'
  BY DEF RowInv
<1> USE DEF account, telegram, files, drive, faults
<1>1. CASE UNCHANGED <<file, stored, work, log>>
  BY <1>1 DEF FilesTyped, WorkTyped
<1>2. CASE Locked
  <2>1. UNCHANGED <<work, log>>
    BY <1>2 DEF Locked, StartRead, StartUpsert, StartSeal, VerifyRead, VerifyNeedsPassword,
       VerifySignIn,
       Finalize, CheckRead, CheckHealthy, CheckFailed, DisconnectRead, DisconnectLogOut,
       DisconnectPurge, DisconnectRow, OpFails
  <2>2. CASE DisconnectPurge
    BY <2>1, <2>2, SnapTyped DEF DisconnectPurge, Purged, FilesTyped, WorkTyped
  <2>3. CASE ~DisconnectPurge
    <3>1. UNCHANGED <<file, stored>>
      BY <1>2, <2>3 DEF Locked, StartRead, StartUpsert, StartSeal, VerifyRead, VerifyNeedsPassword,
         VerifySignIn, Finalize, CheckRead, CheckHealthy, CheckFailed, DisconnectRead,
         DisconnectLogOut, DisconnectRow, OpFails
    <3> QED BY <1>1, <2>1, <3>1
  <2> QED BY <2>2, <2>3
<1>3. ASSUME NEW f \in Files, Upload(f) PROVE FilesTyped' /\ WorkTyped'
  <2>1. ASSUME NEW pc \in {"idle", "create", "queued", "send", "write", "done"},
  NEW snap \in SnapType,
               NEW msg \in Sessions \X Nat, Working(f, pc, snap, msg), UNCHANGED log
        PROVE WorkTyped'
    BY <2>1 DEF Working, WorkAt, WorkTyped, WorkType
  <2>2. CASE UploadRead(f)
    BY <2>1, <2>2, SnapTyped DEF UploadRead, FilesTyped
  <2>3. CASE UploadCreate(f)
    BY <2>1, <2>3, SnapTyped DEF UploadCreate, FilesTyped
  <2>4. CASE JobRead(f)
    BY <2>1, <2>4, SnapTyped DEF JobRead, FilesTyped
  <2>5. CASE JobSend(f)
    <3> DEFINE c == work[f].snap.channel
    <3>1. /\ c \in Ids /\ work[f].snap \in SnapType
      BY <2>5, ConnectionAssumption DEF JobSend, StoredInv, StoredOf, WorkTyped, WorkType,
         SnapType, Sessions, Ids
    <3>2. log[c] \in Seq(Files) /\ Len(log[c]) + 1 \in Nat
      BY <3>1 DEF WorkTyped
    <3>3. log' \in [Ids -> Seq(Files)]
      BY <2>5, <3>1, <3>2 DEF JobSend, WorkTyped
    <3>4. work' = [work EXCEPT ![f] = [pc |-> "write", snap |-> work[f].snap, msg |-> <<c,
    Len(log[c]) + 1>>]]
      BY <2>5 DEF JobSend, Working, WorkAt
    <3>5. work' \in [Files -> WorkType]
      BY <3>1, <3>2, <3>4, ConnectionAssumption DEF WorkTyped, WorkType, Sessions, Ids
    <3> QED BY <2>5, <3>3, <3>5 DEF JobSend, FilesTyped, WorkTyped
  <2>6. CASE JobSendFails(f)
    BY <2>1, <2>6, SnapTyped DEF JobSendFails, FilesTyped
  <2>7. CASE JobWrite(f)
    <3>1. work[f].msg \in Sessions \X Nat
      BY DEF WorkTyped, WorkType
    <3>2. FilesTyped'
      BY <2>7, <3>1 DEF JobWrite, FilesTyped
    <3> QED BY <2>1, <2>7, <3>2, SnapTyped DEF JobWrite
  <2>8. CASE JobGivesUp(f)
    BY <2>1, <2>8, SnapTyped DEF JobGivesUp, FilesTyped
  <2> QED BY <1>3, <2>2, <2>3, <2>4, <2>5, <2>6, <2>7, <2>8 DEF Upload
<1>4. ASSUME NEW f \in Files, Delete(f) PROVE FilesTyped' /\ WorkTyped'
  BY <1>4, SnapTyped DEF Delete, FilesTyped, WorkTyped
<1>5. CASE DownloadVerify
  BY <1>5 DEF DownloadVerify, FilesTyped, WorkTyped
<1>6. ASSUME NEW f \in Files, DownloadRead(f) PROVE UNCHANGED <<file, stored, work, log>>
  BY <1>6 DEF DownloadRead
<1>7. ASSUME DownloadFails \/ SweepRead \/ SweepHealthy \/ SweepFails \/ Revoke
      PROVE UNCHANGED <<file, stored, work, log>>
  BY <1>7 DEF DownloadFails, SweepRead, SweepHealthy, SweepFails, Revoke
<1>8. ASSUME NEW t \in trash, TrashRead(t) \/ TrashRun(t) \/ TrashFails(t)
      PROVE UNCHANGED <<file, stored, work, log>>
  BY <1>8 DEF TrashRead, TrashRun, TrashFails
<1>9. CASE UNCHANGED vars
  BY <1>1, <1>9 DEF vars
<1> QED BY <1>1, <1>2, <1>3, <1>4, <1>5, <1>6, <1>7, <1>8, <1>9 DEF Next

\* A file that a step leaves alone stays where it was, if the row's channel is
\* kept or given up.
LEMMA StoredKeptAlone ==
  ASSUME NEW g \in Files, StoredOf(g),
         UNCHANGED <<file[g], stored[g], work[g], late>>,
         \A c : Known(c) => Known(c)',
         At("disconnect", "row")' => At("disconnect", "row")
  PROVE  StoredOf(g)'
BY DEF StoredOf, Exists

\* Steps that leave the channel alone know what was known.
LEMMA KnownKept ==
  ASSUME row'.channel = row.channel \/ row.channel = 0, abandoned \subseteq abandoned'
  PROVE  \A c : Known(c) => Known(c)'
BY DEF Known

LEMMA StoredKeptLocked ==
  ASSUME RowInv, FilesTyped, StoredInv, Locked
  PROVE  StoredInv'
<1> SUFFICES ASSUME NEW g \in Files PROVE StoredOf(g)'
  BY DEF StoredInv
<1>0. StoredOf(g)
  BY DEF StoredInv
<1> USE DEF account, telegram, files, drive, OpAt, NoOp
<1>1. CASE StartRead \/ (\E status \in {"PENDING_CODE", "PENDING_PASSWORD"} : VerifyRead(status))
           \/ VerifySignIn \/ CheckRead \/ DisconnectRead \/ DisconnectLogOut \/ OpFails
  <2>1. UNCHANGED <<row, abandoned, file, stored, work, late>> /\ ~At("disconnect", "row")'
    BY <1>1 DEF StartRead, VerifyRead, VerifySignIn, CheckRead, DisconnectRead, DisconnectLogOut,
       OpFails, At
  <2> QED BY <1>0, <2>1, KnownKept, StoredKeptAlone
<1>6. CASE StartSeal \/ VerifyNeedsPassword \/ CheckHealthy \/ CheckFailed
  <2>1. /\ row'.channel = row.channel /\ UNCHANGED abandoned
        /\ UNCHANGED <<file, stored, work, late>> /\ ~At("disconnect", "row")'
    <3> USE DEF At, RowInv, RowTyped, RowType
    <3>1. CASE StartSeal
      BY <3>1 DEF StartSeal
    <3>2. CASE VerifyNeedsPassword
      BY <3>2 DEF VerifyNeedsPassword
    <3>3. CASE CheckHealthy \/ CheckFailed
      BY <3>3 DEF CheckHealthy, CheckFailed
    <3> QED BY <1>6, <3>1, <3>2, <3>3
  <2> QED BY <1>0, <2>1, KnownKept, StoredKeptAlone
<1>2. CASE StartUpsert
  <2>1. /\ row'.channel = 0 /\ abandoned' = abandoned \cup ({row.channel} \ {0})
        /\ UNCHANGED <<file, stored, work, late>> /\ ~At("disconnect", "row")'
    BY <1>2 DEF StartUpsert, At
  <2>2. \A c : Known(c) => Known(c)'
    BY <2>1 DEF Known
  <2> QED BY <1>0, <2>1, <2>2, StoredKeptAlone
<1>3. CASE Finalize
  <2>1. /\ row.channel = 0 /\ UNCHANGED abandoned
        /\ UNCHANGED <<file, stored, work, late>> /\ ~At("disconnect", "row")'
    BY <1>3 DEF Finalize, At, RowInv, OpRelies
  <2> QED BY <1>0, <2>1, KnownKept, StoredKeptAlone
<1>4. CASE DisconnectPurge
  <2>1. /\ UNCHANGED <<row, abandoned, work, late>> /\ ~Exists(g)' /\ stored'[g] = NoMsg
    BY <1>0, <1>4 DEF DisconnectPurge, Purged, Exists, StoredOf
  <2> QED BY <1>0, <2>1 DEF StoredOf, Known
<1>5. CASE DisconnectRow
  <2>1. At("disconnect", "row") /\ UNCHANGED <<file, stored, work, late>> /\ ~At("disconnect",
  "row")'
    BY <1>5 DEF DisconnectRow, At
  <2> QED BY <1>0, <2>1 DEF StoredOf, Exists
<1> QED BY <1>1, <1>2, <1>3, <1>4, <1>5, <1>6 DEF Locked

LEMMA StoredKeptElsewhere ==
  ASSUME RowInv, FilesTyped, WorkTyped, StoredInv, [Next]_vars, ~Locked
  PROVE  StoredInv'
<1> SUFFICES ASSUME NEW g \in Files PROVE StoredOf(g)'
  BY DEF StoredInv
<1>0. StoredOf(g) /\ (Exists(g) <=> file[g] \notin {"NEW", "GONE"})
  BY DEF StoredInv, Exists
<1> USE DEF account, telegram, files, drive
<1>1. /\ row'.channel = row.channel /\ UNCHANGED abandoned /\ UNCHANGED op
  <2>1. CASE Elsewhere
    BY <2>1 DEF Elsewhere, RowInv, RowTyped, RowType
  <2> QED BY <2>1, LockedOrElsewhere DEF vars
<1>2. /\ \A c : Known(c) => Known(c)'
      /\ At("disconnect", "row")' <=> At("disconnect", "row")
  BY <1>1, KnownKept DEF At
<1>3. CASE UNCHANGED <<file[g], stored[g], work[g], late>>
  BY <1>0, <1>2, <1>3, StoredKeptAlone
<1>4. ASSUME NEW f \in Files, Upload(f) PROVE StoredOf(g)'
  <2>1. CASE UploadRead(f)
    BY <1>0, <1>2, <2>1 DEF UploadRead, Working, WorkAt, StoredOf, Exists, WorkTyped, WorkType
  <2>2. CASE UploadCreate(f)
    BY <1>0, <1>2, <2>2 DEF UploadCreate, Working, WorkAt, StoredOf, Exists, WorkTyped, WorkType,
       FilesTyped
  <2>3. CASE JobRead(f)
    <3>1. Connected => Snap.channel # 0 /\ Snap.channel = row.channel
      BY DEF RowInv, SessionUsable, Snap
    <3> QED BY <1>0, <1>1, <1>2, <2>3, <3>1 DEF JobRead, Working, WorkAt, StoredOf, Exists,
        WorkTyped, WorkType, Known
  <2>4. CASE JobSend(f)
    BY <1>0, <1>2, <2>4 DEF JobSend, Working, WorkAt, StoredOf, Exists, WorkTyped, WorkType
  <2>5. CASE JobSendFails(f)
    BY <1>0, <1>2, <2>5 DEF JobSendFails, Working, WorkAt, StoredOf, Exists, WorkTyped, WorkType
  <2>6. CASE JobWrite(f)
    BY <1>0, <1>2, <2>6 DEF JobWrite, Working, WorkAt, StoredOf, Exists, WorkTyped, WorkType,
       FilesTyped
  <2>7. CASE JobGivesUp(f)
    BY <1>0, <1>2, <2>7 DEF JobGivesUp, Working, WorkAt, StoredOf, Exists, WorkTyped, WorkType,
       FilesTyped
  <2> QED BY <1>4, <2>1, <2>2, <2>3, <2>4, <2>5, <2>6, <2>7 DEF Upload
<1>5. ASSUME NEW f \in Files, Delete(f) PROVE StoredOf(g)'
  BY <1>0, <1>2, <1>5 DEF Delete, StoredOf, Exists, FilesTyped
<1>6. CASE DownloadVerify
  BY <1>0, <1>2, <1>6 DEF DownloadVerify, StoredOf, Exists, FilesTyped
<1>7. ASSUME \/ \E f \in Files : DownloadRead(f)
             \/ DownloadFails \/ SweepRead \/ SweepHealthy \/ SweepFails \/ Revoke
             \/ \E t \in trash : TrashRead(t) \/ TrashRun(t) \/ TrashFails(t)
      PROVE UNCHANGED <<file[g], stored[g], work[g], late>>
  BY <1>7 DEF DownloadRead, DownloadFails, SweepRead, SweepHealthy, SweepFails, Revoke, TrashRead,
     TrashRun, TrashFails
<1>8. CASE UNCHANGED vars
  BY <1>3, <1>8 DEF vars
<1> QED BY <1>3, <1>4, <1>5, <1>6, <1>7, <1>8 DEF Next
-----------------------------------------------------------------------------
\* The invariant of the connection: the row, its secrets and the messages that
\* hang on it, whatever requests, jobs and faults do.
THEOREM ConnectionCorrect == Spec => []ConnInv
<1>1. Init => ConnInv
  <2> SUFFICES ASSUME Init PROVE ConnInv
    OBVIOUS
  <2> USE ConnectionAssumption DEF Init, NoRow, Unsealed, NoOp, OpAt
  <2>1. RowTyped /\ OpTyped
    BY DEF RowTyped, RowType, OpTyped, OpKinds, OpPcs, Keys, Sessions
  <2>2. SessionUsable /\ LoginsStartClean /\ OpRelies /\ SealsInv
    BY DEF SessionUsable, LoginsStartClean, OpRelies, SealsInv, Connected, At
  <2>3. FilesTyped /\ WorkTyped
    BY <2>1, SnapTyped DEF FilesTyped, WorkTyped, WorkType, NoWork, WorkAt
  <2>4. StoredInv
    BY DEF StoredInv, StoredOf, NoWork, WorkAt, At, Exists
  <2> QED BY <2>1, <2>2, <2>3, <2>4 DEF ConnInv, RowInv
<1>2. ConnInv /\ [Next]_vars => ConnInv'
  <2> SUFFICES ASSUME ConnInv, [Next]_vars PROVE ConnInv'
    OBVIOUS
  <2>1. RowInv'
    <3>1. CASE UNCHANGED vars
      BY <3>1 DEF ConnInv, RowInv, vars, account, telegram, faults, RowTyped, OpTyped,
         SessionUsable, Connected,
         LoginsStartClean, OpRelies, SealsInv, At
    <3> QED BY <3>1, LockedOrElsewhere, RowKeptElsewhere, RowKeptLocked DEF ConnInv
  <2>2. FilesTyped' /\ WorkTyped'
    BY FilesKeptTyped DEF ConnInv
  <2>3. StoredInv'
    BY StoredKeptLocked, StoredKeptElsewhere DEF ConnInv
  <2> QED BY <2>1, <2>2, <2>3 DEF ConnInv
<1> QED BY <1>1, <1>2, PTL DEF Spec

\* A connected row has a session that can be read and a channel of its own,
\* although jobs, downloads and the keep-alive write its status unasked.
THEOREM ConnectedCorrect == Spec => []ConnectedIsUsable
<1>1. ConnInv => ConnectedIsUsable
  BY DEF ConnInv, RowInv, SessionUsable, ConnectedIsUsable
<1> QED BY <1>1, ConnectionCorrect, PTL

\* Between requests no secret is sealed under a key the row has lost, unless a
\* request was interrupted.
THEOREM SecretsCorrect == Spec => []SecretsReadable
<1>1. ConnInv => SecretsReadable
  BY DEF ConnInv, RowInv, OpTyped, SealsInv, SecretsReadable, Free, At
<1> QED BY <1>1, ConnectionCorrect, PTL

\* What is stored lies in the row's channel, or in one that start gave up.
THEOREM StoredCorrect == Spec => []StoredWhereConnected
<1>1. ConnInv => StoredWhereConnected
  BY DEF ConnInv, StoredInv, StoredOf, Known, StoredWhereConnected
<1> QED BY <1>1, ConnectionCorrect, PTL
=============================================================================
