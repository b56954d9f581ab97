----------------------------- MODULE UploadBatch -----------------------------
(***************************************************************************)
(* One drop of files and folders on the drive page: the worker pool that   *)
(* uploads it, the folders it makes on its way, the panel it is shown in,  *)
(* and cancelling, retrying and dismissing it (apps/web/src/stores/        *)
(* uploads.ts, ingest in app/drive/page.tsx, components/upload-panel.tsx). *)
(* The browser runs one handler at a time: a step is what happens between  *)
(* two awaits, and a request is served at a step of its own, between its   *)
(* sending and its answer.  The parts of one file are one request here     *)
(* (their loop is PartUpload); the server is reduced to what it keeps.     *)
(***************************************************************************)
EXTENDS Integers, Sequences, FiniteSets, SequencesExt

CONSTANTS
    Uploads,        \* the files of the drop
    Job,            \* the order in which the pool takes them
    DirOf,          \* DirOf[u]: the folder of u, a path below the page's folder
    PreExisting,    \* folders of these paths that the user had before
    Fillable,       \* bound: folders the user puts something of their own into
    Concurrency,    \* how many of them the pool uploads at a time
    MaxFaults       \* bound: requests that fail, served or not

PathOf(d) == {SubSeq(d, 1, n) : n \in 1..Len(d)}
Dirs == UNION {PathOf(DirOf[u]) : u \in Uploads}
Below(d) == {x \in Dirs : d \in PathOf(x)}

\* Files of a dropped folder share a batch; other files stand for themselves.
Batch == {u \in Uploads : DirOf[u] # <<>>}
Groups == {{u} : u \in Uploads \ Batch} \union ({Batch} \ {{}})

ASSUME DropAssumption ==
    /\ Job \in Seq(Uploads) /\ ToSet(Job) = Uploads /\ Len(Job) = Cardinality(Uploads)
    /\ PreExisting \subseteq Dirs /\ \A d \in PreExisting : PathOf(d) \subseteq PreExisting

VARIABLES
    entry,       \* the store: entry[u].state ("none": not in the panel) and .fileId known
    controllers, \* uploads with a controller
    cancelled,   \* cancelledIds
    created,     \* batchCreatedFolders of the batch
    dir,         \* dirCache: the promise of each folder
    cursor,      \* the pool's next job
    pool,        \* pool[u]: what the worker that took u awaits, if one has it
    request,     \* request[u]: session or part requests of u in flight
    timer,       \* uploads whose dismissal timer runs
    canceller,   \* canceller[g]: the background clean-up of a cancelled group
    undo,        \* sessions made for a cancelled upload, to be deleted
    folder,      \* the server's folders of the drop
    foreign,     \* those the user has put something else in
    file,        \* the server's file of each upload
    faults,      \* requests that may still fail
    raced        \* history: the batch was cancelled while a request of it was under way

batchVars == <<entry, controllers, cancelled, created, dir, cursor, pool, request, timer,
               canceller, undo, folder, foreign, file, faults, raced>>
panelVars == <<controllers, cancelled, created, timer, canceller, undo, raced>>
serverVars == <<folder, foreign, file, faults>>

Gone == [state |-> "none", fileId |-> FALSE]
NoCanceller == [at |-> "none", files |-> {}, folders |-> <<>>]
Busy == {u \in Uploads : pool[u] # "none"}
Members(g) == {u \in g : entry[u].state # "none"}

\* combineStates: what the panel shows for a group.
GroupState(g) ==
    IF \E u \in g : entry[u].state = "uploading" THEN "uploading"
    ELSE IF \E u \in g : entry[u].state = "error" THEN "error" ELSE "syncing"

BatchInit ==
    /\ entry = [u \in Uploads |-> [state |-> "uploading", fileId |-> FALSE]]
    /\ controllers = {} /\ cancelled = {} /\ created = <<>> /\ timer = {} /\ undo = {}
    /\ dir = [d \in Dirs |-> "none"]
    /\ cursor = 1 /\ pool = [u \in Uploads |-> "none"]
    /\ request = [u \in Uploads |-> "none"]
    /\ canceller = [g \in Groups |-> NoCanceller]
    /\ folder = PreExisting /\ foreign = {} /\ file = [u \in Uploads |-> "none"]
    /\ faults = MaxFaults /\ raced = FALSE

-----------------------------------------------------------------------------
\* The store's set: a patch for an entry that is gone is dropped.
Patched(u, state) ==
    IF entry[u].state = "none" THEN entry ELSE [entry EXCEPT ![u].state = state]

\* ensureDir: one promise per path, each waiting for its parent's.
Ensured(d) ==
    [x \in Dirs |->
        IF x \notin PathOf(d) \/ dir[x] # "none" THEN dir[x]
        ELSE IF \E y \in PathOf(x) : dir[y] = "failed" THEN "failed"
        ELSE IF Len(x) = 1 \/ (Len(x) > 1 /\ dir[Front(x)] = "done") THEN "asked"
        ELSE "waiting"]

\* beginUpload, up to its request, and what the pool does when there is no folder.
Begin(u) ==
    /\ pool' = [pool EXCEPT ![u] = "session"]
    /\ request' = [request EXCEPT ![u] = "session"]
    /\ UNCHANGED entry

\* A free worker takes the next job, unless it was cancelled while it waited.
TakeJob ==
    LET u == Job[cursor]
        d == DirOf[u] IN
    /\ Cardinality(Busy) < Concurrency /\ cursor <= Len(Job)
    /\ cursor' = cursor + 1
    /\ UNCHANGED <<panelVars, serverVars>>
    /\ \/ u \in cancelled /\ UNCHANGED <<entry, dir, pool, request>>
       \/ /\ u \notin cancelled
          /\ dir' = Ensured(d)
          /\ \/ d # <<>> /\ dir'[d] = "failed"
                /\ entry' = Patched(u, "error") /\ UNCHANGED <<pool, request>>
             \/ d = <<>> /\ Begin(u)
             \/ d # <<>> /\ dir'[d] = "done" /\ Begin(u)
             \/ /\ d # <<>> /\ dir'[d] \in {"asked", "waiting"}
                /\ pool' = [pool EXCEPT ![u] = "dir"]
                /\ UNCHANGED <<entry, request>>

\* POST ensure-path on the server: find, else create, below an existing parent.
DirServe(d) ==
    /\ dir[d] = "asked"
    /\ \/ /\ d \in folder
          /\ dir' = [dir EXCEPT ![d] = "found"] /\ UNCHANGED folder
       \/ /\ d \notin folder /\ (Len(d) > 1 => Front(d) \in folder)
          /\ dir' = [dir EXCEPT ![d] = "made"] /\ folder' = folder \union {d}
       \/ /\ d \notin folder /\ Len(d) > 1 /\ Front(d) \notin folder
          /\ dir' = [dir EXCEPT ![d] = "refused"] /\ UNCHANGED folder
    /\ UNCHANGED <<entry, panelVars, cursor, pool, request, foreign, file, faults>>

\* (Not the code: the folder's id is recorded either way.)
RecordedAlways(d) == Append(created, d)

\* recordCreatedFolders: what the answer says was created, never what was found.
Recorded(d) == IF dir[d] = "made" THEN Append(created, d) ELSE created

\* The uploads whose worker awaits a folder of D.
WaitFor(D) == {u \in Uploads : pool[u] = "dir" /\ DirOf[u] \in D}

\* The answer: the promise and the uploads that wait for it go on.
DirAnswered(d) ==
    /\ dir[d] \in {"found", "made"}
    /\ dir' = [x \in Dirs |-> IF x = d THEN "done"
                              ELSE IF dir[x] = "waiting" /\ Front(x) = d THEN "asked"
                              ELSE dir[x]]
    /\ created' = Recorded(d)
    /\ pool' = [u \in Uploads |-> IF u \notin WaitFor({d}) THEN pool[u]
                                  ELSE IF u \in cancelled THEN "none" ELSE "session"]
    /\ request' = [u \in Uploads |->
                     IF u \in WaitFor({d}) \ cancelled THEN "session" ELSE request[u]]
    /\ UNCHANGED <<entry, controllers, cancelled, timer, canceller, undo, raced, cursor,
                   serverVars>>

\* (Not the code: only d's own promise is rejected.)
FailsAlone(d) == {d}

\* The paths that fail with d.
FailsWith(d) == {x \in Below(d) : x = d \/ dir[x] = "waiting"}

\* A refusal or a lost answer: every path below it fails with it, for good.
DirFails(d, lost) ==
    LET down == FailsWith(d) IN
    /\ IF lost THEN dir[d] \in {"asked", "found", "made"} /\ faults > 0 /\ faults' = faults - 1
       ELSE dir[d] = "refused" /\ UNCHANGED faults
    /\ dir' = [x \in Dirs |-> IF x \in down THEN "failed" ELSE dir[x]]
    /\ entry' = [u \in Uploads |->
                   IF entry[u].state # "none" /\ u \in WaitFor(down) \ cancelled
                   THEN [entry[u] EXCEPT !.state = "error"] ELSE entry[u]]
    /\ pool' = [u \in Uploads |-> IF u \in WaitFor(down) THEN "none" ELSE pool[u]]
    /\ UNCHANGED <<panelVars, cursor, request, folder, foreign, file>>

-----------------------------------------------------------------------------
\* createUpload on the server.
SessionServe(u) ==
    /\ request[u] = "session"
    /\ \/ /\ DirOf[u] = <<>> \/ DirOf[u] \in folder
          /\ file' = [file EXCEPT ![u] = "open"]
          /\ request' = [request EXCEPT ![u] = "opened"]
       \/ /\ DirOf[u] # <<>> /\ DirOf[u] \notin folder
          /\ request' = [request EXCEPT ![u] = "refused"] /\ UNCHANGED file
    /\ UNCHANGED <<entry, panelVars, dir, cursor, pool, folder, foreign, faults>>

\* (Not the code: the cancellation is not looked for after the answer.)
SessionOpenedAnyway(u) ==
    /\ request[u] = "opened"
    /\ controllers' = controllers \union {u}
    /\ entry' = [entry EXCEPT ![u].fileId = entry[u].state # "none"]
    /\ request' = [request EXCEPT ![u] = "parts"]
    /\ UNCHANGED <<undo, pool, cancelled, created, timer, canceller, raced, dir, cursor,
                   serverVars>>

\* beginUpload's answer: a session made for a cancelled upload is undone.
SessionOpened(u) ==
    /\ request[u] = "opened"
    /\ IF u \in cancelled
       THEN /\ undo' = undo \union {u}
            /\ request' = [request EXCEPT ![u] = "none"]
            /\ pool' = [pool EXCEPT ![u] = "none"]
            /\ UNCHANGED <<entry, controllers>>
       ELSE /\ controllers' = controllers \union {u}
            /\ entry' = [entry EXCEPT ![u].fileId = entry[u].state # "none"]
            /\ request' = [request EXCEPT ![u] = "parts"]
            /\ UNCHANGED <<undo, pool>>
    /\ UNCHANGED <<cancelled, created, timer, canceller, raced, dir, cursor, serverVars>>

\* runLoop's requests on the server: the bytes of an open upload arrive.
PartsServe(u) ==
    /\ request[u] = "parts"
    /\ \/ /\ file[u] = "open"
          /\ file' = [file EXCEPT ![u] = "received"]
          /\ request' = [request EXCEPT ![u] = "sent"]
       \/ /\ file[u] # "open"
          /\ request' = [request EXCEPT ![u] = "refused"] /\ UNCHANGED file
    /\ UNCHANGED <<entry, panelVars, dir, cursor, pool, folder, foreign, faults>>

\* The loop of u, and beginUpload's await of it, end.
Ends(u) ==
    /\ request' = [request EXCEPT ![u] = "none"]
    /\ pool' = [pool EXCEPT ![u] = "none"]
    /\ UNCHANGED <<cancelled, created, canceller, undo, raced, dir, cursor>>

\* A cancelled loop stops at the next part.
LoopStops(u) ==
    /\ request[u] \in {"parts", "sent"} /\ u \in cancelled
    /\ Ends(u) /\ UNCHANGED <<entry, controllers, timer, serverVars>>

\* All parts are in: "Uploaded", and the dismissal timer starts.
LoopCompletes(u) ==
    /\ request[u] = "sent" /\ u \notin cancelled
    /\ entry' = Patched(u, "syncing")
    /\ controllers' = controllers \ {u} /\ timer' = timer \union {u}
    /\ Ends(u) /\ UNCHANGED serverVars

\* A refused or lost session or part request: an error to retry, unless cancelled.
RequestFails(u, lost) ==
    /\ IF lost THEN request[u] \in {"session", "opened", "parts", "sent"}
                    /\ faults > 0 /\ faults' = faults - 1
       ELSE request[u] = "refused" /\ UNCHANGED faults
    /\ entry' = IF u \in cancelled THEN entry ELSE Patched(u, "error")
    /\ Ends(u) /\ UNCHANGED <<controllers, timer, folder, foreign, file>>

\* (Not the code: each file of a batch goes by itself.)
DismissedAlone(u) == {u}

\* scheduleDismiss: a loose file goes; a batch goes when all of it is uploaded.
Dismissed(u) ==
    IF u \notin Batch THEN {u}
    ELSE IF \A v \in Members(Batch) : entry[v].state = "syncing" THEN Members(Batch) ELSE {}

TimerFires(u) ==
    /\ u \in timer /\ timer' = timer \ {u}
    /\ entry' = [v \in Uploads |-> IF v \in Dismissed(u) THEN Gone ELSE entry[v]]
    /\ controllers' = controllers \ Dismissed(u)
    /\ created' = IF u \in Batch /\ Dismissed(u) # {} THEN <<>> ELSE created
    /\ UNCHANGED <<cancelled, canceller, undo, raced, dir, cursor, pool, request,
                   serverVars>>

-----------------------------------------------------------------------------
\* resumeGroup, offered when the group shows an error: every member that has a
\* controller enters its loop again.
Retry(g) ==
    /\ Members(g) # {} /\ GroupState(g) = "error"
    /\ entry' = [u \in Uploads |-> IF u \in g \intersect controllers
                                   THEN [entry[u] EXCEPT !.state = "uploading"] ELSE entry[u]]
    /\ request' = [u \in Uploads |-> IF u \in g \intersect controllers THEN "parts" ELSE request[u]]
    /\ UNCHANGED <<panelVars, dir, cursor, pool, serverVars>>

\* dismissGroup, offered when nothing of the group is under way.
Dismiss(g) ==
    /\ Members(g) # {} /\ GroupState(g) \in {"error", "syncing"}
    /\ entry' = [u \in Uploads |-> IF u \in g THEN Gone ELSE entry[u]]
    /\ controllers' = controllers \ g
    /\ UNCHANGED <<cancelled, created, timer, canceller, undo, raced, dir, cursor, pool,
                   request, serverVars>>

\* A request of the batch whose answer the page does not have yet.
UnderWay ==
    \/ \E d \in Dirs : dir[d] \in {"waiting", "asked", "found", "made", "refused"}
    \/ \E u \in Batch : request[u] \in {"session", "opened"}

\* confirmCancel and cancelUploads: the entries vanish at once, and what the
\* group has made on the server is deleted in the background.
Cancel(g) ==
    /\ Members(g) # {} /\ GroupState(g) = "uploading"
    /\ cancelled' = cancelled \union g
    /\ entry' = [u \in Uploads |-> IF u \in g THEN Gone ELSE entry[u]]
    /\ controllers' = controllers \ g
    /\ canceller' = [canceller EXCEPT ![g] =
                       [at |-> "files", files |-> {u \in g : entry[u].fileId}, folders |-> <<>>]]
    /\ raced' = (raced \/ (g = Batch /\ UnderWay))
    /\ UNCHANGED <<created, timer, undo, dir, cursor, pool, request, serverVars>>

\* deleteServerFile, from the clean-up: best effort.
CancelDeletesFile(g, u, lost) ==
    /\ canceller[g].at = "files" /\ u \in canceller[g].files
    /\ canceller' = [canceller EXCEPT ![g].files = @ \ {u}]
    /\ IF lost THEN faults > 0 /\ faults' = faults - 1 /\ UNCHANGED file
       ELSE file' = [file EXCEPT ![u] = "gone"] /\ UNCHANGED faults
    /\ UNCHANGED <<entry, controllers, cancelled, created, timer, undo, raced, dir, cursor, pool,
                   request, folder, foreign>>

\* (Not the code: the last folder is forgotten.)
CancelForgetsOne(g) ==
    /\ canceller[g].at = "files" /\ canceller[g].files = {}
    /\ canceller' = [canceller EXCEPT ![g] = [at |-> "folders", files |-> {},
                        folders |-> IF g = Batch /\ created # <<>>
                                    THEN Tail(Reverse(created)) ELSE <<>>]]
    /\ created' = IF g = Batch THEN <<>> ELSE created
    /\ UNCHANGED <<entry, controllers, cancelled, timer, undo, raced, dir, cursor, pool, request,
                   serverVars>>

\* The files are gone: the batch's folders are next, the deepest first.
CancelTurnsToFolders(g) ==
    /\ canceller[g].at = "files" /\ canceller[g].files = {}
    /\ canceller' = [canceller EXCEPT ![g] = [at |-> "folders", files |-> {},
                        folders |-> IF g = Batch THEN Reverse(created) ELSE <<>>]]
    /\ created' = IF g = Batch THEN <<>> ELSE created
    /\ UNCHANGED <<entry, controllers, cancelled, timer, undo, raced, dir, cursor, pool, request,
                   serverVars>>

\* deleteFolderIfEmpty: a folder whose subtree holds files is left alone.
InUse(d) ==
    \E x \in Below(d) : x \in foreign
                        \/ \E u \in Uploads : DirOf[u] = x /\ file[u] \in {"open", "received"}

CancelDeletesFolder(g, lost) ==
    LET d == Head(canceller[g].folders) IN
    /\ canceller[g].at = "folders" /\ canceller[g].folders # <<>>
    /\ canceller' = [canceller EXCEPT ![g].folders = Tail(@)]
    /\ IF lost THEN faults > 0 /\ faults' = faults - 1 /\ UNCHANGED folder
       ELSE folder' = (IF InUse(d) THEN folder ELSE folder \ Below(d)) /\ UNCHANGED faults
    /\ UNCHANGED <<entry, controllers, cancelled, created, timer, undo, raced, dir, cursor, pool,
                   request, foreign, file>>

\* The deletion of a session that was made for a cancelled upload.
Undo(u, lost) ==
    /\ u \in undo /\ undo' = undo \ {u}
    /\ IF lost THEN faults > 0 /\ faults' = faults - 1 /\ UNCHANGED file
       ELSE file' = [file EXCEPT ![u] = "gone"] /\ UNCHANGED faults
    /\ UNCHANGED <<entry, controllers, cancelled, created, timer, canceller, raced, dir, cursor,
                   pool, request, folder, foreign>>

\* The user puts something of their own into a folder of the drop.
UserFills(d) ==
    /\ d \in Fillable /\ d \in folder /\ d \notin foreign
    /\ foreign' = foreign \union {d}
    /\ UNCHANGED <<entry, panelVars, dir, cursor, pool, request, folder, file, faults>>

-----------------------------------------------------------------------------
DirStep == \E d \in Dirs : DirServe(d) \/ DirAnswered(d) \/ DirFails(d, FALSE)
UploadStep(u) == SessionServe(u) \/ SessionOpened(u) \/ PartsServe(u) \/ LoopStops(u)
                 \/ LoopCompletes(u) \/ RequestFails(u, FALSE)
CleanUp(g) == CancelTurnsToFolders(g) \/ CancelDeletesFolder(g, FALSE)
              \/ \E u \in g : CancelDeletesFile(g, u, FALSE)
PanelStep(g) == Retry(g) \/ Dismiss(g) \/ Cancel(g)
Fault == \/ \E d \in Dirs : DirFails(d, TRUE)
         \/ \E u \in Uploads : RequestFails(u, TRUE) \/ Undo(u, TRUE)
         \/ \E g \in Groups : CancelDeletesFolder(g, TRUE)
                              \/ \E u \in g : CancelDeletesFile(g, u, TRUE)

BatchNext ==
    \/ TakeJob
    \/ DirStep
    \/ \E u \in Uploads : UploadStep(u) \/ TimerFires(u) \/ Undo(u, FALSE)
    \/ \E g \in Groups : CleanUp(g) \/ PanelStep(g)
    \/ \E d \in Dirs : UserFills(d)
    \/ Fault

BatchSpec == BatchInit /\ [][BatchNext]_batchVars

\* The browser runs what is due and the server answers; nothing makes the user
\* click, and no request has to fail.
BatchFairSpec ==
    /\ BatchSpec
    /\ WF_batchVars(TakeJob)
    /\ WF_batchVars(DirStep)
    /\ \A u \in Uploads : WF_batchVars(UploadStep(u)) /\ WF_batchVars(Undo(u, FALSE))
                          /\ WF_batchVars(TimerFires(u))
    /\ \A g \in Groups : WF_batchVars(CleanUp(g))
-----------------------------------------------------------------------------
Hurt == faults < MaxFaults

\* Every variable has its type.
BatchTypeOK ==
    /\ entry \in [Uploads -> [state : {"none", "uploading", "error", "syncing"}, fileId : BOOLEAN]]
    /\ controllers \subseteq Uploads /\ cancelled \subseteq Uploads /\ timer \subseteq Uploads
    /\ undo \subseteq Uploads
    /\ ToSet(created) \subseteq Dirs /\ Cardinality(ToSet(created)) = Len(created)
    /\ dir \in [Dirs -> {"none", "waiting", "asked", "found", "made", "refused", "done", "failed"}]
    /\ cursor \in 1..Len(Job) + 1
    /\ pool \in [Uploads -> {"none", "dir", "session"}] /\ Cardinality(Busy) <= Concurrency
    /\ request \in [Uploads -> {"none", "session", "opened", "parts", "sent", "refused"}]
    /\ \A g \in Groups : canceller[g].at \in {"none", "files", "folders"}
                         /\ canceller[g].files \subseteq g
    /\ folder \subseteq Dirs /\ foreign \subseteq folder
    /\ file \in [Uploads -> {"none", "open", "received", "gone"}]
    /\ faults \in 0..MaxFaults /\ raced \in BOOLEAN

\* The files of a dropped folder leave the panel together, however they end:
\* its progress has one denominator.
LeavesTogether ==
    \A u, v \in Batch : entry[u].state = "none" => entry[v].state = "none"

\* Cleaning up removes folders the drop has made, never one the user had
\* before or has put something in.
OnlyOwnFoldersGo ==
    [][\A d \in folder \ folder' : d \notin PreExisting /\ d \notin foreign]_batchVars

\* A cancelled upload leaves no file on the server, whatever request was under
\* way when it was cancelled, unless a request failed.
CancelledFilesGo ==
    \A u \in Uploads : <>[](u \in cancelled => file[u] \in {"none", "gone"} \/ Hurt)

Leftover(d) == d \in folder \ PreExisting /\ Below(d) \intersect foreign = {}

\* A folder whose upload is cancelled while none of its folders or sessions is
\* just being made leaves no folder behind, unless a request failed.
CancelledFoldersGo ==
    <>[](Batch \subseteq cancelled /\ ~raced /\ ~Hurt => \A d \in Dirs : ~Leftover(d))

\* What uploads.ts says: a cancelled upload leaves no half-arrived folder.
NoHalfArrivedFolder ==
    <>[](Batch \subseteq cancelled /\ ~Hurt => \A d \in Dirs : ~Leftover(d))

\* No file of a drop waits for ever: its upload completes, fails or is cancelled.
UploadsEnd ==
    \A u \in Uploads : entry[u].state = "uploading" ~> entry[u].state # "uploading"
=============================================================================
