------------------------------- MODULE Drive --------------------------------
(***************************************************************************)
(* The folder tree of one account and the requests that read and change    *)
(* it (folders.service.ts, and the parts of files.service.ts that place,   *)
(* move, delete and zip files).  A request holds no lock: each of its      *)
(* database statements is atomic, and other requests run between any two.  *)
(* A step here is one statement, with the code up to the next one.         *)
(***************************************************************************)
EXTENDS Forest, Integers, FiniteSets, SequencesExt

CONSTANTS
    Files,              \* rows that exist or may be created, like Folders
    Names,
    Requests,           \* each is used once: bounds the concurrency
    Operations,         \* what a request may ask for
    Movers,             \* the requests that may move a folder
    StartStates,        \* the trees a behaviour may start from
    WalkLimit,          \* 200 in isDescendantOrSelf and listDrive
    CountDepth,         \* 1000 in syncingCountsFor
    BatchSize,          \* DELETE_BATCH_SIZE
    TreeEntries         \* DELETED_TREE_MAX_ENTRIES

ASSUME LimitsAssumption == /\ WalkLimit \in Nat /\ TreeEntries \in Nat
                           /\ CountDepth \in Nat \ {0} /\ BatchSize \in Nat \ {0}

OnFolder == {"rename", "move", "list", "delete", "ifEmpty", "zip"}
OnFile == {"moveFile", "upload", "deleteFile"}

\* What a request carries; ids it names are ids of folders and files.
ASSUME OperationsAssumption ==
    /\ Operations \subseteq [kind : OnFolder \union OnFile \union {"create", "ensure"},
                             folder : Folders \union {Root}, to : Folders \union {Root},
                             path : Seq(Names), file : Files \union {Root}]
    /\ \A o \in Operations : /\ o.kind \in OnFolder => o.folder \in Folders
                             /\ o.kind \in OnFile => o.file \in Files
                             /\ o.kind = "ensure" => o.path # <<>>
                             /\ o.kind \in {"create", "rename"} => Len(o.path) = 1

\* A behaviour starts from a database the schema and the service allow: the
\* folders are a forest, and foreign keys lead to rows.
ASSUME StartAssumption ==
    \A s \in StartStates :
        /\ s.parent \in [Folders -> Folders \union {Root, Unborn}] /\ s.name \in [Folders -> Names]
        /\ s.place \in [Files -> Folders \union {Root, Unborn}]
        /\ s.status \in [Files -> {"UPLOADING", "READY", "LOST"}]
        /\ \A S \in SUBSET Folders : (\A f \in S : s.parent[f] \in S) => S = {}
        /\ \A f \in Folders : s.parent[f] \in Folders => s.parent[s.parent[f]] # Unborn
        /\ \A x \in Files : s.place[x] \in Folders => s.parent[s.place[x]] # Unborn

VARIABLES           \* and parent (Folder.parentId), from Forest
    name,       \* Folder.name
    place,      \* File.folderId
    status,     \* File.status; a stored file has one message, named like it
    trash,      \* files whose messages were enqueued for deletion
    req,        \* the requests
    stirred     \* files moved, created or finished since the start (history)

driveVars == <<parent, name, place, status, trash, req, stirred>>

NoRow == {Unborn, Gone}
FolderExists(f) == f \in Folders /\ parent[f] \notin NoRow
FileExists(x) == place[x] \notin NoRow
\* What a foreign key, or a check of the service, asks of a target.
Target(p) == p = Root \/ FolderExists(p)

\* The folders of S and everything below them (ON DELETE CASCADE): what every
\* closed set that contains S contains.
Under(S) == {f \in Folders : \A T \in SUBSET Folders : S \subseteq T /\ Closed(T) => f \in T}
FilesIn(S) == {x \in Files : place[x] \in S}

\* @@unique([ownerId, parentId, name]): null parents are all distinct.
Taken(p, n, ignore) == \E f \in Folders \ {ignore} : parent[f] = p /\ name[f] = n
Unique(p, n, ignore) == p = Root \/ ~Taken(p, n, ignore)

NoOp == [kind |-> "none", folder |-> Root, to |-> Root, path |-> <<>>, file |-> Root]
Idle == [op |-> NoOp, at |-> "idle", cursor |-> Root, depth |-> 0, path |-> <<>>,
         seen |-> {}, frontier |-> {}, files |-> {}]

DriveInit ==
    /\ \E s \in StartStates : /\ parent = s.parent /\ name = s.name
                              /\ place = s.place /\ status = s.status
    /\ trash = {} /\ stirred = {}
    /\ req = [r \in Requests |-> Idle]

At(r, l) == req[r].at = l
Is(r, k) == req[r].op.kind = k
Goes(r, l) == req' = [req EXCEPT ![r].at = l]
Ends(r) == Goes(r, "end")
TreeKept == UNCHANGED <<parent, name>>
FilesKept == UNCHANGED <<place, status, stirred>>
DriveKept == TreeKept /\ FilesKept /\ UNCHANGED trash
-----------------------------------------------------------------------------
\* The request and its first read: the folder or file it is about.
FirstStep(o) ==
    CASE o.kind = "create" -> IF Target(o.to) THEN "name" ELSE "end"
      [] o.kind = "ensure" -> IF Target(o.to) THEN "find" ELSE "end"
      [] o.kind = "rename" -> IF FolderExists(o.folder) THEN "name" ELSE "end"
      [] o.kind = "move" -> IF ~FolderExists(o.folder) THEN "end"
                            ELSE IF o.to = Root THEN "name" ELSE "climb"
      [] o.kind = "list" -> IF FolderExists(o.folder) THEN "climb" ELSE "end"
      [] o.kind \in {"delete", "ifEmpty", "zip"} ->
            IF FolderExists(o.folder) THEN "walk" ELSE "end"
      [] o.kind = "moveFile" -> IF FileExists(o.file) /\ Target(o.to) THEN "put" ELSE "end"
      [] o.kind = "upload" -> IF Target(o.to) THEN "put" ELSE "end"
      [] o.kind = "deleteFile" -> IF FileExists(o.file) THEN "unlink" ELSE "end"

Begin(r, o) ==
    /\ At(r, "idle")
    /\ o.kind = "move" => r \in Movers
    /\ o.kind = "upload" => place[o.file] = Unborn
    /\ req' = [req EXCEPT ![r] =
         [op |-> o, at |-> FirstStep(o), depth |-> 0,
          cursor |-> IF o.kind = "list" THEN o.folder
                     ELSE IF o.kind = "rename" THEN parent[o.folder] ELSE o.to,
          path |-> IF o.kind = "move" THEN <<name[o.folder]>> ELSE o.path,
          seen |-> {o.folder}, frontier |-> {o.folder},
          files |-> IF o.kind = "deleteFile" /\ status[o.file] # "UPLOADING"
                    THEN {o.file} ELSE {}]]
    /\ DriveKept

\* assertNameFree, with the parent and name as they were read before.
NewName(r) == Head(req[r].path)
NewParent(r) == IF Is(r, "move") THEN req[r].op.to ELSE req[r].cursor
Self(r) == IF Is(r, "create") THEN Root ELSE req[r].op.folder

CheckName(r) ==
    /\ At(r, "name")
    /\ IF Taken(NewParent(r), NewName(r), Self(r)) THEN Ends(r)
       ELSE Goes(r, IF Is(r, "create") THEN "insert" ELSE "update")
    /\ DriveKept

\* ensureFolderPath: the next segment is reused if it exists, else created.
NextSegment(q, f) ==
    [q EXCEPT !.cursor = f, !.path = Tail(@), !.at = IF Len(q.path) = 1 THEN "end" ELSE "find"]

FindSegment(r) ==
    /\ At(r, "find")
    /\ LET found == {f \in Folders : parent[f] = req[r].cursor /\ name[f] = Head(req[r].path)}
       IN  IF found = {} THEN Goes(r, "insert")
           ELSE \E f \in found :
                req' = [req EXCEPT ![r] = NextSegment(@, f)]
    /\ DriveKept

\* folder.create: the foreign key and the unique index may refuse it.
InsertFolder(r) ==
    LET p == req[r].cursor  n == Head(req[r].path) IN
    /\ At(r, "insert")
    /\ Target(p) /\ Unique(p, n, Root)
    /\ \E f \in Folders :
         /\ parent[f] = Unborn
         /\ parent' = [parent EXCEPT ![f] = p]
         /\ name' = [name EXCEPT ![f] = n]
         /\ req' = [req EXCEPT ![r] = NextSegment(@, f)]
    /\ FilesKept /\ UNCHANGED trash

\* (No unborn folder left: the bound of the instance refuses it.)
InsertRefused(r) ==
    /\ At(r, "insert")
    /\ \/ ~Target(req[r].cursor) \/ ~Unique(req[r].cursor, Head(req[r].path), Root)
       \/ \A f \in Folders : parent[f] # Unborn
    /\ Ends(r) /\ DriveKept

\* (Not the code: only the target itself is compared with the folder.)
ClimbNowhere(r) ==
    /\ At(r, "climb")
    /\ Goes(r, IF req[r].cursor = req[r].op.folder THEN "end" ELSE "name")
    /\ DriveKept

\* isDescendantOrSelf, and the breadcrumb of listDrive: one parent a step.
Climb(r) ==
    LET c == req[r].cursor IN
    /\ At(r, "climb")
    /\ IF Is(r, "move") /\ c = req[r].op.folder THEN Ends(r)       \* FOLDER_CYCLE
       ELSE IF ~FolderExists(c) THEN Goes(r, IF Is(r, "move") THEN "end" ELSE "walk")
       ELSE req' = [req EXCEPT ![r] =
              [@ EXCEPT !.depth = req[r].depth + 1, !.cursor = parent[c],
                 !.at = IF parent[c] # Root /\ req[r].depth + 1 < WalkLimit THEN "climb"
                        ELSE IF Is(r, "list") THEN "walk" ELSE "name"]]
    /\ DriveKept

\* updateFolder's write; a folder moved is hung under op.to.
UpdateFolder(r) ==
    LET f == req[r].op.folder
        p == IF Is(r, "move") THEN req[r].op.to ELSE parent[f]
        n == IF Is(r, "rename") THEN NewName(r) ELSE name[f]
    IN
    /\ At(r, "update")
    /\ IF FolderExists(f) /\ Target(p) /\ Unique(p, n, f)
       THEN /\ parent' = [parent EXCEPT ![f] = p]
            /\ name' = [name EXCEPT ![f] = n]
            /\ stirred' = IF Is(r, "move") THEN stirred \union FilesIn(Under({f})) ELSE stirred
       ELSE UNCHANGED <<parent, name, stirred>>
    /\ Ends(r)
    /\ UNCHANGED <<place, status, trash>>
-----------------------------------------------------------------------------
\* The subtree, breadth first, one query a level.
Walk(r) ==
    LET children == {f \in Folders : parent[f] \in req[r].frontier}
        after == CASE Is(r, "delete") -> "gather" [] Is(r, "zip") -> "collect"
                   [] Is(r, "ifEmpty") -> "count" [] OTHER -> "end"
    IN
    /\ At(r, "walk")
    /\ req' = [req EXCEPT ![r] =
         [@ EXCEPT !.seen = req[r].seen \union children, !.frontier = children,
                   !.at = IF children = {} THEN after ELSE "walk"]]
    /\ DriveKept

\* (Not the code: the files of the folder itself only; no folder at all.)
GatherTop(r) ==
    /\ At(r, "gather")
    /\ req' = [req EXCEPT ![r] =
         [@ EXCEPT !.at = "batch",
                   !.files = {x \in FilesIn({req[r].op.folder}) : status[x] # "UPLOADING"}]]
    /\ DriveKept

GatherAnywhere(r) ==
    /\ At(r, "gather")
    /\ req' = [req EXCEPT ![r] =
         [@ EXCEPT !.at = "batch",
                   !.files = {x \in Files : FileExists(x) /\ status[x] # "UPLOADING"}]]
    /\ DriveKept

\* deleteFolder: the message ids of the chunks are read before any delete.
Gather(r) ==
    /\ At(r, "gather")
    /\ req' = [req EXCEPT ![r] =
         [@ EXCEPT !.at = "batch",
                   !.files = {x \in FilesIn(req[r].seen) : status[x] # "UPLOADING"}]]
    /\ DriveKept

\* The ids of a batch are read, then deleted; the batch replaces frontier.
ReadBatch(r) ==
    LET left == FilesIn(req[r].seen) IN
    /\ At(r, "batch")
    /\ IF left = {} THEN Goes(r, "tree")
       ELSE \E b \in SUBSET left :
              /\ b # {} /\ Cardinality(b) =< BatchSize
              /\ Cardinality(b) < BatchSize => b = left
              /\ req' = [req EXCEPT ![r] = [@ EXCEPT !.frontier = b, !.at = "rows"]]
    /\ DriveKept

DeleteRows(S) == place' = [x \in Files |-> IF x \in S /\ FileExists(x) THEN Gone ELSE place[x]]

DeleteBatch(r) ==
    /\ At(r, "rows")
    /\ DeleteRows(req[r].frontier)
    /\ Goes(r, "batch")
    /\ TreeKept /\ UNCHANGED <<status, stirred, trash>>

\* (Not the code: the subfolders stay, without their parent.)
CascadeOneLevel(S) ==
    /\ parent' = [f \in Folders |-> IF f \in S /\ FolderExists(f) THEN Gone ELSE parent[f]]
    /\ DeleteRows(FilesIn(S))
    /\ UNCHANGED <<name, status, stirred, trash>>

\* A deleted folder takes its folders and its files with it.
Cascade(S) ==
    LET rows == Under(S) IN
    /\ parent' = [f \in Folders |-> IF f \in rows /\ FolderExists(f) THEN Gone ELSE parent[f]]
    /\ DeleteRows(FilesIn(rows))
    /\ UNCHANGED <<name, status, stirred, trash>>

DeleteTree(r) == At(r, "tree") /\ Cascade(req[r].seen) /\ Goes(r, "sweep")

\* The messages-delete jobs (at most one batch of ids here).
Sweep(r) ==
    /\ At(r, "sweep")
    /\ trash' = trash \union req[r].files
    /\ Ends(r) /\ TreeKept /\ FilesKept

\* (Not the code: the folder's own files only.)
CountOwnFiles(r) ==
    /\ At(r, "count")
    /\ IF \E x \in FilesIn({req[r].op.folder}) : status[x] # "LOST"
       THEN Ends(r) ELSE Goes(r, "drop")
    /\ DriveKept

\* deleteFolderIfEmpty: fileCount leaves the LOST files out.
CountFiles(r) ==
    /\ At(r, "count")
    /\ IF \E x \in FilesIn(req[r].seen) : status[x] # "LOST" THEN Ends(r) ELSE Goes(r, "drop")
    /\ DriveKept

DropFolder(r) ==
    /\ At(r, "drop")
    /\ IF FolderExists(req[r].op.folder) THEN Cascade({req[r].op.folder}) ELSE DriveKept
    /\ Ends(r)

\* (Not the code: the folder's own files only.)
CollectTop(r) ==
    /\ At(r, "collect")
    /\ req' = [req EXCEPT ![r] =
         [@ EXCEPT !.at = "end",
                   !.files = {x \in FilesIn({req[r].op.folder}) : status[x] = "READY"}]]
    /\ DriveKept

\* prepareZip: the READY files of the folders seen.
Collect(r) ==
    /\ At(r, "collect")
    /\ req' = [req EXCEPT ![r] =
         [@ EXCEPT !.at = "end",
                   !.files = {x \in FilesIn(req[r].seen) : status[x] = "READY"}]]
    /\ DriveKept
-----------------------------------------------------------------------------
\* updateFile's write, and createUpload's.
PutFile(r) ==
    LET x == req[r].op.file IN
    /\ At(r, "put")
    /\ IF Target(req[r].op.to) /\ IF Is(r, "upload") THEN place[x] = Unborn ELSE FileExists(x)
       THEN place' = [place EXCEPT ![x] = req[r].op.to] /\ stirred' = stirred \union {x}
       ELSE UNCHANGED <<place, stirred>>
    /\ Ends(r)
    /\ TreeKept /\ UNCHANGED <<status, trash>>

\* removeFileEverywhere, with the chunks read before.
DeleteFile(r) ==
    /\ At(r, "unlink")
    /\ DeleteRows({req[r].op.file})
    /\ Goes(r, IF FileExists(req[r].op.file) THEN "sweep" ELSE "end")
    /\ TreeKept /\ UNCHANGED <<status, stirred, trash>>

\* The storage engine finishes an upload meanwhile.
UploadFinishes(x) ==
    /\ FileExists(x) /\ status[x] = "UPLOADING"
    /\ status' = [status EXCEPT ![x] = "READY"]
    /\ stirred' = stirred \union {x}
    /\ TreeKept /\ UNCHANGED <<place, trash, req>>

Step(r) ==
    \/ CheckName(r) \/ FindSegment(r) \/ InsertFolder(r) \/ InsertRefused(r)
    \/ Climb(r) \/ UpdateFolder(r) \/ Walk(r) \/ Gather(r) \/ ReadBatch(r)
    \/ DeleteBatch(r) \/ DeleteTree(r) \/ Sweep(r) \/ CountFiles(r) \/ DropFolder(r)
    \/ Collect(r) \/ PutFile(r) \/ DeleteFile(r)

DriveNext ==
    \/ \E r \in Requests : Step(r) \/ \E o \in Operations : Begin(r, o)
    \/ \E x \in Files : UploadFinishes(x)

DriveSpec == DriveInit /\ [][DriveNext]_driveVars
\* Statements of a request that has begun are answered.
DriveFairSpec == DriveSpec /\ \A r \in Requests : WF_driveVars(Step(r))
-----------------------------------------------------------------------------
\* A loop: its states, round by round.
Rounds(step, start) ==
    LET after[n \in Nat] == IF n = 0 THEN start ELSE step[after[n - 1]]
    IN  after

\* syncingCountsFor: each uploading file counts toward the first of the listed
\* folders on its way up, as far as the loop looks.
ListedAbove(x, listed) ==
    LET up == [c \in Folders \union NotFolders |-> IF c \in Folders \ listed THEN parent[c] ELSE c]
        last == Rounds(up, place[x])[CountDepth - 1]
    IN  IF last \in listed THEN last ELSE Root

\* (Not the code: failed and lost files count as on their way.)
SyncingCountNotReady(f, listed) ==
    Cardinality({x \in Files : status[x] # "READY" /\ ListedAbove(x, listed) = f})

SyncingCount(f, listed) ==
    Cardinality({x \in Files : status[x] = "UPLOADING" /\ ListedAbove(x, listed) = f})

\* buildDeletedTree: what is left of the budget, whether something was left out,
\* and the folders still to be built, nearest first.
TreeState == [todo : Seq(Folders), left : Nat, cut : BOOLEAN]

\* build(f): its files as far as they fit, then its children before the others.
Build(root, f, others, left, cut) ==
    LET files == Cardinality(FilesIn({f}))
    IN  [todo |-> SetToSeq({c \in Folders \ {root} : parent[c] = f}) \o others,
         left |-> IF files > left THEN 0 ELSE left - files,
         cut |-> cut \/ files > left]

\* (Not the code: a folder costs nothing.)
BuildNextFree(root, s) ==
    IF s.todo = <<>> THEN s
    ELSE IF s.left = 0 THEN [s EXCEPT !.todo = <<>>, !.cut = TRUE]
    ELSE Build(root, Head(s.todo), Tail(s.todo), s.left, s.cut)

\* The next child; without budget the loop over the children is left, and so are
\* those of all the folders above.
BuildNext(root, s) ==
    IF s.todo = <<>> THEN s
    ELSE IF s.left = 0 THEN [s EXCEPT !.todo = <<>>, !.cut = TRUE]
    ELSE Build(root, Head(s.todo), Tail(s.todo), s.left - 1, s.cut)

DeletedTree(root) ==
    Rounds([s \in TreeState |-> BuildNext(root, s)],
           Build(root, root, <<>>, TreeEntries, FALSE))[Cardinality(Folders)]
-----------------------------------------------------------------------------
\* Every variable has its type.
DriveTypeOK ==
    /\ parent \in [Folders -> Folders \union {Root, Unborn, Gone}]
    /\ name \in [Folders -> Names]
    /\ place \in [Files -> Folders \union {Root, Unborn, Gone}]
    /\ status \in [Files -> {"UPLOADING", "READY", "LOST"}]
    /\ trash \subseteq Files /\ stirred \subseteq Files
    /\ \A r \in Requests : req[r].seen \subseteq Folders \union {Root}

\* Two properties come from Forest: Acyclic (the tree is cycle-proof: no
\* folders orbit each other, out of every listing's reach) and ForestSpec
\* (however the statements interleave, each step on the tree is one of the
\* abstract forest's, a folder hung only where it is safe at that moment).

\* The one way a file that still exists loses its message: it was moved out of
\* a folder tree whose deletion had already noted its message.
TrashedOnlyIfMovedOut ==
    \A x \in trash : FileExists(x) =>
        /\ x \in stirred
        /\ \E r \in Requests : /\ Is(r, "delete") /\ x \in req[r].files
                               /\ place[x] \notin req[r].seen

\* deleteFolder forgets no message: when the requests are done, a stored file
\* that nobody moved or finished meanwhile and that is gone is also swept.
DeletedIsSwept ==
    (\A r \in Requests : req[r].at \in {"idle", "end"}) =>
        \A x \in Files \ stirred : place[x] = Gone /\ status[x] = "READY" => x \in trash

\* Nothing but a request to delete it, or to delete a folder above it, removes
\* a stored file: an onlyIfEmpty cleanup takes no data that was there.
DataGoesByRequestOnly ==
    [][\A x \in Files \ stirred :
         FileExists(x) /\ status[x] = "READY" /\ place'[x] = Gone =>
           \E r \in Requests :
             \/ Is(r, "deleteFile") /\ req[r].op.file = x
             \/ Is(r, "delete") /\ x \in FilesIn(Under({req[r].op.folder}))]_driveVars

\* A zip holds every ready file that was below the folder all along.
ZipComplete ==
    \A r \in Requests : Is(r, "zip") /\ At(r, "end") =>
        \A x \in Files \ stirred :
            status[x] = "READY" /\ x \in FilesIn(Under({req[r].op.folder})) => x \in req[r].files

\* The upward walk of the sync counts agrees with the downward walk of the
\* totals: in a listing, a folder's count is of the uploading files below it.
SyncingCountsAgree ==
    \A p \in Folders \union {Root} :
        LET listed == {f \in Folders : parent[f] = p}
        IN  \A f \in listed : SyncingCount(f, listed) =
              Cardinality({x \in FilesIn(Under({f})) : status[x] = "UPLOADING"})

\* The tree in the activity log holds as many entries as fit, and says it was
\* truncated exactly when something is missing.
DeletedTreeHonest ==
    \A f \in Folders : FolderExists(f) =>
        LET all == Cardinality(FilesIn(Under({f}))) + Cardinality(Under({f})) - 1
            tree == DeletedTree(f)
        IN  /\ TreeEntries - tree.left = IF all < TreeEntries THEN all ELSE TreeEntries
            /\ tree.cut <=> all > TreeEntries

\* Every request ends: no walk over the tree goes round for ever, and the
\* batches of a deletion run out.
RequestsEnd == \A r \in Requests : req[r].at # "idle" ~> req[r].at = "end"
=============================================================================
