-------------------------- MODULE UploadBatchProofs --------------------------
(* For any drop: cleaning up after a cancelled upload removes no folder the  *)
(* user had before, and none the user has put something into, however the    *)
(* answers, retries, cancellations and failures are interleaved.             *)
EXTENDS UploadBatch, FiniteSetTheorems, TLAPS

\* What the drop may call its own.
Own == Dirs \ PreExisting

\* The folders that were there before stay; what a request has made, what the
\* panel has recorded of it and what a clean-up has yet to delete is the drop's.
OwnInv ==
  /\ PreExisting \subseteq folder
  /\ DOMAIN dir = Dirs
  /\ \A d \in Dirs : dir[d] = "made" => d \in Own
  /\ created \in Seq(Own)
  /\ canceller \in [Groups -> [at : {"none", "files", "folders"}, files : SUBSET Uploads,
                               folders : Seq(Own)]]

\* The deepest folder first: the list is turned round, and stays what it was.
LEMMA ReversedOwn == \A s \in Seq(Own) : Reverse(s) \in Seq(Own)
  BY DEF Reverse

\* What is below a folder of the drop was not there before.
LEMMA BelowOwn == \A d \in Own : Below(d) \cap PreExisting = {}
  BY DropAssumption DEF Own, Below

\* Only the clean-up's deletions take folders away, and only such folders.
LEMMA OwnStep == OwnInv /\ [BatchNext]_batchVars =>
                   OwnInv' /\ \A d \in folder \ folder' : d \notin PreExisting /\ d \notin foreign
<1> SUFFICES ASSUME OwnInv, [BatchNext]_batchVars
             PROVE  OwnInv' /\ \A d \in folder \ folder' : d \notin PreExisting /\ d \notin foreign
  OBVIOUS
<1> DEFINE Kept == OwnInv' /\ \A d \in folder \ folder' : d \notin PreExisting /\ d \notin foreign
<1> USE DEF OwnInv
<1>a. ASSUME UNCHANGED <<folder, dir, created, canceller>> PROVE Kept
  BY <1>a
<1>b. ASSUME UNCHANGED <<folder, created, canceller>>,
             DOMAIN dir' = Dirs,
             \A x \in Dirs : dir'[x] = "made" => dir[x] = "made"
      PROVE  Kept
  BY <1>b
<1>1. CASE TakeJob
  <2> DEFINE d == DirOf[Job[cursor]]
  <2>1. UNCHANGED <<folder, created, canceller>>
    BY <1>1 DEF TakeJob, panelVars, serverVars
  <2>2. dir' = dir \/ dir' = Ensured(d)
    BY <1>1 DEF TakeJob
  <2>3. DOMAIN Ensured(d) = Dirs /\ \A x \in Dirs : Ensured(d)[x] = "made" => dir[x] = "made"
    BY DEF Ensured
  <2> QED BY <2>1, <2>2, <2>3
<1>2. ASSUME NEW d \in Dirs, DirServe(d) PROVE Kept
  <2>1. UNCHANGED <<created, canceller>>
    BY <1>2 DEF DirServe, panelVars
  <2>2. CASE d \in folder \/ (Len(d) > 1 /\ Front(d) \notin folder)
    BY <1>2, <2>1, <2>2 DEF DirServe
  <2>3. CASE d \notin folder /\ dir' = [dir EXCEPT ![d] = "made"] /\ folder' = folder \union {d}
    BY <2>1, <2>3 DEF Own
  <2> QED BY <1>2, <2>1, <2>2, <2>3 DEF DirServe
<1>3. ASSUME NEW d \in Dirs, DirAnswered(d) PROVE Kept
  <2>1. UNCHANGED <<folder, canceller>> /\ DOMAIN dir' = Dirs
        /\ \A x \in Dirs : dir'[x] = "made" => dir[x] = "made"
    BY <1>3 DEF DirAnswered, serverVars
  <2>2. created' \in Seq(Own)
    BY <1>3 DEF DirAnswered, Recorded
  <2> QED BY <2>1, <2>2
<1>4. ASSUME NEW d \in Dirs, NEW lost \in BOOLEAN, DirFails(d, lost) PROVE Kept
  <2>1. UNCHANGED <<folder, created, canceller>> /\ DOMAIN dir' = Dirs
        /\ \A x \in Dirs : dir'[x] = "made" => dir[x] = "made"
    BY <1>4 DEF DirFails, panelVars
  <2> QED BY <2>1
<1>5. ASSUME NEW u \in Uploads, UploadStep(u) \/ TimerFires(u) PROVE Kept
  <2>1. UNCHANGED <<folder, dir, canceller>> /\ (created' = created \/ created' = <<>>)
    BY <1>5 DEF UploadStep, SessionServe, SessionOpened, PartsServe, LoopStops, LoopCompletes,
       RequestFails, TimerFires, Ends, panelVars, serverVars
  <2>2. <<>> \in Seq(Own)
    OBVIOUS
  <2> QED BY <2>1, <2>2
<1>6. ASSUME NEW u \in Uploads, NEW lost \in BOOLEAN, Undo(u, lost) \/ RequestFails(u, lost)
      PROVE  Kept
  BY <1>a, <1>6 DEF Undo, RequestFails, Ends
<1>7. ASSUME NEW g \in Groups, PanelStep(g) PROVE Kept
  <2>1. UNCHANGED <<folder, dir, created>>
    BY <1>7 DEF PanelStep, Retry, Dismiss, Cancel, panelVars, serverVars
  <2>2. CASE Retry(g) \/ Dismiss(g)
    BY <1>a, <2>1, <2>2 DEF Retry, Dismiss, panelVars
  <2>3. CASE Cancel(g)
    <3>1. {u \in g : entry[u].fileId} \subseteq Uploads
      BY DEF Groups, Batch
    <3>2. canceller' = [canceller EXCEPT ![g] =
                          [at |-> "files", files |-> {u \in g : entry[u].fileId}, folders |-> <<>>]]
      BY <2>3 DEF Cancel
    <3>3. <<>> \in Seq(Own)
      OBVIOUS
    <3> QED BY <2>1, <3>1, <3>2, <3>3
  <2> QED BY <1>7, <2>2, <2>3 DEF PanelStep
<1>8. ASSUME NEW g \in Groups, CancelTurnsToFolders(g) PROVE Kept
  <2>1. Reverse(created) \in Seq(Own) /\ <<>> \in Seq(Own)
    BY ReversedOwn
  <2>2. UNCHANGED <<folder, dir>> /\ created' \in Seq(Own)
    BY <1>8, <2>1 DEF CancelTurnsToFolders, serverVars
  <2>3. canceller' = [canceller EXCEPT ![g] = [at |-> "folders", files |-> {},
                        folders |-> IF g = Batch THEN Reverse(created) ELSE <<>>]]
    BY <1>8 DEF CancelTurnsToFolders
  <2> QED BY <2>1, <2>2, <2>3
<1>9. ASSUME NEW g \in Groups, NEW lost \in BOOLEAN, CancelDeletesFolder(g, lost) PROVE Kept
  <2> DEFINE d == Head(canceller[g].folders)
  <2>1. d \in Own /\ Tail(canceller[g].folders) \in Seq(Own)
    BY <1>9 DEF CancelDeletesFolder
  <2>2. UNCHANGED <<dir, created>> /\ canceller' = [canceller EXCEPT ![g].folders = Tail(@)]
    BY <1>9 DEF CancelDeletesFolder
  <2>3. folder' = folder \/ (~InUse(d) /\ folder' = folder \ Below(d))
    BY <1>9 DEF CancelDeletesFolder
  <2>4. ~InUse(d) => Below(d) \cap foreign = {}
    BY DEF InUse
  <2>5. Below(d) \cap PreExisting = {}
    BY <2>1, BelowOwn
  <2>6. OwnInv'
    BY <2>1, <2>2, <2>3, <2>5
  <2> QED BY <2>3, <2>4, <2>5, <2>6
<1>10. ASSUME NEW g \in Groups, NEW u \in g, NEW lost \in BOOLEAN, CancelDeletesFile(g, u, lost)
       PROVE  Kept
  BY <1>10 DEF CancelDeletesFile
<1>11. ASSUME NEW d \in Dirs, UserFills(d) PROVE Kept
  BY <1>a, <1>11 DEF UserFills, panelVars
<1>12. CASE UNCHANGED batchVars
  BY <1>a, <1>12 DEF batchVars
<1> QED
  BY <1>1, <1>2, <1>3, <1>4, <1>5, <1>6, <1>7, <1>8, <1>9, <1>10, <1>11, <1>12
     DEF BatchNext, DirStep, CleanUp, Fault

\* The drop owns what it may delete, in every reachable state of every drop.
THEOREM OwnFoldersOnly == BatchSpec => []OwnInv
<1>1. ASSUME BatchInit PROVE OwnInv
  <2>1. NoCanceller \in [at : {"none", "files", "folders"}, files : SUBSET Uploads,
                         folders : Seq(Own)]
    BY DEF NoCanceller
  <2>2. canceller = [g \in Groups |-> NoCanceller] /\ created = <<>> /\ folder = PreExisting
        /\ dir = [d \in Dirs |-> "none"]
    BY <1>1 DEF BatchInit
  <2>3. created \in Seq(Own)
    BY <2>2
  <2> QED BY <2>1, <2>2, <2>3 DEF OwnInv
<1>2. OwnInv /\ [BatchNext]_batchVars => OwnInv'
  BY OwnStep
<1> QED BY <1>1, <1>2, PTL DEF BatchSpec

\* Cleaning up never takes a folder the user had before or has put something
\* into, for any drop, any number of workers and any failures.
THEOREM OthersKept == BatchSpec => OnlyOwnFoldersGo
<1>1. OwnInv /\ [BatchNext]_batchVars =>
        [\A d \in folder \ folder' : d \notin PreExisting /\ d \notin foreign]_batchVars
  BY OwnStep
<1> QED BY <1>1, OwnFoldersOnly, PTL DEF BatchSpec, OnlyOwnFoldersGo
-----------------------------------------------------------------------------
\* An upload that has not begun: its job waits, or its worker awaits the folder.
Queued(u) == \E i \in cursor..Len(Job) : Job[i] = u
ToCome(u) == Queued(u) \/ pool[u] = "dir"

\* What the panel keeps of each upload.
PanelType ==
  /\ entry \in [Uploads -> [state : {"none", "uploading", "error", "syncing"}, fileId : BOOLEAN]]
  /\ pool \in [Uploads -> {"none", "dir", "session"}]
  /\ request \in [Uploads -> {"none", "session", "opened", "parts", "sent", "refused"}]
  /\ cursor \in Nat \ {0}
  /\ controllers \subseteq Uploads /\ timer \subseteq Uploads

\* It has no request yet, and no worker before its job is taken.
NotBegun ==
  \A u \in Uploads : (Queued(u) => pool[u] = "none") /\ (ToCome(u) => request[u] = "none")

\* An upload that is to come or has a request under way shows as uploading,
\* unless it was cancelled: so the panel offers neither a retry nor a dismissal
\* of its group.
ShownWhileDue ==
  \A u \in Uploads : u \notin cancelled /\ (ToCome(u) \/ request[u] # "none") =>
                       entry[u].state = "uploading"

\* Only an upload the panel shows, that has begun and was not cancelled, has a
\* controller: a retry brings nothing back that has left the panel.
ControllersShown ==
  \A u \in controllers : u \notin cancelled /\ ~ToCome(u) /\ entry[u].state # "none"

\* The dismissal timer runs only for an upload that is through.
TimersLast ==
  \A u \in timer : u \notin controllers /\ ~ToCome(u) /\ request[u] = "none"

PanelInv == /\ PanelType /\ LeavesTogether /\ NotBegun
            /\ ShownWhileDue /\ ControllersShown /\ TimersLast

\* Each upload has one job.
LEMMA JobOnce == \A i, j \in 1..Len(Job) : Job[i] = Job[j] => i = j
<1>1. Job \in Seq(Uploads) /\ ToSet(Job) = Uploads /\ Len(Job) = Cardinality(Uploads)
  BY DropAssumption
<1>2. Len(Job) \in Nat /\ DOMAIN Job = 1..Len(Job)
  BY <1>1
<1>3. Job \in Surjection(1..Len(Job), Uploads)
  BY <1>1, <1>2 DEF ToSet, Surjection
<1>4. IsFiniteSet(1..Len(Job)) /\ Cardinality(1..Len(Job)) = Len(Job)
  <2> DEFINE n == Len(Job)
  <2>1. n \in Int /\ 1 \in Int /\ n >= 0
    BY <1>2
  <2> HIDE DEF n
  <2>2. IsFiniteSet(1..n) /\ Cardinality(1..n) = IF 1 > n THEN 0 ELSE n-1+1
    BY <2>1, FS_Interval
  <2>3. Cardinality(1..n) = n
    BY <2>1, <2>2
  <2> QED BY <2>2, <2>3 DEF n
<1>5. Job \in Injection(1..Len(Job), Uploads)
  BY <1>1, <1>3, <1>4, FS_SurjSameCardinalityImpliesInj
<1> QED BY <1>5 DEF Injection, IsInjective

\* A group is a loose file or the whole batch.
LEMMA GroupKinds == \A g \in Groups : g = Batch \/ \E u \in Uploads \ Batch : g = {u}
  BY DEF Groups

\* What begins no upload and adds no request, controller or timer, and changes no
\* entry but to an error of an upload that is no longer due, keeps the invariant.
LEMMA PanelKept ==
  ASSUME PanelInv, PanelType',
         \A u \in Uploads : /\ u \notin cancelled' => u \notin cancelled
                            /\ ToCome(u)' => ToCome(u)
                            /\ Queued(u)' => pool'[u] = "none"
                            /\ request'[u] # "none" => request[u] # "none"
                            /\ entry'[u].state = "none" <=> entry[u].state = "none",
         \A u \in Uploads : u \notin cancelled' /\ entry[u].state = "uploading"
                              /\ entry'[u].state # "uploading"
                              => ~ToCome(u)' /\ request'[u] = "none",
         controllers' \subseteq controllers, timer' \subseteq timer,
         cancelled' = cancelled
  PROVE  PanelInv'
<1> USE DEF PanelInv
<1>1. LeavesTogether'
  BY DEF LeavesTogether, Batch
<1>2. ShownWhileDue'
  BY DEF ShownWhileDue
<1>3. ControllersShown'
  BY DEF ControllersShown, PanelType
<1>4. TimersLast'
  BY DEF TimersLast, PanelType
<1>5. NotBegun'
  BY DEF NotBegun, PanelType
<1> QED BY <1>1, <1>2, <1>3, <1>4, <1>5

\* A step changes entries of uploads that leave the panel with their whole group only.
LEMMA PanelStepKeeps == PanelInv /\ [BatchNext]_batchVars => PanelInv'
<1> SUFFICES ASSUME PanelInv, [BatchNext]_batchVars PROVE PanelInv'
  OBVIOUS
<1> USE DEF PanelInv, PanelType
<1>a. ASSUME UNCHANGED <<entry, pool, request, cursor, controllers, cancelled, timer>>
      PROVE  PanelInv'
  BY <1>a DEF LeavesTogether, ShownWhileDue, ControllersShown, TimersLast, NotBegun, ToCome,
     Queued
<1>1. ASSUME TakeJob, NEW u, u = Job[cursor] PROVE PanelInv'
  <2>1. /\ cursor <= Len(Job) /\ cursor' = cursor + 1
        /\ UNCHANGED <<controllers, cancelled, timer>>
    BY <1>1 DEF TakeJob, panelVars
  <2>2. \/ u \in cancelled /\ UNCHANGED <<entry, pool, request>>
        \/ u \notin cancelled /\ entry' = Patched(u, "error") /\ UNCHANGED <<pool, request>>
        \/ u \notin cancelled /\ Begin(u)
        \/ u \notin cancelled /\ pool' = [pool EXCEPT ![u] = "dir"] /\ UNCHANGED <<entry, request>>
    BY <1>1 DEF TakeJob
  <2>3. u \in Uploads /\ cursor \in 1..Len(Job) /\ Len(Job) \in Nat
    BY <1>1, <2>1, DropAssumption
  <2>4. Queued(u) /\ ToCome(u) /\ ~Queued(u)'
    <3>1. Queued(u)
      BY <1>1, <2>3 DEF Queued
    <3>2. \A i \in cursor'..Len(Job) : i \in 1..Len(Job) /\ i # cursor
      BY <2>1, <2>3
    <3>3. ~Queued(u)'
      BY <1>1, <2>3, <3>2, JobOnce DEF Queued
    <3> QED BY <3>1, <3>3 DEF ToCome
  <2>5. \A x \in Uploads : Queued(x)' => Queued(x)
    BY <2>1, <2>3 DEF Queued
  <2>6. u \notin controllers /\ u \notin timer
    BY <2>4 DEF ControllersShown, TimersLast
  <2>7. cursor' \in Nat \ {0}
    BY <2>1
  <2>8. CASE u \in cancelled /\ UNCHANGED <<entry, pool, request>>
    BY <2>1, <2>5, <2>7, <2>8, PanelKept DEF ToCome, NotBegun
  <2>9. CASE u \notin cancelled /\ entry' = Patched(u, "error") /\ UNCHANGED <<pool, request>>
    <3>1. pool[u] # "dir" /\ request[u] = "none"
      BY <2>3, <2>4 DEF NotBegun
    <3> QED BY <2>1, <2>3, <2>4, <2>5, <2>7, <2>9, <3>1, PanelKept DEF ToCome, NotBegun, Patched
  <2>10. CASE u \notin cancelled /\ Begin(u)
    <3>1. entry[u].state = "uploading"
      BY <2>3, <2>4, <2>10 DEF ShownWhileDue
    <3>2. pool' = [pool EXCEPT ![u] = "session"] /\ request' = [request EXCEPT ![u] = "session"]
          /\ UNCHANGED entry
      BY <2>10 DEF Begin
    <3>3. PanelType' /\ LeavesTogether'
      BY <2>1, <2>3, <2>7, <3>2 DEF LeavesTogether
    <3>4. ShownWhileDue'
      BY <2>1, <2>3, <2>5, <3>1, <3>2 DEF ShownWhileDue, ToCome
    <3>5. ControllersShown' /\ TimersLast'
      BY <2>1, <2>3, <2>5, <2>6, <3>2 DEF ControllersShown, TimersLast, ToCome
    <3>6. NotBegun'
      BY <2>1, <2>3, <2>4, <2>5, <3>2 DEF NotBegun, ToCome
    <3> QED BY <3>3, <3>4, <3>5, <3>6
  <2>11. CASE u \notin cancelled /\ pool' = [pool EXCEPT ![u] = "dir"]
                /\ UNCHANGED <<entry, request>>
    <3>1. entry[u].state = "uploading"
      BY <2>3, <2>4, <2>11 DEF ShownWhileDue
    <3>3. PanelType' /\ LeavesTogether'
      BY <2>1, <2>3, <2>7, <2>11 DEF LeavesTogether
    <3>4. ShownWhileDue'
      BY <2>1, <2>3, <2>5, <3>1, <2>11 DEF ShownWhileDue, ToCome
    <3>5. ControllersShown' /\ TimersLast'
      BY <2>1, <2>3, <2>5, <2>6, <2>11 DEF ControllersShown, TimersLast, ToCome
    <3>6. NotBegun'
      BY <2>1, <2>3, <2>4, <2>5, <2>11 DEF NotBegun, ToCome
    <3> QED BY <3>3, <3>4, <3>5, <3>6
  <2> QED BY <2>2, <2>8, <2>9, <2>10, <2>11
<1>2. ASSUME NEW d \in Dirs, DirServe(d) \/ UserFills(d) PROVE PanelInv'
  BY <1>a, <1>2 DEF DirServe, UserFills, panelVars
<1>3. ASSUME NEW d \in Dirs, DirAnswered(d) PROVE PanelInv'
  <2>1. /\ UNCHANGED <<entry, controllers, cancelled, timer, cursor>>
        /\ \A u \in Uploads :
             \/ pool'[u] = pool[u] /\ request'[u] = request[u]
             \/ pool[u] = "dir" /\ u \in cancelled /\ pool'[u] = "none" /\ request'[u] = request[u]
             \/ pool[u] = "dir" /\ u \notin cancelled /\ pool'[u] = "session"
                  /\ request'[u] = "session"
    BY <1>3 DEF DirAnswered, WaitFor
  <2>2. PanelType' /\ LeavesTogether'
    BY <1>3, <2>1 DEF LeavesTogether, DirAnswered
  <2>6. \A u \in Uploads : Queued(u)' <=> Queued(u)
    BY <2>1 DEF Queued
  <2>3. ShownWhileDue'
    BY <2>1, <2>6 DEF ShownWhileDue, ToCome
  <2>4. ControllersShown' /\ TimersLast'
    BY <2>1, <2>6 DEF ControllersShown, TimersLast, ToCome
  <2>5. NotBegun'
    BY <2>1, <2>6 DEF NotBegun, ToCome
  <2> QED BY <2>2, <2>3, <2>4, <2>5
<1>4. ASSUME NEW d \in Dirs, NEW lost \in BOOLEAN, DirFails(d, lost) PROVE PanelInv'
  <2> DEFINE W == WaitFor(FailsWith(d))
  <2>1. UNCHANGED <<controllers, cancelled, timer, cursor, request>>
    BY <1>4 DEF DirFails, panelVars
  <2>2. /\ entry' = [u \in Uploads |->
                      IF entry[u].state # "none" /\ u \in W \ cancelled
                      THEN [entry[u] EXCEPT !.state = "error"] ELSE entry[u]]
        /\ pool' = [u \in Uploads |-> IF u \in W THEN "none" ELSE pool[u]]
    BY <1>4 DEF DirFails
  <2>3. \A u \in W : u \in Uploads /\ ToCome(u) /\ ~Queued(u) /\ request[u] = "none"
    BY DEF WaitFor, ToCome, NotBegun
  <2> HIDE DEF W
  <2>4. \A u \in Uploads : Queued(u)' <=> Queued(u)
    BY <2>1 DEF Queued
  <2>5. PanelType'
    BY <2>1, <2>2
  <2>6. \A u \in Uploads : /\ entry'[u].state = "none" <=> entry[u].state = "none"
                           /\ entry'[u].state # entry[u].state => u \in W
                           /\ u \notin W => pool'[u] = pool[u]
                           /\ u \in W => pool'[u] = "none"
    BY <2>2
  <2> QED BY <2>1, <2>3, <2>4, <2>5, <2>6, PanelKept DEF ToCome, NotBegun
<1>5. ASSUME NEW u \in Uploads, SessionServe(u) \/ PartsServe(u) PROVE PanelInv'
  <2>1. UNCHANGED <<entry, pool, cursor, controllers, cancelled, timer>>
        /\ request[u] # "none" /\ request' \in [Uploads -> {"none", "session", "opened", "parts",
                                                            "sent", "refused"}]
        /\ \A x \in Uploads : request'[x] # "none" => request[x] # "none"
    BY <1>5 DEF SessionServe, PartsServe, panelVars
  <2>2. \A x \in Uploads : Queued(x)' <=> Queued(x)
    BY <2>1 DEF Queued
  <2> QED BY <2>1, <2>2, PanelKept DEF ToCome, NotBegun
<1>6. ASSUME NEW u \in Uploads, SessionOpened(u) PROVE PanelInv'
  <2>1. UNCHANGED <<cancelled, timer, cursor>> /\ request[u] = "opened"
    BY <1>6 DEF SessionOpened
  <2>2. ~ToCome(u) /\ u \notin timer
    BY <2>1 DEF NotBegun, TimersLast
  <2>3. \A x \in Uploads : Queued(x)' <=> Queued(x)
    BY <2>1 DEF Queued
  <2>4. CASE u \in cancelled
    <3>1. /\ UNCHANGED <<entry, controllers>>
          /\ request' = [request EXCEPT ![u] = "none"] /\ pool' = [pool EXCEPT ![u] = "none"]
      BY <1>6, <2>4 DEF SessionOpened
    <3> QED BY <2>1, <2>3, <3>1, PanelKept DEF ToCome, NotBegun
  <2>5. CASE u \notin cancelled
    <3>1. /\ UNCHANGED pool /\ controllers' = controllers \union {u}
          /\ entry' = [entry EXCEPT ![u].fileId = entry[u].state # "none"]
          /\ request' = [request EXCEPT ![u] = "parts"]
      BY <1>6, <2>5 DEF SessionOpened
    <3>2. entry[u].state = "uploading"
      BY <2>1, <2>5 DEF ShownWhileDue
    <3>3. entry' = [entry EXCEPT ![u].fileId = TRUE]
      BY <3>1, <3>2
    <3>4. \A x \in Uploads : entry'[x].state = entry[x].state
      BY <3>3
    <3>5. TRUE \in BOOLEAN
      BY Zenon
    <3> DEFINE Row == [state : {"none", "uploading", "error", "syncing"}, fileId : BOOLEAN]
    <3>6. entry[u] \in Row
      OBVIOUS
    <3>7. [entry[u] EXCEPT !.fileId = TRUE] \in Row
      BY <3>5, <3>6, Zenon
    <3>8. entry \in [Uploads -> Row]
      OBVIOUS
    <3> HIDE DEF Row
    <3>9. entry' \in [Uploads -> Row]
      BY <3>3, <3>7, <3>8
    <3>10. PanelType'
      BY <2>1, <3>1, <3>9 DEF Row
    <3>11. LeavesTogether'
      BY <3>4 DEF LeavesTogether, Batch
    <3>12. ShownWhileDue' /\ NotBegun'
      BY <2>1, <2>2, <2>3, <3>1, <3>2, <3>4 DEF ShownWhileDue, NotBegun, ToCome
    <3>13. ControllersShown' /\ TimersLast'
      BY <2>1, <2>2, <2>3, <2>5, <3>1, <3>2, <3>4 DEF ControllersShown, TimersLast, ToCome
    <3> QED BY <3>10, <3>11, <3>12, <3>13
  <2> QED BY <2>4, <2>5
<1>7. ASSUME NEW u \in Uploads, NEW lost \in BOOLEAN, LoopStops(u) \/ RequestFails(u, lost)
      PROVE  PanelInv'
  <2>1. /\ UNCHANGED <<cancelled, cursor, controllers, timer>> /\ request[u] # "none"
        /\ request' = [request EXCEPT ![u] = "none"] /\ pool' = [pool EXCEPT ![u] = "none"]
        /\ entry' = entry \/ entry' = Patched(u, "error")
    BY <1>7 DEF LoopStops, RequestFails, Ends
  <2>2. ~ToCome(u) /\ ~Queued(u)
    BY <2>1 DEF NotBegun, ToCome
  <2>3. \A x \in Uploads : Queued(x)' <=> Queued(x)
    BY <2>1 DEF Queued
  <2>4. /\ entry' \in [Uploads -> [state : {"none", "uploading", "error", "syncing"},
                                   fileId : BOOLEAN]]
        /\ \A x \in Uploads : /\ entry'[x].state = "none" <=> entry[x].state = "none"
                              /\ entry'[x].state # entry[x].state => x = u
    BY <2>1 DEF Patched
  <2> QED BY <2>1, <2>2, <2>3, <2>4, PanelKept, ZenonT(30) DEF ToCome, NotBegun
<1>8. ASSUME NEW u \in Uploads, LoopCompletes(u) PROVE PanelInv'
  <2>1. /\ UNCHANGED <<cancelled, cursor>> /\ request[u] # "none"
        /\ request' = [request EXCEPT ![u] = "none"] /\ pool' = [pool EXCEPT ![u] = "none"]
        /\ entry' = Patched(u, "syncing")
        /\ controllers' = controllers \ {u} /\ timer' = timer \union {u}
    BY <1>8 DEF LoopCompletes, Ends
  <2>2. ~ToCome(u) /\ ~Queued(u)
    BY <2>1 DEF NotBegun, ToCome
  <2>3. \A x \in Uploads : Queued(x)' <=> Queued(x)
    BY <2>1 DEF Queued
  <2>4. /\ entry' \in [Uploads -> [state : {"none", "uploading", "error", "syncing"},
                                   fileId : BOOLEAN]]
        /\ \A x \in Uploads : /\ entry'[x].state = "none" <=> entry[x].state = "none"
                              /\ entry'[x].state # entry[x].state => x = u
    BY <2>1 DEF Patched
  <2>5. PanelType' /\ LeavesTogether'
    BY <2>1, <2>4 DEF LeavesTogether, Batch
  <2>6. ShownWhileDue' /\ NotBegun'
    BY <2>1, <2>2, <2>3, <2>4 DEF ShownWhileDue, NotBegun, ToCome
  <2>7. ControllersShown' /\ TimersLast'
    BY <2>1, <2>2, <2>3, <2>4 DEF ControllersShown, TimersLast, ToCome
  <2> QED BY <2>5, <2>6, <2>7
\* A dismissal, by the timer or the user, or a cancellation: whole groups leave.
<1>b. ASSUME NEW D \in SUBSET Uploads,
             D \cap Batch = {} \/ \A u \in Batch \ D : entry[u].state = "none",
             entry' = [u \in Uploads |-> IF u \in D THEN Gone ELSE entry[u]],
             controllers' = controllers \ D, UNCHANGED <<cursor, pool, request>>,
             timer' \subseteq timer,
             cancelled \subseteq cancelled', cancelled' \subseteq cancelled \union D,
             \A u \in D : u \in cancelled' \/ ~(ToCome(u) \/ request[u] # "none")
      PROVE  PanelInv'
  <2>1. \A x \in Uploads : (Queued(x)' <=> Queued(x)) /\ (ToCome(x)' <=> ToCome(x))
    BY <1>b DEF Queued, ToCome
  <2>2. PanelType'
    BY <1>b DEF Gone
  <2>3. \A x \in Uploads : entry'[x] = IF x \in D THEN Gone ELSE entry[x]
    BY <1>b
  <2>4. LeavesTogether'
    BY <1>b, <2>3 DEF LeavesTogether, Batch, Gone
  <2>5. ShownWhileDue' /\ NotBegun'
    BY <1>b, <2>1, <2>3 DEF ShownWhileDue, NotBegun
  <2>6. ControllersShown' /\ TimersLast'
    BY <1>b, <2>1, <2>3 DEF ControllersShown, TimersLast
  <2> QED BY <2>2, <2>4, <2>5, <2>6
<1>9. ASSUME NEW u \in Uploads, TimerFires(u) PROVE PanelInv'
  <2>1. /\ u \in timer /\ timer' = timer \ {u} /\ UNCHANGED <<cancelled, cursor, pool, request>>
        /\ entry' = [v \in Uploads |-> IF v \in Dismissed(u) THEN Gone ELSE entry[v]]
        /\ controllers' = controllers \ Dismissed(u)
    BY <1>9 DEF TimerFires
  <2>2. ~ToCome(u) /\ request[u] = "none"
    BY <2>1 DEF TimersLast
  <2>3. (Dismissed(u) = {u} /\ u \notin Batch) \/ Dismissed(u) = {} \/ Dismissed(u) = Members(Batch)
    BY DEF Dismissed
  <2>4. Dismissed(u) = Members(Batch) =>
          /\ \A v \in Dismissed(u) : v \in cancelled \/ ~(ToCome(v) \/ request[v] # "none")
          /\ \A v \in Batch \ Dismissed(u) : entry[v].state = "none"
    <3>1. u \notin Batch \/ Dismissed(u) = {}
          \/ \A v \in Members(Batch) : entry[v].state = "syncing"
      BY DEF Dismissed
    <3>2. u \notin Batch => Dismissed(u) = {u}
      BY DEF Dismissed
    <3> QED BY <2>2, <3>1, <3>2 DEF Members, ShownWhileDue, Batch
  <2>5. Dismissed(u) \in SUBSET Uploads
    BY <2>3 DEF Members, Batch
  <2>6. Dismissed(u) \cap Batch = {} \/ \A v \in Batch \ Dismissed(u) : entry[v].state = "none"
    BY <2>3, <2>4
  <2>7. \A v \in Dismissed(u) : v \in cancelled \/ ~(ToCome(v) \/ request[v] # "none")
    BY <2>2, <2>3, <2>4
  <2> HIDE DEF PanelInv, PanelType
  <2> QED BY <1>b, <2>1, <2>5, <2>6, <2>7
<1>10. ASSUME NEW g \in Groups, Dismiss(g) PROVE PanelInv'
  <2>1. /\ GroupState(g) \in {"error", "syncing"}
        /\ entry' = [u \in Uploads |-> IF u \in g THEN Gone ELSE entry[u]]
        /\ controllers' = controllers \ g
        /\ UNCHANGED <<cancelled, timer, cursor, pool, request>>
    BY <1>10 DEF Dismiss
  <2>2. \A u \in g : entry[u].state # "uploading"
    BY <2>1 DEF GroupState
  <2>3. g \in SUBSET Uploads /\ (g \cap Batch = {} \/ g = Batch)
    BY GroupKinds DEF Batch
  <2>4. \A u \in g : u \in cancelled \/ ~(ToCome(u) \/ request[u] # "none")
    BY <2>2, <2>3 DEF ShownWhileDue
  <2> HIDE DEF PanelInv, PanelType
  <2> QED BY <1>b, <2>1, <2>3, <2>4
<1>11. ASSUME NEW g \in Groups, Cancel(g) PROVE PanelInv'
  <2>1. /\ entry' = [u \in Uploads |-> IF u \in g THEN Gone ELSE entry[u]]
        /\ controllers' = controllers \ g /\ cancelled' = cancelled \union g
        /\ UNCHANGED <<timer, cursor, pool, request>>
    BY <1>11 DEF Cancel
  <2>2. g \in SUBSET Uploads /\ (g \cap Batch = {} \/ g = Batch)
    BY GroupKinds DEF Batch
  <2> HIDE DEF PanelInv, PanelType
  <2> QED BY <1>b, <2>1, <2>2
<1>12. ASSUME NEW g \in Groups, Retry(g) PROVE PanelInv'
  <2> DEFINE C == g \intersect controllers
  <2>1. /\ GroupState(g) = "error"
        /\ entry' = [u \in Uploads |-> IF u \in C THEN [entry[u] EXCEPT !.state = "uploading"]
                                       ELSE entry[u]]
        /\ request' = [u \in Uploads |-> IF u \in C THEN "parts" ELSE request[u]]
        /\ UNCHANGED <<controllers, cancelled, timer, cursor, pool>>
    BY <1>12 DEF Retry, panelVars
  <2>2. \A u \in C : u \in controllers /\ u \in Uploads
    OBVIOUS
  <2> HIDE DEF C
  <2>3. \A u \in Uploads : (Queued(u)' <=> Queued(u)) /\ (ToCome(u)' <=> ToCome(u))
    BY <2>1 DEF Queued, ToCome
  <2>4. \A u \in C : entry[u].state # "none" /\ ~ToCome(u) /\ u \notin timer
    BY <2>2 DEF ControllersShown, TimersLast
  <2>5. PanelType'
    BY <2>1
  <2>6. \A u \in Uploads : /\ u \in C => entry'[u].state = "uploading" /\ request'[u] = "parts"
                           /\ u \notin C => entry'[u] = entry[u] /\ request'[u] = request[u]
    BY <2>1
  <2>7. LeavesTogether'
    BY <2>4, <2>6 DEF LeavesTogether, Batch
  <2>8. ShownWhileDue' /\ NotBegun'
    BY <2>1, <2>3, <2>4, <2>6 DEF ShownWhileDue, NotBegun, ToCome
  <2>9. ControllersShown' /\ TimersLast'
    BY <2>1, <2>3, <2>4, <2>6 DEF ControllersShown, TimersLast
  <2> QED BY <2>5, <2>7, <2>8, <2>9
<1>13. ASSUME NEW g \in Groups, NEW lost \in BOOLEAN,
              \/ CancelTurnsToFolders(g) \/ CancelDeletesFolder(g, lost)
              \/ \E u \in g : CancelDeletesFile(g, u, lost)
       PROVE  PanelInv'
  BY <1>a, <1>13 DEF CancelTurnsToFolders, CancelDeletesFolder, CancelDeletesFile
<1>14. ASSUME NEW u \in Uploads, NEW lost \in BOOLEAN, Undo(u, lost) PROVE PanelInv'
  BY <1>a, <1>14 DEF Undo
<1>15. CASE UNCHANGED batchVars
  BY <1>a, <1>15 DEF batchVars
<1> HIDE DEF PanelInv, PanelType
<1> QED
  BY <1>1, <1>2, <1>3, <1>4, <1>5, <1>6, <1>7, <1>8, <1>9, <1>10, <1>11, <1>12, <1>13, <1>14,
     <1>15
     DEF BatchNext, DirStep, UploadStep, CleanUp, PanelStep, Fault

\* The files of a dropped folder leave the panel together, in every drop: what
\* may dismiss the batch waits for every upload of it that is to come or under way.
THEOREM LeaveTogether == BatchSpec => []LeavesTogether
<1>1. ASSUME BatchInit PROVE PanelInv
  <2>1. /\ entry = [u \in Uploads |-> [state |-> "uploading", fileId |-> FALSE]]
        /\ controllers = {} /\ timer = {} /\ cursor = 1
        /\ pool = [u \in Uploads |-> "none"] /\ request = [u \in Uploads |-> "none"]
    BY <1>1 DEF BatchInit
  <2>2. FALSE \in BOOLEAN
    BY Zenon
  <2>3. PanelType
    BY <2>1, <2>2 DEF PanelType
  <2> QED BY <2>1, <2>3 DEF PanelInv, LeavesTogether, NotBegun, ShownWhileDue, ControllersShown,
             TimersLast, ToCome, Batch
<1>2. PanelInv /\ [BatchNext]_batchVars => PanelInv'
  BY PanelStepKeeps
<1>3. PanelInv => LeavesTogether
  BY DEF PanelInv
<1> QED BY <1>1, <1>2, <1>3, PTL DEF BatchSpec
=============================================================================
