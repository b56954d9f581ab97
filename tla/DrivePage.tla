------------------------------ MODULE DrivePage ------------------------------
(***************************************************************************)
(* One folder on the drive page (apps/web/src/app/drive/page.tsx), with    *)
(* the dialogs, the move dialog and the rows it is made of.  A handler     *)
(* runs from await to await; a request is served at a step of its own.     *)
(* The user has one pointer, and a dialog covers the page: only Back, and  *)
(* a notice that comes late, open one over another.  The listing is a      *)
(* query of react-query: a refresh replaces the fetch that is under way,   *)
(* and whoever waited for that one waits for the new one.                  *)
(***************************************************************************)
EXTENDS Integers, FiniteSets

CONSTANTS
    Items,        \* the files and folders in the open folder
    FolderItems,  \* those that are folders
    Pressable,    \* bound: items that are pressed, and not only ticked
    Deletions,    \* bound: deletion handlers at a time
    Tasks,        \* bound: busy actions at a time
    MaxGestures,  \* bound: what the user begins, answers not counted
    MaxFaults     \* bound: requests that fail without cause, and items that vanish

ASSUME PageAssumption ==
    /\ FolderItems \subseteq Items /\ Pressable \subseteq Items
    /\ {"none", "leave", "cancel"} \intersect (Deletions \union Tasks) = {}
    /\ Deletions \intersect Tasks = {}

VARIABLES
    place,      \* the server: items "here", "moved" to another folder, or "gone"
    shown,      \* drive.data: the listing of the folder
    fetch,      \* the listing being fetched, and its answer
    open,       \* the folder is the one in the URL
    stale,      \* its listing was invalidated while it was not
    selected,   \* selFiles and selFolders
    marked,     \* deletingFiles and deletingFolders
    run,        \* run[d]: deleteFile, deleteFolder or deleteSelected at work
    task,       \* task[t]: act, retryFailedSyncs or downloadSelected at work
    busy,       \* the busy label is set
    move,       \* the move dialog and its loop
    dialog,     \* who asks the question on screen, and gets the answer
    upload,     \* an upload in the panel
    cancelOpen, \* its cancelDialogOpen
    press,      \* the pointer on an item
    consumed,   \* items whose next click is the tail of a hold
    gestures,   \* what the user may still begin
    faults,     \* requests that may still fail
    superseded, \* history: a question was replaced before it was answered
    excused     \* history: a request failed, or the folder was left

pageVars == <<place, shown, fetch, open, stale, selected, marked, run, task, busy, move, dialog,
              upload, cancelOpen, press, consumed, gestures, faults, superseded,
              excused>>
listVars == <<shown, fetch, open, stale>>
workVars == <<marked, run, task, busy>>
askVars == <<dialog, superseded>>
uploadVars == <<upload, cancelOpen>>
pressVars == <<press, consumed>>

Asked == [at |-> "asked", rows |-> {}]
NoFetch == [at |-> "idle", rows |-> {}]
NoRun == [at |-> "none", items |-> {}, todo |-> {}, bar |-> FALSE]
NoTask == [at |-> "none", kind |-> "act"]
NoMove == [at |-> "none", items |-> {}, todo |-> {}, visible |-> FALSE, failed |-> FALSE]
NoPress == [on |-> {}, timer |-> FALSE, fired |-> FALSE, slid |-> FALSE, was |-> FALSE,
            clean |-> TRUE]

PageInit ==
    /\ place = [x \in Items |-> "here"] /\ shown = Items
    /\ fetch = NoFetch /\ open = TRUE /\ stale = FALSE
    /\ selected \in SUBSET Items /\ marked = {} /\ consumed = {} /\ press = NoPress
    /\ run = [d \in Deletions |-> NoRun] /\ task = [t \in Tasks |-> NoTask] /\ busy = FALSE
    /\ move = NoMove /\ dialog = "none" /\ upload = "active" /\ cancelOpen = FALSE
    /\ gestures = MaxGestures /\ faults = MaxFaults /\ superseded = FALSE /\ excused = FALSE

\* Nothing covers the page; a row that is being deleted takes no pointer.
Uncovered == dialog = "none" /\ ~move.visible /\ press = NoPress
Live == IF open THEN shown \ marked ELSE {}

Toggled(x) == IF x \in selected THEN selected \ {x} ELSE selected \union {x}
ClearSelection == selected' = {} /\ press' = [press EXCEPT !.clean = FALSE]
Gesture == gestures > 0 /\ gestures' = gestures - 1
Spend == faults > 0 /\ faults' = faults - 1

\* dialogs.confirm, prompt and notice: the one resolver is the latest asker's.
Show(asker) == dialog' = asker /\ superseded' = (superseded \/ dialog # "none")
-----------------------------------------------------------------------------
\* (Not the code: a fetch that is under way is taken for the refresh.)
RefreshJoins ==
    IF ~open THEN stale' = TRUE /\ UNCHANGED fetch
    ELSE fetch' = (IF fetch = NoFetch THEN Asked ELSE fetch) /\ UNCHANGED stale

\* refresh: the listing on screen is fetched anew, one that is not is stale.
Refresh == IF open THEN fetch' = Asked /\ UNCHANGED stale ELSE stale' = TRUE /\ UNCHANGED fetch

\* Where a handler waits for its refresh: for this listing, or for another's.
Refreshing == IF open THEN "refreshing" ELSE "elsewhere"

\* The listing is polled while an upload is in the panel.
Poll ==
    /\ open /\ upload = "active" /\ fetch = NoFetch /\ fetch' = Asked
    /\ UNCHANGED <<place, shown, open, stale, selected, workVars, move, askVars, uploadVars,
                   pressVars, faults, excused, gestures>>

FetchServe ==
    /\ fetch = Asked
    /\ fetch' = [at |-> "served", rows |-> {x \in Items : place[x] = "here"}]
    /\ UNCHANGED <<place, shown, open, stale, selected, workVars, move, askVars, uploadVars,
                   pressVars, faults, excused, gestures>>

\* (Not the code: the handlers end without their finally.)
FinallyForgotten(D, T, N) ==
    /\ run' = [d \in Deletions |-> IF d \in D THEN NoRun ELSE run[d]]
    /\ task' = [t \in Tasks |-> IF t \in N THEN [at |-> "notice", kind |-> "retry"]
                                ELSE IF t \in T THEN NoTask ELSE task[t]]
    /\ UNCHANGED <<marked, busy>>

\* The deletions D end, and their marks go; the tasks T end, and the label goes,
\* but those of N have a notice to show first.
Finally(D, T, N) ==
    /\ run' = [d \in Deletions |-> IF d \in D THEN NoRun ELSE run[d]]
    /\ marked' = marked \ UNION {run[d].items : d \in D}
    /\ task' = [t \in Tasks |-> IF t \in N THEN [at |-> "notice", kind |-> "retry"]
                                ELSE IF t \in T THEN NoTask ELSE task[t]]
    /\ busy' = (busy /\ T \subseteq N)

\* A refresh is over for the handlers at a place; a retry may have lost files.
RefreshOver(where) ==
    LET D == {d \in Deletions : run[d].at = where}
        T == {t \in Tasks : task[t].at = where} IN
    \/ Finally(D, T, {}) /\ UNCHANGED askVars
    \/ \E t \in T : task[t].kind = "retry" /\ Finally(D, T, {t}) /\ Show(t)

\* The listing reaches the screen, and then those who waited for it.
FetchArrives(ok) ==
    /\ IF ok THEN fetch.at = "served" /\ shown' = fetch.rows /\ stale' = FALSE
                  /\ UNCHANGED <<faults, excused>>
       ELSE fetch # NoFetch /\ Spend /\ excused' = TRUE /\ UNCHANGED <<shown, stale>>
    /\ fetch' = NoFetch
    /\ RefreshOver("refreshing")
    /\ UNCHANGED <<place, open, selected, move, uploadVars, pressVars, gestures>>

ArrivesElsewhere ==
    /\ \/ \E d \in Deletions : run[d].at = "elsewhere"
       \/ \E t \in Tasks : task[t].at = "elsewhere"
    /\ RefreshOver("elsewhere")
    /\ UNCHANGED <<place, listVars, selected, move, uploadVars, pressVars, faults, excused,
                   gestures>>

\* openFolder, Back and Forward: the selection does not survive, a stale listing
\* is fetched on return.
Turn ==
    /\ open' = ~open /\ selected' = {} /\ excused' = TRUE
    /\ fetch' = IF ~open /\ stale /\ fetch = NoFetch THEN Asked ELSE fetch
    /\ UNCHANGED <<shown, stale>>

Navigate ==
    /\ Gesture /\ Uncovered /\ Turn
    /\ UNCHANGED <<place, workVars, move, askVars, uploadVars, pressVars, faults>>
-----------------------------------------------------------------------------
\* What a row's own action is for, and what the bar's is.
Picked(S, bar) == IF bar THEN open /\ ~busy /\ S = selected /\ S # {}
                  ELSE S \subseteq Live /\ Cardinality(S) = 1

\* deleteFile, deleteFolder, deleteSelected: first of all they ask.
AskDelete(d, S, bar) ==
    /\ Gesture /\ Uncovered /\ run[d].at = "none" /\ Picked(S, bar)
    /\ run' = [run EXCEPT ![d] = [at |-> "asking", items |-> S, todo |-> S, bar |-> bar]]
    /\ Show(d)
    /\ UNCHANGED <<place, listVars, selected, marked, task, busy, move, uploadVars, pressVars,
                   faults, excused>>

\* Yes: the items are locked, and a selection is handed back.
AnswerDelete(d, yes) ==
    /\ dialog = d /\ dialog' = "none" /\ UNCHANGED superseded
    /\ IF yes THEN /\ run' = [run EXCEPT ![d].at = "deleting"]
                   /\ marked' = marked \union run[d].items
                   /\ IF run[d].bar THEN ClearSelection ELSE UNCHANGED <<selected, press>>
       ELSE run' = [run EXCEPT ![d] = NoRun] /\ UNCHANGED <<marked, selected, press>>
    /\ UNCHANGED <<place, listVars, task, busy, move, uploadVars, consumed, faults,
                   excused, gestures>>

\* One request after the other, files before folders.
DeleteServe(d) ==
    /\ run[d].at = "deleting"
    /\ \E x \in run[d].todo :
         /\ x \in FolderItems => run[d].todo \subseteq FolderItems
         /\ run' = [run EXCEPT ![d] = [@ EXCEPT !.todo = run[d].todo \ {x},
                               !.at = IF place[x] = "gone" THEN "refused" ELSE "answered"]]
         /\ place' = [place EXCEPT ![x] = "gone"]
    /\ UNCHANGED <<listVars, selected, marked, task, busy, move, askVars, uploadVars, pressVars,
                   faults, excused, gestures>>

DeleteGoesOn(d) ==
    /\ run[d].at = "answered"
    /\ IF run[d].todo = {} THEN run' = [run EXCEPT ![d].at = Refreshing] /\ Refresh
       ELSE run' = [run EXCEPT ![d].at = "deleting"] /\ UNCHANGED <<fetch, stale>>
    /\ UNCHANGED <<place, shown, open, selected, marked, task, busy, move, askVars, uploadVars,
                   pressVars, faults, excused, gestures>>

\* The first failure ends the handler, without a refresh.
DeleteFails(d, lost) ==
    /\ IF lost THEN run[d].at \in {"deleting", "answered"} /\ Spend
       ELSE run[d].at = "refused" /\ UNCHANGED faults
    /\ Finally({d}, {}, {}) /\ excused' = TRUE
    /\ UNCHANGED <<place, listVars, selected, move, askVars, uploadVars, pressVars,
                   gestures>>
-----------------------------------------------------------------------------
\* newFolder and the renames ask for a name, then act.
AskName(t) ==
    /\ Gesture /\ Uncovered /\ open /\ task[t].at = "none"
    /\ task' = [task EXCEPT ![t] = [at |-> "asking", kind |-> "act"]] /\ Show(t)
    /\ UNCHANGED <<place, listVars, selected, marked, run, busy, move, uploadVars, pressVars,
                   faults, excused>>

AnswerName(t, yes) ==
    /\ dialog = t /\ task[t].at = "asking" /\ dialog' = "none" /\ UNCHANGED superseded
    /\ task' = [task EXCEPT ![t] = IF yes THEN [@ EXCEPT !.at = "request"] ELSE NoTask]
    /\ busy' = (busy \/ yes)
    /\ UNCHANGED <<place, listVars, selected, marked, run, move, uploadVars, pressVars, faults,
                   excused, gestures>>

\* retryFailedSyncs, and downloadSelected from the bar or a folder's row.
StartTask(t, kind) ==
    /\ Gesture /\ Uncovered /\ open /\ task[t].at = "none"
    /\ \/ kind = "retry" /\ ~busy
       \/ kind = "download" /\ ((selected # {} /\ ~busy) \/ Live \intersect FolderItems # {})
    /\ task' = [task EXCEPT ![t] = [at |-> "request", kind |-> kind]] /\ busy' = TRUE
    /\ UNCHANGED <<place, listVars, selected, marked, run, move, askVars, uploadVars, pressVars,
                   faults, excused>>

TaskServed(t) ==
    /\ task[t].at = "request"
    /\ IF task[t].kind = "download"
       THEN Finally({}, {t}, {}) /\ ClearSelection /\ UNCHANGED <<fetch, stale>>
       ELSE /\ task' = [task EXCEPT ![t].at = Refreshing] /\ Refresh
            /\ UNCHANGED <<run, marked, busy, selected, press>>
    /\ UNCHANGED <<place, shown, open, move, askVars, uploadVars, consumed, faults,
                   excused, gestures>>

TaskFails(t) ==
    /\ task[t].at = "request" /\ Spend /\ Finally({}, {t}, {})
    /\ UNCHANGED <<place, listVars, selected, move, askVars, uploadVars, pressVars,
                   excused, gestures>>

AnswerNotice(t) ==
    /\ dialog = t /\ task[t].at = "notice" /\ dialog' = "none"
    /\ Finally({}, {t}, {})
    /\ UNCHANGED <<place, listVars, selected, move, superseded, uploadVars, pressVars, faults,
                   excused, gestures>>
-----------------------------------------------------------------------------
\* The move dialog, of a file's row or of the selection.
OpenMove(S, bar) ==
    /\ Gesture /\ Uncovered /\ move = NoMove /\ Picked(S, bar)
    /\ bar \/ S \intersect FolderItems = {}
    /\ move' = [NoMove EXCEPT !.at = "picking", !.items = S, !.visible = TRUE]
    /\ UNCHANGED <<place, listVars, selected, workVars, askVars, uploadVars, pressVars, faults,
                   excused>>

StartMove ==
    /\ move.at = "picking" /\ dialog = "none"
    /\ move' = [move EXCEPT !.at = "moving", !.todo = move.items]
    /\ UNCHANGED <<place, listVars, selected, workVars, askVars, uploadVars, pressVars, faults,
                   excused, gestures>>

\* Closing the dialog does not stop its loop.
CloseMove ==
    /\ move.visible /\ dialog = "none"
    /\ move' = IF move.at = "picking" THEN NoMove ELSE [move EXCEPT !.visible = FALSE]
    /\ UNCHANGED <<place, listVars, selected, workVars, askVars, uploadVars, pressVars, faults,
                   excused, gestures>>

\* One after the other, whatever becomes of each; a folder may be refused.
MoveServe ==
    /\ move.at = "moving"
    /\ \E x \in move.todo, ok \in BOOLEAN :
         /\ x \in FolderItems => move.todo \subseteq FolderItems
         /\ ok => place[x] # "gone"
         /\ ~ok => place[x] = "gone" \/ x \in FolderItems
         /\ place' = IF ok THEN [place EXCEPT ![x] = "moved"] ELSE place
         /\ move' = [move EXCEPT !.todo = @ \ {x}, !.failed = @ \/ ~ok]
    /\ UNCHANGED <<listVars, selected, workVars, askVars, uploadVars, pressVars, faults,
                   excused, gestures>>

\* onMoved, and the dialog stays only to show what failed.
MoveEnds ==
    /\ move.at = "moving" /\ move.todo = {}
    /\ move' = IF move.failed /\ move.visible
               THEN [move EXCEPT !.at = "picking", !.failed = FALSE] ELSE NoMove
    /\ Refresh /\ ClearSelection
    /\ UNCHANGED <<place, shown, open, workVars, askVars, uploadVars, consumed, faults,
                   excused, gestures>>
-----------------------------------------------------------------------------
\* Back on the floor of the history asks before it leaves; the user stays.
AskLeave ==
    /\ Gesture /\ dialog # "leave" /\ Show("leave")
    /\ UNCHANGED <<place, listVars, selected, workVars, move, uploadVars, pressVars,
                   faults, excused>>

AnswerLeave ==
    /\ dialog = "leave" /\ dialog' = "none"
    /\ UNCHANGED <<place, listVars, selected, workVars, move, superseded, uploadVars, pressVars,
                   faults, excused, gestures>>

\* confirmCancel of the upload's row.
AskCancel ==
    /\ Gesture /\ Uncovered /\ open /\ upload = "active" /\ cancelOpen' = TRUE /\ Show("cancel")
    /\ UNCHANGED <<place, listVars, selected, workVars, move, upload, pressVars, faults,
                   excused>>

AnswerCancel(yes) ==
    /\ dialog = "cancel" /\ dialog' = "none" /\ cancelOpen' = FALSE
    /\ upload' = IF yes /\ upload = "active" THEN "none" ELSE upload
    /\ UNCHANGED <<place, listVars, selected, workVars, move, superseded, pressVars,
                   faults, excused, gestures>>

\* (Not the code: the upload closes whatever is on screen.)
MootAlways == TRUE

\* The question about the upload is (as far as its row knows) on screen.
Moot == cancelOpen

\* dialogs.dismiss: whoever asks gets a no.
Dismiss ==
    /\ dialog' = "none"
    /\ IF dialog \in Deletions
       THEN run' = [run EXCEPT ![dialog] = NoRun] /\ UNCHANGED <<marked, task, busy>>
       ELSE IF dialog \in Tasks THEN Finally({}, {dialog}, {})
       ELSE UNCHANGED workVars

\* The upload is through, and a question about it is moot.
UploadSettles ==
    /\ upload = "active" /\ upload' = "settled"
    /\ IF Moot THEN cancelOpen' = FALSE /\ Dismiss
       ELSE UNCHANGED <<cancelOpen, dialog, workVars>>
    /\ UNCHANGED <<place, listVars, selected, move, superseded, pressVars, faults, excused,
                   gestures>>
-----------------------------------------------------------------------------
\* The checkbox of a row.
Tick(x) ==
    /\ Gesture /\ Uncovered /\ x \in Live /\ selected' = Toggled(x)
    /\ UNCHANGED <<place, listVars, workVars, move, askVars, uploadVars, pressVars, faults,
                   excused>>

\* useLongPress, on a touch screen.
PressDown(x) ==
    /\ Gesture /\ Uncovered /\ x \in Live \intersect Pressable
    /\ press' = [NoPress EXCEPT !.on = {x}, !.timer = TRUE, !.was = x \in selected]
    /\ consumed' = consumed \ {x}
    /\ UNCHANGED <<place, listVars, selected, workVars, move, askVars, uploadVars, faults,
                   excused>>

HoldFires ==
    /\ press.timer /\ press' = [press EXCEPT !.timer = FALSE, !.fired = TRUE]
    /\ \E x \in press.on : consumed' = consumed \union {x} /\ selected' = Toggled(x)
    /\ UNCHANGED <<place, listVars, workVars, move, askVars, uploadVars, faults, excused,
                   gestures>>

\* Beyond the tolerance it is a scroll.
Slide ==
    /\ press.on # {} /\ ~press.slid
    /\ press' = [press EXCEPT !.timer = FALSE, !.slid = TRUE]
    /\ UNCHANGED <<place, listVars, selected, workVars, move, askVars, uploadVars, consumed, faults,
                   excused, gestures>>

\* (Not the code: a click is a click.)
ClickAlways(x) ==
    IF selected # {} THEN selected' = Toggled(x) /\ UNCHANGED <<listVars, consumed,
                                                                excused>>
    ELSE IF x \in FolderItems THEN Turn /\ UNCHANGED consumed
    ELSE UNCHANGED <<listVars, selected, consumed, excused>>

\* onClick: the tail of a hold is swallowed, a tap selects among selected items
\* and opens otherwise (a file's preview is not modelled).
Click(x) ==
    IF x \in consumed THEN consumed' = consumed \ {x} /\ UNCHANGED <<listVars, selected,
                                                                     excused>>
    ELSE IF selected # {} THEN selected' = Toggled(x) /\ UNCHANGED <<listVars, consumed,
                                                                     excused>>
    ELSE IF x \in FolderItems THEN Turn /\ UNCHANGED consumed
    ELSE UNCHANGED <<listVars, selected, consumed, excused>>

\* The row may have gone, or be inert, or be covered by now.
Release ==
    /\ press.on # {} /\ press' = NoPress
    /\ IF press.slid \/ dialog # "none" \/ press.on \intersect Live = {}
       THEN UNCHANGED <<listVars, selected, consumed, excused>>
       ELSE \E x \in press.on : Click(x)
    /\ UNCHANGED <<place, workVars, move, askVars, uploadVars, faults, gestures>>
-----------------------------------------------------------------------------
\* Another tab of the user removes an item.
Vanish(x) ==
    /\ place[x] = "here" /\ Spend /\ place' = [place EXCEPT ![x] = "gone"]
    /\ UNCHANGED <<listVars, selected, workVars, move, askVars, uploadVars, pressVars, excused,
                   gestures>>

DeletionStep(d) == DeleteServe(d) \/ DeleteGoesOn(d) \/ DeleteFails(d, FALSE)
MoveStep == MoveServe \/ MoveEnds
Arrive == FetchServe \/ FetchArrives(TRUE) \/ ArrivesElsewhere

UserStep ==
    \/ \E S \in SUBSET Items, bar \in BOOLEAN :
         OpenMove(S, bar) \/ \E d \in Deletions : AskDelete(d, S, bar)
    \/ \E yes \in BOOLEAN : \/ AnswerCancel(yes)
                           \/ \E d \in Deletions : AnswerDelete(d, yes)
                           \/ \E t \in Tasks : AnswerName(t, yes)
    \/ \E t \in Tasks : \/ AskName(t) \/ AnswerNotice(t)
                       \/ \E kind \in {"retry", "download"} : StartTask(t, kind)
    \/ Navigate \/ StartMove \/ CloseMove \/ AskLeave \/ AnswerLeave \/ AskCancel
    \/ \E x \in Items : Tick(x) \/ PressDown(x)
    \/ Slide \/ Release

Fault == FetchArrives(FALSE) \/ (\E d \in Deletions : DeleteFails(d, TRUE))
         \/ \E t \in Tasks : TaskFails(t)

PageNext ==
    \/ UserStep \/ Fault \/ Poll \/ Arrive \/ MoveStep \/ HoldFires \/ UploadSettles
    \/ \E d \in Deletions : DeletionStep(d)
    \/ \E t \in Tasks : TaskServed(t)
    \/ \E x \in Items : Vanish(x)

PageSpec == PageInit /\ [][PageNext]_pageVars

\* Requests are answered; a listing arrives in the end, although each refresh
\* of a user who keeps at it replaces the fetch.  Nothing makes the user answer.
PageFairSpec ==
    /\ PageSpec
    /\ WF_pageVars(FetchServe) /\ SF_pageVars(FetchArrives(TRUE)) /\ WF_pageVars(ArrivesElsewhere)
    /\ WF_pageVars(MoveStep)
    /\ \A d \in Deletions : WF_pageVars(DeletionStep(d))
    /\ \A t \in Tasks : WF_pageVars(TaskServed(t))
-----------------------------------------------------------------------------
\* The finally of a deletion comes after its refresh: an item that is no longer
\* here and was locked is not offered again, unless a request failed or the user
\* went to another folder in between.
DeletedRowsGoFirst ==
    [][\A x \in marked \ marked' : place[x] # "here" => x \notin shown' \/ excused']_pageVars

\* No lock and no busy label stays for ever, once no question was replaced: each
\* ends by itself, or with the notice on screen.
PageSettles ==
    /\ \A x \in Items : x \in marked ~> x \notin marked
    /\ busy ~> (~busy \/ superseded \/ dialog \in Tasks)

\* An upload that ends closes its own question only, unless Back or a notice has
\* replaced that one.
OwnQuestionsOnly ==
    [][upload' = "settled" /\ upload # upload' /\ dialog' # dialog
        => dialog = "cancel" \/ superseded]_pageVars

\* A hold turns the item's selection over once: the click it ends with does not
\* turn it back, and opens nothing.
HoldTogglesOnce ==
    [][press.fired /\ press.clean /\ press' = NoPress =>
        /\ \A x \in press.on : (x \in selected') # press.was
        /\ open' = open]_pageVars
=============================================================================
