--------------------------- MODULE DrivePageProofs ---------------------------
(***************************************************************************)
(* The drive page, for folders of any size and any number of handlers at   *)
(* work: what a hold, an upload's question and a deletion's lock promise.  *)
(***************************************************************************)
EXTENDS DrivePage, TLAPS

-----------------------------------------------------------------------------
\* While an upload's question is open, it is on screen or was replaced.
AskInv == cancelOpen => dialog = "cancel" \/ superseded

LEMMA AskStep == AskInv /\ [PageNext]_pageVars => AskInv'
<1> SUFFICES ASSUME AskInv, [PageNext]_pageVars PROVE AskInv'
  OBVIOUS
<1> USE DEF AskInv, Show, uploadVars, askVars
<1>1. CASE UNCHANGED pageVars
  BY <1>1 DEF pageVars
\* Those that leave the questions alone.
<1>2. UNCHANGED <<cancelOpen, dialog, superseded>> => AskInv'
  OBVIOUS
<1>3. ASSUME NEW S, NEW bar, OpenMove(S, bar) PROVE AskInv'
  BY <1>2, <1>3 DEF OpenMove
<1>4. ASSUME NEW d \in Deletions, NEW S, NEW bar, AskDelete(d, S, bar) PROVE AskInv'
  BY <1>4 DEF AskDelete
<1>5. ASSUME NEW yes, AnswerCancel(yes) PROVE AskInv'
  BY <1>5 DEF AnswerCancel
<1>6. ASSUME NEW d \in Deletions, NEW yes, AnswerDelete(d, yes) PROVE AskInv'
  BY <1>6, PageAssumption DEF AnswerDelete
<1>7. ASSUME NEW t \in Tasks, NEW yes, AnswerName(t, yes) PROVE AskInv'
  BY <1>7, PageAssumption DEF AnswerName
<1>8. ASSUME NEW t \in Tasks, AskName(t) PROVE AskInv'
  BY <1>8 DEF AskName
<1>9. ASSUME NEW t \in Tasks, AnswerNotice(t) PROVE AskInv'
  BY <1>9, PageAssumption DEF AnswerNotice
<1>10. ASSUME NEW t \in Tasks, NEW kind, StartTask(t, kind) PROVE AskInv'
  BY <1>2, <1>10 DEF StartTask
<1>11. CASE \/ Navigate \/ StartMove \/ CloseMove \/ Slide \/ Release \/ HoldFires \/ Poll
            \/ FetchServe \/ MoveStep
  BY <1>2, <1>11 DEF Navigate, StartMove, CloseMove, Slide, Release, HoldFires, Poll, FetchServe,
     MoveStep, MoveServe, MoveEnds
<1>12. CASE AskLeave \/ AnswerLeave \/ AskCancel
  BY <1>12 DEF AskLeave, AnswerLeave, AskCancel
<1>13. ASSUME NEW x \in Items, Tick(x) \/ PressDown(x) \/ Vanish(x) PROVE AskInv'
  BY <1>2, <1>13 DEF Tick, PressDown, Vanish
<1>14. ASSUME NEW where, RefreshOver(where), UNCHANGED cancelOpen PROVE AskInv'
  BY <1>14 DEF RefreshOver
<1>15. ASSUME NEW ok, FetchArrives(ok) PROVE AskInv'
  BY <1>14, <1>15 DEF FetchArrives
<1>16. CASE ArrivesElsewhere
  BY <1>14, <1>16 DEF ArrivesElsewhere
<1>17. ASSUME NEW d \in Deletions, NEW lost,
              DeleteServe(d) \/ DeleteGoesOn(d) \/ DeleteFails(d, lost)
       PROVE  AskInv'
  BY <1>2, <1>17 DEF DeleteServe, DeleteGoesOn, DeleteFails
<1>18. ASSUME NEW t \in Tasks, TaskFails(t) \/ TaskServed(t) PROVE AskInv'
  BY <1>2, <1>18 DEF TaskFails, TaskServed
<1>19. CASE UploadSettles
  BY <1>19 DEF UploadSettles, Moot
<1> QED
  BY <1>1, <1>3, <1>4, <1>5, <1>6, <1>7, <1>8, <1>9, <1>10, <1>11, <1>12, <1>13, <1>15, <1>16,
     <1>17, <1>18, <1>19
  DEF PageNext, UserStep, Fault, Arrive, DeletionStep

\* An upload that ends closes its own question only, unless Back or a notice has
\* replaced that one.
THEOREM ClosesOwnQuestion == PageSpec => OwnQuestionsOnly
<1>1. PageInit => AskInv
  BY DEF PageInit, AskInv
<1>2. AskInv /\ [PageNext]_pageVars =>
        [upload' = "settled" /\ upload # upload' /\ dialog' # dialog
           => dialog = "cancel" \/ superseded]_pageVars
  <2> SUFFICES ASSUME AskInv, PageNext, upload' = "settled", upload # upload', dialog' # dialog
               PROVE  dialog = "cancel" \/ superseded
    OBVIOUS
  <2>1. UploadSettles
    BY DEF PageNext, UserStep, Fault, Arrive, DeletionStep, OpenMove, AskDelete, AnswerCancel,
       AnswerDelete, AnswerName, AskName, AnswerNotice, StartTask, Navigate, StartMove, CloseMove,
       AskLeave, AnswerLeave, AskCancel, Tick, PressDown, Slide, Release, FetchArrives, DeleteFails,
       TaskFails, Poll, FetchServe, ArrivesElsewhere, MoveStep, MoveServe, MoveEnds, HoldFires,
       DeleteServe, DeleteGoesOn, TaskServed, Vanish, uploadVars
  <2> QED BY <2>1 DEF UploadSettles, Moot, AskInv
<1> QED BY <1>1, <1>2, AskStep, PTL DEF PageSpec, OwnQuestionsOnly
-----------------------------------------------------------------------------
Presses == [on : SUBSET Items, timer : BOOLEAN, fired : BOOLEAN, slid : BOOLEAN, was : BOOLEAN,
            clean : BOOLEAN]

\* Until the hold fires the item is selected as it was when the finger went down,
\* and after that the other way round, with its click to be swallowed: whatever
\* else touches the selection clears it, and says so.
Waiting ==
    press.timer => /\ ~press.fired
                   /\ \E x \in Items : /\ press.on = {x}
                                       /\ press.clean => (x \in selected) = press.was
Held ==
    press.fired /\ press.clean =>
        \E x \in consumed : press.on = {x} /\ (x \in selected) # press.was
HoldInv == press \in Presses /\ Waiting /\ Held

LEMMA HoldStep == HoldInv /\ [PageNext]_pageVars => HoldInv'
<1> SUFFICES ASSUME HoldInv, [PageNext]_pageVars PROVE HoldInv'
  OBVIOUS
<1> USE DEF pressVars
<1>1. UNCHANGED <<press, consumed, selected>> => HoldInv'
  BY DEF HoldInv, Waiting, Held
<1>2. ASSUME ClearSelection, UNCHANGED consumed PROVE HoldInv'
  <2>1. press \in Presses /\ press' = [press EXCEPT !.clean = FALSE]
    BY <1>2 DEF ClearSelection, HoldInv
  <2>2. press' \in Presses
    BY <2>1, FALSE \in BOOLEAN, Zenon DEF Presses
  <2>3. /\ press'.clean = FALSE /\ press'.on = press.on
        /\ press'.timer = press.timer /\ press'.fired = press.fired
    BY <2>1 DEF Presses
  <2> QED BY <2>2, <2>3 DEF HoldInv, Waiting, Held
<1>3. ASSUME press' = NoPress PROVE HoldInv'
  <2>1. NoPress \in Presses
    BY DEF NoPress, Presses
  <2> QED BY <1>3, <2>1 DEF HoldInv, Waiting, Held, NoPress
<1>4. CASE UNCHANGED pageVars
  BY <1>1, <1>4 DEF pageVars
\* Those that leave the pointer and the selection alone.
<1>5. ASSUME NEW S, NEW bar, NEW d, OpenMove(S, bar) \/ AskDelete(d, S, bar) PROVE HoldInv'
  BY <1>1, <1>5 DEF OpenMove, AskDelete
<1>6. ASSUME NEW yes, NEW t, AnswerCancel(yes) \/ AnswerName(t, yes) PROVE HoldInv'
  BY <1>1, <1>6 DEF AnswerCancel, AnswerName
<1>7. ASSUME NEW t, NEW kind, \/ AskName(t) \/ AnswerNotice(t) \/ StartTask(t, kind)
                              \/ TaskFails(t)
      PROVE  HoldInv'
  BY <1>1, <1>7 DEF AskName, AnswerNotice, StartTask, TaskFails
<1>8. ASSUME NEW d, NEW lost, DeleteServe(d) \/ DeleteGoesOn(d) \/ DeleteFails(d, lost)
      PROVE  HoldInv'
  BY <1>1, <1>8 DEF DeleteServe, DeleteGoesOn, DeleteFails
<1>9. ASSUME NEW x, NEW ok, Vanish(x) \/ FetchArrives(ok) \/ ArrivesElsewhere PROVE HoldInv'
  BY <1>1, <1>9 DEF Vanish, FetchArrives, ArrivesElsewhere
<1>10. CASE \/ StartMove \/ CloseMove \/ AskLeave \/ AnswerLeave \/ AskCancel \/ Poll \/ FetchServe
            \/ MoveServe \/ UploadSettles
  BY <1>1, <1>10 DEF StartMove, CloseMove, AskLeave, AnswerLeave, AskCancel, Poll, FetchServe,
     MoveServe, UploadSettles
\* Those that clear the selection.
<1>11. CASE MoveEnds
  BY <1>2, <1>11 DEF MoveEnds
<1>12. ASSUME NEW t, TaskServed(t) PROVE HoldInv'
  BY <1>1, <1>2, <1>12 DEF TaskServed
<1>13. ASSUME NEW d, NEW yes, AnswerDelete(d, yes) PROVE HoldInv'
  BY <1>1, <1>2, <1>13 DEF AnswerDelete
\* Those that want the pointer up, or lift it.
<1>14. CASE Navigate
  BY <1>3, <1>14 DEF Navigate, Uncovered
<1>15. ASSUME NEW x, Tick(x) PROVE HoldInv'
  BY <1>3, <1>15 DEF Tick, Uncovered
<1>16. CASE Release
  BY <1>3, <1>16 DEF Release
\* The hold itself.
<1>17. ASSUME NEW x \in Items, PressDown(x) PROVE HoldInv'
  <2>1. PICK w \in BOOLEAN : w = (x \in selected)
    <3>1. CASE x \in selected
      BY <3>1, TRUE \in BOOLEAN, Zenon
    <3>2. CASE x \notin selected
      <4>1. FALSE = (x \in selected)
        BY <3>2
      <4> QED BY <4>1, FALSE \in BOOLEAN, Zenon
    <3> QED BY <3>1, <3>2
  <2>2. press' = [on |-> {x}, timer |-> TRUE, fired |-> FALSE, slid |-> FALSE, was |-> w,
                  clean |-> TRUE] /\ selected' = selected
    BY <1>17, <2>1 DEF PressDown, NoPress
  <2>3. press' \in Presses
    BY <2>2, Zenon DEF Presses
  <2> QED BY <2>1, <2>2, <2>3 DEF HoldInv, Waiting, Held
<1>18. CASE HoldFires
  <2>1. PICK x \in press.on : consumed' = consumed \union {x} /\ selected' = Toggled(x)
    BY <1>18 DEF HoldFires
  <2>2. press.timer /\ press' = [press EXCEPT !.timer = FALSE, !.fired = TRUE]
        /\ press \in Presses
    BY <1>18 DEF HoldFires, HoldInv
  <2>3. press' \in Presses
    BY <2>2, Zenon DEF Presses
  <2>4. /\ press'.timer = FALSE /\ press'.on = press.on
        /\ press'.was = press.was /\ press'.clean = press.clean
    BY <2>2 DEF Presses
  <2>5. x \in Items /\ press.on = {x} /\ (press.clean => (x \in selected) = press.was)
    BY <2>1, <2>2 DEF HoldInv, Waiting
  <2>6. x \in selected' <=> x \notin selected
    BY <2>1 DEF Toggled
  <2>7. press.clean => (x \in selected') # press.was
    BY <2>5, <2>6
  <2> QED BY <2>1, <2>3, <2>4, <2>5, <2>7 DEF HoldInv, Waiting, Held
<1>19. CASE Slide
  <2>1. press' = [press EXCEPT !.timer = FALSE, !.slid = TRUE] /\ press \in Presses
        /\ UNCHANGED <<consumed, selected>>
    BY <1>19 DEF Slide, HoldInv
  <2>2. press' \in Presses
    BY <2>1, Zenon DEF Presses
  <2>3. /\ press'.timer = FALSE /\ press'.on = press.on /\ press'.fired = press.fired
        /\ press'.was = press.was /\ press'.clean = press.clean
    BY <2>1 DEF Presses
  <2> QED BY <2>1, <2>2, <2>3 DEF HoldInv, Waiting, Held
<1> QED
  BY <1>4, <1>5, <1>6, <1>7, <1>8, <1>9, <1>10, <1>11, <1>12, <1>13, <1>14, <1>15, <1>16, <1>17,
     <1>18, <1>19
  DEF PageNext, UserStep, Fault, Arrive, DeletionStep, MoveStep

\* A hold turns the item's selection over once: the click it ends with does not
\* turn it back, and opens nothing.
THEOREM HoldsToggleOnce == PageSpec => HoldTogglesOnce
<1>1. PageInit => HoldInv
  BY DEF PageInit, HoldInv, Presses, NoPress, Waiting, Held
<1>2. HoldInv /\ [PageNext]_pageVars =>
        [press.fired /\ press.clean /\ press' = NoPress =>
           /\ \A x \in press.on : (x \in selected') # press.was
           /\ open' = open]_pageVars
  <2> SUFFICES ASSUME HoldInv, [PageNext]_pageVars, press.fired, press.clean, press' = NoPress
               PROVE  (\A x \in press.on : (x \in selected') # press.was) /\ open' = open
    OBVIOUS
  <2>1. press # NoPress /\ press.on # {} /\ ~ClearSelection /\ ~HoldFires /\ ~Slide
    <3>1. press.on # {} /\ NoPress.on = {} /\ NoPress.clean = TRUE
      BY DEF HoldInv, Held, NoPress
    <3>2. ~ClearSelection
      BY <3>1 DEF ClearSelection, HoldInv, Presses
    <3>3. ~HoldFires /\ ~Slide
      BY <3>1 DEF HoldFires, Slide, HoldInv, Presses
    <3> QED BY <3>1, <3>2, <3>3
  <2>2. PICK x \in consumed : press.on = {x} /\ (x \in selected) # press.was
    BY DEF HoldInv, Held
  <2>3. Release
    BY <2>1 DEF PageNext, UserStep, Fault, Arrive, DeletionStep, OpenMove, AskDelete, AnswerCancel,
       AnswerDelete, AnswerName, AskName, AnswerNotice, StartTask, Navigate, StartMove, CloseMove,
       AskLeave, AnswerLeave, AskCancel, Tick, PressDown, Uncovered, FetchArrives, DeleteFails,
       TaskFails, Poll, FetchServe, ArrivesElsewhere, MoveStep, MoveServe, MoveEnds, DeleteServe,
       DeleteGoesOn, TaskServed, Vanish, UploadSettles, pageVars, pressVars
  <2> QED BY <2>2, <2>3 DEF Release, Click, listVars
<1> QED BY <1>1, <1>2, HoldStep, PTL DEF PageSpec, HoldTogglesOnce

-----------------------------------------------------------------------------
Runs == [at : {"none", "asking", "deleting", "answered", "refused", "refreshing", "elsewhere"},
         items : SUBSET Items, todo : SUBSET Items, bar : BOOLEAN]

\* What a deletion has sent off is gone, and when it waits for the listing so is
\* all it was asked for, from the fetch under way too.
Sent(d) ==
    /\ run[d].at = "asking" => run[d].todo = run[d].items
    /\ run[d].at \in {"deleting", "answered"} =>
           \A x \in run[d].items \ run[d].todo : place[x] = "gone"
    /\ run[d].at = "refreshing" =>
           excused \/ \A x \in run[d].items : place[x] = "gone" /\ x \notin fetch.rows
    /\ run[d].at = "elsewhere" => excused
GoneInv ==
    /\ place \in [Items -> {"here", "moved", "gone"}] /\ run \in [Deletions -> Runs]
    /\ ~open => excused
    /\ fetch.at # "served" => fetch.rows = {}
    /\ \A d \in Deletions : Sent(d)

\* The deletion whose question is on screen has not been answered.
AskedInv == \A d \in Deletions : dialog = d => run[d].at = "asking"

LEMMA AskedStep == GoneInv /\ AskedInv /\ [PageNext]_pageVars => AskedInv'
<1> SUFFICES ASSUME GoneInv, AskedInv, [PageNext]_pageVars, NEW d \in Deletions, dialog' = d
             PROVE  run'[d].at = "asking"
  BY DEF AskedInv
<1> USE DEF workVars, askVars, Show
<1>1. run \in [Deletions -> Runs] /\ d # "none" /\ d # "leave" /\ d # "cancel" /\ d \notin Tasks
  BY PageAssumption DEF GoneInv
<1>2. dialog = d => run[d].at = "asking"
  BY DEF AskedInv
<1>3. UNCHANGED <<run, dialog>> => run'[d].at = "asking"
  BY <1>2
<1>4. ASSUME NEW D, NEW T, NEW N, Finally(D, T, N), dialog = d, d \notin D
      PROVE  run'[d].at = "asking"
  BY <1>2, <1>4 DEF Finally
<1>5. CASE UNCHANGED pageVars
  BY <1>3, <1>5 DEF pageVars
<1>6. ASSUME NEW S, NEW bar, NEW e, OpenMove(S, bar) \/ AskDelete(e, S, bar)
      PROVE  run'[d].at = "asking"
  BY <1>1, <1>3, <1>6 DEF OpenMove, AskDelete
<1>7. ASSUME NEW yes, NEW t \in Tasks, AnswerName(t, yes) PROVE run'[d].at = "asking"
  BY <1>1, <1>7 DEF AnswerName
<1>8. ASSUME NEW yes, AnswerCancel(yes) PROVE run'[d].at = "asking"
  BY <1>1, <1>8 DEF AnswerCancel
<1>9. ASSUME NEW yes, NEW e, AnswerDelete(e, yes) PROVE run'[d].at = "asking"
  BY <1>1, <1>9 DEF AnswerDelete
<1>10. ASSUME NEW t \in Tasks, NEW kind, \/ AskName(t) \/ AnswerNotice(t) \/ StartTask(t, kind)
                                        \/ TaskFails(t) \/ TaskServed(t)
      PROVE  run'[d].at = "asking"
  BY <1>1, <1>3, <1>4, <1>10 DEF AskName, AnswerNotice, StartTask, TaskFails, TaskServed
<1>11. ASSUME NEW e \in Deletions, NEW lost,
              DeleteServe(e) \/ DeleteGoesOn(e) \/ DeleteFails(e, lost)
       PROVE  run'[d].at = "asking"
  <2>1. dialog = d /\ e # d
    BY <1>2, <1>11 DEF DeleteServe, DeleteGoesOn, DeleteFails
  <2> QED BY <1>1, <1>2, <1>4, <1>11, <2>1 DEF DeleteServe, DeleteGoesOn, DeleteFails
<1>12. ASSUME NEW where \in {"refreshing", "elsewhere"}, RefreshOver(where)
       PROVE  run'[d].at = "asking"
  <2> DEFINE D == {e \in Deletions : run[e].at = where}
             T == {t \in Tasks : task[t].at = where}
  <2>1. CASE \E t \in T : Show(t)
    BY <1>1, <2>1
  <2>2. CASE Finally(D, T, {}) /\ UNCHANGED askVars
    BY <1>2, <1>4, <2>2
  <2> QED BY <1>12, <2>1, <2>2 DEF RefreshOver
<1>13. ASSUME NEW ok, FetchArrives(ok) PROVE run'[d].at = "asking"
  BY <1>12, <1>13 DEF FetchArrives
<1>14. CASE ArrivesElsewhere
  BY <1>12, <1>14 DEF ArrivesElsewhere
<1>15. ASSUME NEW x, Tick(x) \/ PressDown(x) \/ Vanish(x) PROVE run'[d].at = "asking"
  BY <1>3, <1>15 DEF Tick, PressDown, Vanish
<1>16. CASE \/ Navigate \/ StartMove \/ CloseMove \/ Slide \/ Release \/ HoldFires \/ Poll
            \/ FetchServe \/ MoveStep
  BY <1>3, <1>16 DEF Navigate, StartMove, CloseMove, Slide, Release, HoldFires, Poll, FetchServe,
     MoveStep, MoveServe, MoveEnds
<1>17. CASE AskLeave \/ AnswerLeave \/ AskCancel
  BY <1>1, <1>17 DEF AskLeave, AnswerLeave, AskCancel
<1>18. CASE UploadSettles
  BY <1>1, <1>3, <1>18 DEF UploadSettles, Dismiss
<1> QED
  BY <1>5, <1>6, <1>7, <1>9, <1>10, <1>11, <1>13, <1>15, <1>16, <1>17, <1>18,
     <1>8, <1>14
  DEF PageNext, UserStep, Fault, Arrive, DeletionStep

\* The other things a step does: nothing that is gone comes back, and the listing
\* under way loses rows, or is the server's, or no longer matters.
Calm ==
    /\ place' \in [Items -> {"here", "moved", "gone"}]
    /\ \A x \in Items : place[x] = "gone" => place'[x] = "gone"
    /\ excused => excused'
    /\ ~open' => open' = open \/ excused'
    /\ fetch'.at # "served" => fetch'.rows = {}
    /\ \/ excused'
       \/ fetch'.rows \subseteq fetch.rows
       \/ \A x \in Items : place[x] = "gone" => x \notin fetch'.rows

LEMMA CalmKeeps ==
  ASSUME GoneInv, Calm, NEW d \in Deletions, run'[d] = run[d] \/ run'[d] = NoRun
  PROVE  Sent(d)'
<1>1. /\ run[d].items \subseteq Items
      /\ \A x \in run[d].items : place[x] = "gone" => place'[x] = "gone"
  <2>1. run[d] \in Runs
    BY DEF GoneInv
  <2> QED BY <2>1 DEF Runs, Calm
<1>2. CASE run'[d] = NoRun
  BY <1>2 DEF Sent, NoRun
<1>3. CASE run'[d] = run[d]
  <2>1. Sent(d)
    BY DEF GoneInv
  <2>2. run'[d].at = "refreshing" =>
          excused' \/ \A x \in run'[d].items : place'[x] = "gone" /\ x \notin fetch'.rows
    BY <1>1, <1>3, <2>1 DEF Calm, Sent
  <2>3. run'[d].at \in {"deleting", "answered"} =>
          \A x \in run'[d].items \ run'[d].todo : place'[x] = "gone"
    BY <1>1, <1>3, <2>1 DEF Sent
  <2> QED BY <1>3, <2>1, <2>2, <2>3 DEF Sent, Calm
<1> QED BY <1>2, <1>3

LEMMA CalmStep ==
  ASSUME GoneInv, Calm, \E D \in SUBSET Deletions :
           run' = [d \in Deletions |-> IF d \in D THEN NoRun ELSE run[d]]
  PROVE  GoneInv'
<1>1. PICK D \in SUBSET Deletions :
        run' = [d \in Deletions |-> IF d \in D THEN NoRun ELSE run[d]]
  OBVIOUS
<1>2. NoRun \in Runs
  BY DEF NoRun, Runs
<1>3. run' \in [Deletions -> Runs]
  BY <1>1, <1>2 DEF GoneInv
<1>4. \A d \in Deletions : Sent(d)'
  BY <1>1, CalmKeeps
<1> QED BY <1>3, <1>4 DEF GoneInv, Calm

LEMMA OneRun ==
  ASSUME GoneInv, Calm, NEW d \in Deletions, NEW r \in Runs, run' = [run EXCEPT ![d] = r], Sent(d)'
  PROVE  GoneInv'
<1>1. run' \in [Deletions -> Runs]
  BY DEF GoneInv
<1>2. ASSUME NEW e \in Deletions, e # d PROVE run'[e] = run[e]
  BY <1>2 DEF GoneInv
<1>3. \A e \in Deletions : Sent(e)'
  BY <1>2, CalmKeeps
<1> QED BY <1>1, <1>3 DEF GoneInv, Calm

LEMMA GoneStep == GoneInv /\ AskedInv /\ [PageNext]_pageVars => GoneInv'
<1> SUFFICES ASSUME GoneInv, AskedInv, [PageNext]_pageVars PROVE GoneInv'
  OBVIOUS
<1> DEFINE Ended(D) == run' = [d \in Deletions |-> IF d \in D THEN NoRun ELSE run[d]]
<1>1. UNCHANGED run => Ended({})
  BY DEF GoneInv
<1>2. UNCHANGED <<place, open, excused, fetch>> => Calm
  BY DEF Calm, GoneInv
<1>3. ASSUME NEW D \in SUBSET Deletions, NEW T, NEW N, Finally(D, T, N) PROVE Ended(D)
  BY <1>3 DEF Finally
<1>4. ASSUME NEW where, RefreshOver(where)
      PROVE  \E D \in SUBSET Deletions : Ended(D)
  BY <1>3, <1>4 DEF RefreshOver
<1>5. Asked.rows = {} /\ NoFetch.rows = {}
  BY DEF Asked, NoFetch
<1>6. Refresh /\ UNCHANGED <<place, open, excused>> => Calm
  BY <1>5 DEF Refresh, Calm, GoneInv
<1>7. Turn /\ UNCHANGED place => Calm
  BY <1>5 DEF Turn, Calm, GoneInv
<1>8. ASSUME NEW d \in Deletions, run' = [run EXCEPT ![d] = NoRun] PROVE Ended({d})
  BY <1>8 DEF GoneInv
<1> HIDE DEF Ended
<1>9. Calm /\ (\E D \in SUBSET Deletions : Ended(D)) => GoneInv'
  BY CalmStep DEF Ended
<1>10. Calm /\ UNCHANGED run => GoneInv'
  BY <1>1, <1>9
<1> USE DEF listVars, workVars
<1>11. CASE UNCHANGED pageVars
  BY <1>2, <1>10, <1>11 DEF pageVars
\* Those that leave the items, the listing and the deletions alone.
<1>12. ASSUME NEW S, NEW bar, OpenMove(S, bar) PROVE GoneInv'
  BY <1>2, <1>10, <1>12 DEF OpenMove
<1>13. ASSUME NEW yes, NEW t, AnswerCancel(yes) \/ AnswerName(t, yes) PROVE GoneInv'
  BY <1>2, <1>10, <1>13 DEF AnswerCancel, AnswerName
<1>14. ASSUME NEW t, NEW kind, AskName(t) \/ StartTask(t, kind) PROVE GoneInv'
  BY <1>2, <1>10, <1>14 DEF AskName, StartTask
<1>15. ASSUME NEW t, AnswerNotice(t) \/ TaskFails(t) PROVE GoneInv'
  BY <1>2, <1>3, <1>9, <1>15 DEF AnswerNotice, TaskFails
<1>16. ASSUME NEW x, Tick(x) \/ PressDown(x) PROVE GoneInv'
  BY <1>2, <1>10, <1>16 DEF Tick, PressDown
<1>17. CASE StartMove \/ CloseMove \/ AskLeave \/ AnswerLeave \/ AskCancel \/ Slide \/ HoldFires
  BY <1>2, <1>10, <1>17 DEF StartMove, CloseMove, AskLeave, AnswerLeave, AskCancel, Slide, HoldFires
<1>18. CASE Navigate
  BY <1>7, <1>10, <1>18 DEF Navigate
<1>19. CASE Release
  BY <1>2, <1>7, <1>10, <1>19 DEF Release, Click
\* The listing.
<1>20. CASE Poll
  BY <1>5, <1>10, <1>20 DEF Poll, Calm, GoneInv
<1>21. CASE FetchServe
  <2>1. fetch'.at = "served" /\ \A x \in Items : place[x] = "gone" => x \notin fetch'.rows
    BY <1>21 DEF FetchServe
  <2> QED BY <1>10, <1>21, <2>1 DEF FetchServe, Calm, GoneInv
<1>22. ASSUME NEW ok, FetchArrives(ok) PROVE GoneInv'
  <2>1. Calm
    BY <1>5, <1>22 DEF FetchArrives, Calm, GoneInv
  <2> QED BY <1>4, <1>9, <1>22, <2>1 DEF FetchArrives
<1>23. CASE ArrivesElsewhere
  BY <1>2, <1>4, <1>9, <1>23 DEF ArrivesElsewhere
\* The tasks and the moves.
<1>24. ASSUME NEW t, TaskServed(t) PROVE GoneInv'
  <2>1. CASE Refresh /\ UNCHANGED run
    BY <1>6, <1>10, <1>24, <2>1 DEF TaskServed
  <2>2. CASE Finally({}, {t}, {}) /\ UNCHANGED fetch
    BY <1>2, <1>3, <1>9, <1>24, <2>2 DEF TaskServed
  <2> QED BY <1>24, <2>1, <2>2 DEF TaskServed
<1>25. CASE MoveEnds
  BY <1>6, <1>10, <1>25 DEF MoveEnds
<1>26. CASE MoveServe
  <2>1. Calm
    BY <1>26 DEF MoveServe, Calm, GoneInv
  <2> QED BY <1>10, <1>26, <2>1 DEF MoveServe
<1>27. ASSUME NEW x, Vanish(x) PROVE GoneInv'
  <2>1. Calm
    BY <1>27 DEF Vanish, Calm, GoneInv
  <2> QED BY <1>10, <1>27, <2>1 DEF Vanish
\* The deletions.
<1>28. ASSUME NEW d \in Deletions, NEW S \in SUBSET Items, NEW bar \in BOOLEAN, AskDelete(d, S, bar)
       PROVE  GoneInv'
  <2> DEFINE r == [at |-> "asking", items |-> S, todo |-> S, bar |-> bar]
  <2>1. Calm /\ run' = [run EXCEPT ![d] = r]
    BY <1>2, <1>28 DEF AskDelete
  <2>2. r \in Runs
    BY DEF Runs
  <2>3. Sent(d)'
    BY <2>1 DEF Sent, GoneInv
  <2> QED BY <2>1, <2>2, <2>3, OneRun
<1>29. ASSUME NEW d \in Deletions, NEW yes \in BOOLEAN, AnswerDelete(d, yes)
       PROVE  GoneInv'
  <2>1. CASE run' = [run EXCEPT ![d] = NoRun]
    BY <1>2, <1>9, <1>29, <1>8, <2>1 DEF AnswerDelete
  <2>2. CASE run' = [run EXCEPT ![d].at = "deleting"]
    <3> DEFINE r == [run[d] EXCEPT !.at = "deleting"]
    <3>1. run[d] \in Runs /\ Sent(d) /\ run[d].at = "asking"
      BY <1>29 DEF GoneInv, AskedInv, AnswerDelete
    <3>2. r \in Runs /\ r.at = "deleting" /\ r.items = run[d].items /\ r.todo = r.items
      BY <3>1 DEF Runs, Sent
    <3>3. run' = [run EXCEPT ![d] = r] /\ run'[d] = r
      BY <2>2 DEF GoneInv
    <3> HIDE DEF r
    <3>4. Calm /\ Sent(d)'
      BY <1>2, <1>29, <3>2, <3>3 DEF AnswerDelete, Sent
    <3> QED BY <3>2, <3>3, <3>4, OneRun
  <2> QED BY <1>29, <2>1, <2>2 DEF AnswerDelete
<1>30. ASSUME NEW d \in Deletions, DeleteServe(d) PROVE GoneInv'
  <2>1. PICK x \in run[d].todo :
          /\ run' = [run EXCEPT ![d] = [@ EXCEPT !.todo = run[d].todo \ {x},
                               !.at = IF place[x] = "gone" THEN "refused" ELSE "answered"]]
          /\ place' = [place EXCEPT ![x] = "gone"]
    BY <1>30 DEF DeleteServe
  <2>2. run[d] \in Runs /\ Sent(d) /\ run[d].at = "deleting"
    BY <1>30 DEF GoneInv, DeleteServe
  <2>3. PICK phase \in {"refused", "answered"} :
          phase = IF place[x] = "gone" THEN "refused" ELSE "answered"
    OBVIOUS
  <2> DEFINE r == [run[d] EXCEPT !.todo = run[d].todo \ {x}, !.at = phase]
  <2>4. run' = [run EXCEPT ![d] = r] /\ run'[d] = r
    BY <2>1, <2>3 DEF GoneInv
  <2>5. r \in Runs
    BY <2>2 DEF Runs
  <2>6. r.items = run[d].items /\ r.todo = run[d].todo \ {x} /\ r.at = phase
    BY <2>2 DEF Runs
  <2> HIDE DEF r
  <2>7. Calm
    BY <1>30, <2>1 DEF DeleteServe, Calm, GoneInv
  <2>8. run[d].items \subseteq Items /\ run[d].todo \subseteq Items
    BY <2>2 DEF Runs
  <2>9. \A y \in r.items \ r.todo : place'[y] = "gone"
    BY <2>1, <2>2, <2>6, <2>8 DEF Sent, GoneInv
  <2>10. Sent(d)'
    BY <2>3, <2>4, <2>6, <2>9 DEF Sent
  <2> QED BY <2>4, <2>5, <2>7, <2>10, OneRun
<1>31. ASSUME NEW d \in Deletions, DeleteGoesOn(d) PROVE GoneInv'
  <2>1. PICK phase \in {"refreshing", "elsewhere", "deleting"} :
          /\ run' = [run EXCEPT ![d].at = phase]
          /\ phase = "deleting" => UNCHANGED <<fetch, stale>>
          /\ phase # "deleting" => run[d].todo = {} /\ phase = Refreshing /\ Refresh
    BY <1>31 DEF DeleteGoesOn, Refreshing
  <2> DEFINE r == [run[d] EXCEPT !.at = phase]
  <2>2. run[d] \in Runs /\ Sent(d) /\ run[d].at = "answered"
    BY <1>31 DEF GoneInv, DeleteGoesOn
  <2>3. r \in Runs /\ r.at = phase /\ r.items = run[d].items /\ r.todo = run[d].todo
    BY <2>1, <2>2 DEF Runs
  <2>4. run' = [run EXCEPT ![d] = r] /\ run'[d] = r
    BY <2>1 DEF GoneInv
  <2> HIDE DEF r
  <2>5. Calm
    BY <1>2, <1>6, <1>31, <2>1 DEF DeleteGoesOn
  <2>6. \A x \in r.items \ r.todo : place'[x] = "gone"
    BY <1>31, <2>2, <2>3 DEF Sent, DeleteGoesOn
  <2>7. phase = "refreshing" => r.todo = {} /\ fetch'.rows = {}
    BY <1>5, <2>1, <2>3 DEF Refreshing, Refresh
  <2>8. phase = "elsewhere" => excused'
    BY <1>31, <2>1 DEF Refreshing, DeleteGoesOn, GoneInv
  <2>9. Sent(d)'
    BY <2>1, <2>3, <2>4, <2>6, <2>7, <2>8 DEF Sent
  <2> QED BY <2>3, <2>4, <2>5, <2>9, OneRun
<1>32. ASSUME NEW d \in Deletions, NEW lost, DeleteFails(d, lost) PROVE GoneInv'
  <2>1. Calm
    BY <1>32 DEF DeleteFails, Calm, GoneInv
  <2> QED BY <1>3, <1>9, <1>32, <2>1 DEF DeleteFails
\* A question is withdrawn.
<1>33. CASE UploadSettles
  BY <1>2, <1>3, <1>9, <1>10, <1>8, <1>33 DEF UploadSettles, Dismiss
<1> QED
  BY <1>11, <1>12, <1>13, <1>14, <1>15, <1>16, <1>17, <1>18, <1>19, <1>20, <1>21, <1>22, <1>23,
     <1>24, <1>25, <1>26, <1>27, <1>28, <1>29, <1>30, <1>31, <1>32, <1>33
  DEF PageNext, UserStep, Fault, Arrive, DeletionStep, MoveStep

\* The finally of a deletion comes after its refresh: an item that is no longer
\* here and was locked is not offered again, unless a request failed or the user
\* went to another folder in between.
THEOREM DeletedRowsGo == PageSpec => DeletedRowsGoFirst
<1>1. PageInit => GoneInv /\ AskedInv
  <2> SUFFICES ASSUME PageInit PROVE GoneInv /\ AskedInv
    OBVIOUS
  <2>1. NoRun \in Runs /\ NoRun.at = "none" /\ NoFetch = [at |-> "idle", rows |-> {}]
    BY DEF NoRun, Runs, NoFetch
  <2> QED BY <2>1, PageAssumption DEF PageInit, GoneInv, AskedInv, Sent
<1>2. GoneInv /\ [PageNext]_pageVars =>
        [\A x \in marked \ marked' : place[x] # "here" => x \notin shown' \/ excused']_pageVars
  <2> SUFFICES ASSUME GoneInv, PageNext, NEW x \in marked \ marked', ~excused'
               PROVE  x \notin shown'
    OBVIOUS
  <2>1. ASSUME NEW D, NEW T, NEW N, Finally(D, T, N) PROVE \E d \in D : x \in run[d].items
    BY <2>1 DEF Finally
  <2>2. ~Finally({}, {}, {}) /\ \A T, N : ~Finally({}, T, N)
    BY <2>1
  <2>3. ASSUME NEW where, RefreshOver(where)
        PROVE  \E d \in Deletions : run[d].at = where /\ x \in run[d].items
    <3> DEFINE D == {d \in Deletions : run[d].at = where}
               T == {t \in Tasks : task[t].at = where}
    <3>1. PICK N : Finally(D, T, N)
      BY <2>3 DEF RefreshOver
    <3>2. PICK d \in D : x \in run[d].items
      BY <2>1, <3>1
    <3> QED BY <3>2
  <2>4. ~ArrivesElsewhere
    BY <2>3 DEF ArrivesElsewhere, GoneInv, Sent
  <2>5. FetchArrives(TRUE)
    BY <2>2, <2>4 DEF PageNext, UserStep, Fault, Arrive, DeletionStep, OpenMove, AskDelete,
       AnswerCancel, AnswerDelete, AnswerName, AskName, AnswerNotice, StartTask, Navigate,
       StartMove, CloseMove, AskLeave, AnswerLeave, AskCancel, Tick, PressDown, Slide, Release,
       HoldFires, FetchArrives, DeleteFails, TaskFails, Poll, FetchServe, MoveStep, MoveServe,
       MoveEnds, DeleteServe, DeleteGoesOn, TaskServed, Vanish, UploadSettles, Dismiss, workVars
  <2>6. shown' = fetch.rows /\ RefreshOver("refreshing") /\ UNCHANGED excused
    BY <2>5 DEF FetchArrives
  <2> QED BY <2>3, <2>6 DEF GoneInv, Sent
<1> QED BY <1>1, <1>2, GoneStep, AskedStep, PTL DEF PageSpec, DeletedRowsGoFirst

=============================================================================
